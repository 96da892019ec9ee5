--------------------------- MODULE MCSignalGraph ---------------------------
(* Instances of SignalGraph for TLC.                                        *)
EXTENDS SignalGraph
=============================================================================
