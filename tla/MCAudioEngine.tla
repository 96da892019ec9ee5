--------------------------- MODULE MCAudioEngine ---------------------------
(* Instances of AudioEngine for TLC.                                        *)
EXTENDS AudioEngine
=============================================================================
