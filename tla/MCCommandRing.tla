--------------------------- MODULE MCCommandRing ---------------------------
(* An instance of CommandRing for TLC.                                      *)
EXTENDS CommandRing
=============================================================================
