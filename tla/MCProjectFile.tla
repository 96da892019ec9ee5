--------------------------- MODULE MCProjectFile ---------------------------
(* Instances of ProjectFile for TLC.                                        *)
EXTENDS ProjectFile
=============================================================================
