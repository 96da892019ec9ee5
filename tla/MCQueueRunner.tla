--------------------------- MODULE MCQueueRunner ---------------------------
(* Instances of QueueRunner for TLC.                                        *)
EXTENDS QueueRunner
=============================================================================
