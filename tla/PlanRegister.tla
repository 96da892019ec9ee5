---------------------------- MODULE PlanRegister ----------------------------
(***************************************************************************)
(* What the snapshot store promises: a register of render plans with one   *)
(* writer and one reader that never waits.  The reader moves, one plan at  *)
(* a time, to plans that were really published and are strictly newer      *)
(* than the one it renders; it need not see every plan, and it gives its   *)
(* plan up only when it is finished.                                       *)
(***************************************************************************)
EXTENDS Naturals

VARIABLES
  latest,    \* number of the newest published plan, 0 before the first
  rendered,  \* number of the plan the reader renders, 0 for silence
  finished   \* the reader has given up its plan for good

Init == latest = 0 /\ rendered = 0 /\ finished = FALSE

Publish == latest' = latest + 1 /\ UNCHANGED <<rendered, finished>>

Take ==
  /\ ~finished
  /\ rendered' \in rendered + 1 .. latest
  /\ UNCHANGED <<latest, finished>>

Finish ==
  /\ ~finished
  /\ finished' = TRUE
  /\ rendered' = 0
  /\ UNCHANGED latest

Next == Publish \/ Take \/ Finish

Spec == Init /\ [][Next]_<<latest, rendered, finished>>
=============================================================================
