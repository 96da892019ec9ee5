---------------------------- MODULE Reachability ----------------------------
(***************************************************************************)
(* The depth-first walks of the C++ code over a signal graph, as the sets  *)
(* of nodes that they visit.                                               *)
(***************************************************************************)
CONSTANT Nodes      \* node ids

Closed(E, S) == \A e \in E : e.from \in S => e.to \in S

\* The nodes that a depth-first walk along E from the nodes of S visits: they are
\* in every set that has S and that E does not lead out of.
Reached(E, S) ==
  LET supersets == {T \in SUBSET Nodes : S \subseteq T /\ Closed(E, T)}
  IN  {n \in Nodes : \A T \in supersets : n \in T}
=============================================================================
