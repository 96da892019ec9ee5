------------------------- MODULE SignalGraphProofs -------------------------
(***************************************************************************)
(* Proofs about SignalGraph for every finite set of nodes, every set of    *)
(* kinds and ports, and every bound.                                       *)
(*                                                                         *)
(* A node is out of reach when a set of nodes closed under the edges keeps *)
(* it out.  The proof that a new edge closes no cycle combines two such    *)
(* sets: the one that AddEdge's own check gives, and the one of an edge    *)
(* that is there already.                                                  *)
(*                                                                         *)
(* What the functions of the graph compute is then shown for every graph   *)
(* that the invariant allows: the solo set, the order and the render.      *)
(***************************************************************************)
EXTENDS SignalGraph, FiniteSetTheorems, SequenceTheorems, TLAPS

\* A walk from S misses x when a closed set around S does.
LEMMA Missed ==
  ASSUME NEW E, NEW S, NEW x \in Nodes
  PROVE  x \notin Reached(E, S) <=>
           \E T \in SUBSET Nodes : S \subseteq T /\ Closed(E, T) /\ x \notin T
BY DEF Reached

\* A walk along fewer edges visits no more.
LEMMA FewerEdges ==
  ASSUME NEW E, NEW F \in SUBSET E, NEW S, NEW x \in Nodes, x \notin Reached(E, S)
  PROVE  x \notin Reached(F, S)
<1>1. PICK T \in SUBSET Nodes : S \subseteq T /\ Closed(E, T) /\ x \notin T
  BY Missed
<1>2. Closed(F, T)
  BY <1>1 DEF Closed
<1>3. QED
  BY <1>1, <1>2, Missed

\* An edge between two nodes of which the second does not lead to the first leaves
\* every edge e off a cycle that was off one, the new edge included.
LEMMA NewEdgeOffCycles ==
  ASSUME NEW E \in SUBSET Edges, NEW new \in Edges,
         new.from \notin Reached(E, {new.to}),
         NEW e \in E \cup {new}, e.from \notin Reached(E, {e.to})
  PROVE  e.from \notin Reached(E \cup {new}, {e.to})
<1> DEFINE F == E \cup {new}
<1>0. new.from \in Nodes /\ new.to \in Nodes /\ e.from \in Nodes /\ e.to \in Nodes
  BY DEF Edges
<1>1. PICK A \in SUBSET Nodes : new.to \in A /\ Closed(E, A) /\ new.from \notin A
  BY <1>0, Missed
<1>2. PICK B \in SUBSET Nodes : e.to \in B /\ Closed(E, B) /\ e.from \notin B
  BY <1>0, Missed
<1>3. Closed(F, A)
  BY <1>1 DEF Closed
<1>4. ASSUME NEW T \in SUBSET Nodes, e.to \in T, Closed(F, T), e.from \notin T
      PROVE  e.from \notin Reached(F, {e.to})
  BY <1>0, <1>4, Missed
<1>5. CASE new.from \notin B
  <2>1. Closed(F, B)
    BY <1>2, <1>5 DEF Closed
  <2>2. QED
    BY <1>2, <1>4, <2>1
<1>6. CASE e.from \notin A
  <2>1. Closed(F, A \cup B)
    BY <1>1, <1>2, <1>3 DEF Closed
  <2>2. QED
    BY <1>2, <1>4, <1>6, <2>1
<1>7. CASE e.from \in A
  <2>1. e \in E /\ e.to \in A
    BY <1>1, <1>3, <1>7 DEF Closed
  <2>2. Closed(F, A \cap B)
    BY <1>1, <1>2 DEF Closed
  <2>3. QED
    BY <1>2, <1>4, <2>1, <2>2
<1>8. QED
  BY <1>5, <1>6, <1>7

IndInv == TypeOK /\ WellRouted /\ Acyclic

LEMMA InitInd == Init => IndInv
BY DEF Init, IndInv, TypeOK, WellRouted, Acyclic, Present

LEMMA NextTyped == TypeOK /\ [Next]_vars => TypeOK'
<1> SUFFICES ASSUME TypeOK, [Next]_vars PROVE TypeOK'
  OBVIOUS
<1> USE DEF TypeOK
<1>1. ASSUME NEW n \in Nodes, NEW k \in Kinds \cup {"invalid"}, AddNode(n, k)
      PROVE  TypeOK'
  BY <1>1 DEF AddNode
<1>2. ASSUME NEW n \in Nodes, RemoveNode(n) PROVE TypeOK'
  BY <1>2 DEF RemoveNode
<1>3. ASSUME NEW n \in Nodes, NEW mute \in BOOLEAN, NEW solo \in BOOLEAN,
             SetMixer(n, mute, solo)
      PROVE  TypeOK'
  BY <1>3 DEF SetMixer, Flag
<1>4. ASSUME NEW e \in Edges, AddEdge(e) PROVE TypeOK'
  BY <1>4 DEF AddEdge
<1>5. ASSUME NEW e \in Edges, RemoveEdge(e) PROVE TypeOK'
  BY <1>5 DEF RemoveEdge
<1>6. CASE UNCHANGED vars
  BY <1>6 DEF vars
<1>7. QED
  BY <1>1, <1>2, <1>3, <1>4, <1>5, <1>6 DEF Next

LEMMA NextWellRouted == TypeOK /\ WellRouted /\ [Next]_vars => WellRouted'
<1> SUFFICES ASSUME TypeOK, WellRouted, [Next]_vars PROVE WellRouted'
  OBVIOUS
<1>0. \A e \in edges : e.from \in Nodes /\ e.to \in Nodes
  BY DEF TypeOK, Edges
<1> USE <1>0 DEF TypeOK, WellRouted, Present
<1>1. ASSUME NEW n \in Nodes, NEW k \in Kinds \cup {"invalid"}, AddNode(n, k)
      PROVE  WellRouted'
  <2>1. k # Absent
    BY <1>1, GraphAssumption DEF AddNode, Absent
  <2>2. QED
    BY <1>1, <2>1 DEF AddNode
<1>2. ASSUME NEW n \in Nodes, RemoveNode(n) PROVE WellRouted'
  BY <1>2 DEF RemoveNode
<1>3. ASSUME NEW n \in Nodes, NEW mute \in BOOLEAN, NEW solo \in BOOLEAN,
             SetMixer(n, mute, solo)
      PROVE  WellRouted'
  BY <1>3 DEF SetMixer, Flag
<1>4. ASSUME NEW e \in Edges, AddEdge(e) PROVE WellRouted'
  BY <1>4 DEF AddEdge
<1>5. ASSUME NEW e \in Edges, RemoveEdge(e) PROVE WellRouted'
  BY <1>5 DEF RemoveEdge
<1>6. CASE UNCHANGED vars
  BY <1>6 DEF vars
<1>7. QED
  BY <1>1, <1>2, <1>3, <1>4, <1>5, <1>6 DEF Next

LEMMA NextAcyclic == TypeOK /\ Acyclic /\ [Next]_vars => Acyclic'
<1> SUFFICES ASSUME TypeOK, Acyclic, [Next]_vars PROVE Acyclic'
  OBVIOUS
<1>0. \A e \in edges : e \in Edges /\ e.from \in Nodes /\ e.from \notin Reached(edges, {e.to})
  BY DEF TypeOK, Acyclic, CanReach, Edges
<1>1. ASSUME edges' \subseteq edges PROVE Acyclic'
  <2>1. ASSUME NEW e \in edges' PROVE e.from \notin Reached(edges', {e.to})
    BY <1>0, <1>1, FewerEdges
  <2>2. QED
    BY <2>1 DEF Acyclic, CanReach
<1>2. ASSUME NEW new \in Edges, AddEdge(new) PROVE Acyclic'
  <2>1. edges' = edges \cup {new} /\ new.from \notin Reached(edges, {new.to})
    BY <1>2 DEF AddEdge, ClosesCycle, CanReach
  <2>2. edges \in SUBSET Edges
    BY DEF TypeOK
  <2>3. ASSUME NEW e \in edges' PROVE e.from \notin Reached(edges', {e.to})
    <3>1. e \in edges \cup {new} /\ e.from \notin Reached(edges, {e.to})
      BY <1>0, <2>1
    <3>2. e.from \notin Reached(edges \cup {new}, {e.to})
      BY <2>1, <2>2, <3>1, NewEdgeOffCycles
    <3>3. QED
      BY <2>1, <3>2
  <2>4. QED
    BY <2>3 DEF Acyclic, CanReach
<1>3. CASE Next
  <2>1. ASSUME NEW n \in Nodes, NEW k \in Kinds \cup {"invalid"}, AddNode(n, k)
        PROVE  edges' \subseteq edges
    BY <2>1 DEF AddNode
  <2>2. ASSUME NEW n \in Nodes, RemoveNode(n) PROVE edges' \subseteq edges
    BY <2>2 DEF RemoveNode
  <2>3. ASSUME NEW n \in Nodes, NEW mute \in BOOLEAN, NEW solo \in BOOLEAN,
               SetMixer(n, mute, solo)
        PROVE  edges' \subseteq edges
    BY <2>3 DEF SetMixer
  <2>4. ASSUME NEW e \in Edges, RemoveEdge(e) PROVE edges' \subseteq edges
    BY <2>4 DEF RemoveEdge
  <2>5. QED
    BY <1>1, <1>2, <1>3, <2>1, <2>2, <2>3, <2>4 DEF Next
<1>4. CASE UNCHANGED vars
  BY <1>1, <1>4 DEF vars
<1>5. QED
  BY <1>3, <1>4

\* The conjunction is inductive, so it holds in every reachable state.
THEOREM GraphInvariant == Spec => []IndInv
<1>1. IndInv /\ [Next]_vars => IndInv'
  BY NextTyped, NextWellRouted, NextAcyclic DEF IndInv
<1>2. QED
  BY InitInd, <1>1, PTL DEF Spec

\* Every variable keeps its type.
THEOREM GraphTypeOK == Spec => []TypeOK
<1>1. IndInv => TypeOK
  BY DEF IndInv
<1>2. QED
  BY <1>1, GraphInvariant, PTL

\* The routing rules hold after every sequence of edits, removals that take edges
\* with them and ids that come back with another kind included.
THEOREM GraphWellRouted == Spec => []WellRouted
<1>1. IndInv => WellRouted
  BY DEF IndInv
<1>2. QED
  BY <1>1, GraphInvariant, PTL

\* The walk that add_edge makes before it adds an edge is enough: no sequence of
\* edits ever closes a cycle.
THEOREM GraphStaysAcyclic == Spec => []Acyclic
<1>1. IndInv => Acyclic
  BY DEF IndInv
<1>2. QED
  BY <1>1, GraphInvariant, PTL

-----------------------------------------------------------------------------
(***************************************************************************)
(* The solo of one node.                                                   *)
(***************************************************************************)

\* What walks up to a node is what walks down from it backwards.
LEMMA WalksReverse ==
  ASSUME NEW E \in SUBSET Edges, NEW s \in Nodes, NEW u \in Nodes, u \in Reached(Reversed(E), {s})
  PROVE  s \in Reached(E, {u})
<1> SUFFICES ASSUME s \notin Reached(E, {u}) PROVE FALSE
  OBVIOUS
<1>1. PICK C \in SUBSET Nodes : u \in C /\ Closed(E, C) /\ s \notin C
  BY Missed
<1>2. Closed(Reversed(E), Nodes \ C)
  <2>1. ASSUME NEW r \in Reversed(E), r.from \in Nodes \ C PROVE r.to \in Nodes \ C
    <3>1. PICK e \in E : r = [e EXCEPT !.from = e.to, !.to = e.from]
      BY <2>1 DEF Reversed
    <3>2. r.from = e.to /\ r.to = e.from /\ e.from \in Nodes
      BY <3>1 DEF Edges
    <3>3. QED
      BY <1>1, <2>1, <3>2 DEF Closed
  <2>2. QED
    BY <2>1 DEF Closed
<1>3. s \in Nodes \ C /\ u \notin Nodes \ C
  BY <1>1
<1>4. u \notin Reached(Reversed(E), {s})
  <2>1. Nodes \ C \in SUBSET Nodes /\ {s} \subseteq Nodes \ C
    BY <1>3
  <2>2. QED
    BY <1>2, <1>3, <2>1, Missed
<1>5. QED
  BY <1>4

\* The walk up passes over what the walk down has seen.  In a graph without a cycle that
\* is nothing which it would have had to visit.
LEMMA OneSoloKeepsItsPaths ==
  ASSUME TypeOK, Acyclic, NEW s \in Nodes, soloed = {s}
  PROVE  Active = Downstream \cup AllUpstream
<1> DEFINE R == Reversed(edges)
           K == {e \in R : e.to \notin Downstream}
<1>1. Downstream \subseteq Nodes /\ Upstream \subseteq Nodes /\ AllUpstream \subseteq Nodes
  BY DEF Downstream, Upstream, AllUpstream, Reached
<1>2. ASSUME NEW x \in Nodes, x \in Upstream PROVE x \in AllUpstream
  BY <1>2, FewerEdges DEF Upstream, AllUpstream
<1>3. ASSUME NEW x \in Nodes, x \in AllUpstream PROVE x \in Upstream
  <2> SUFFICES ASSUME x \notin Reached(K, {s}) PROVE FALSE
    BY DEF Upstream
  <2>1. PICK T \in SUBSET Nodes : s \in T /\ Closed(K, T) /\ x \notin T
    BY Missed
  <2> DEFINE U == T \cap Reached(R, {s})
  <2>2. s \in U /\ U \in SUBSET Nodes
    BY <2>1 DEF Reached
  <2>3. ASSUME NEW r \in R, r.from \in U PROVE r.to \in U
    <3>1. PICK e \in edges : r = [e EXCEPT !.from = e.to, !.to = e.from]
      BY <2>3 DEF Reversed
    <3>2. e \in Edges /\ r.from = e.to /\ r.to = e.from /\ e.from \in Nodes /\ e.to \in Nodes
      BY <3>1 DEF Edges, TypeOK
    <3>3. r.to \in Reached(R, {s})
      BY <2>3, <3>2 DEF Reached, Closed
    <3>4. r.to \notin Downstream
      <4>1. s \in Reached(edges, {e.to})
        BY <2>3, <3>2, WalksReverse DEF TypeOK
      <4>2. PICK C \in SUBSET Nodes : e.to \in C /\ Closed(edges, C) /\ e.from \notin C
        <5>1. e.from \notin Reached(edges, {e.to})
          BY <3>1 DEF Acyclic, CanReach
        <5>2. QED
          BY <3>2, <5>1, Missed
      <4>3. s \in C
        BY <4>1, <4>2 DEF Reached
      <4>4. e.from \notin Reached(edges, {s})
        BY <3>2, <4>2, <4>3, Missed
      <4>5. QED
        BY <3>2, <4>4 DEF Downstream
    <3>5. r.to \in T
      BY <2>1, <2>3, <3>4 DEF Closed
    <3>6. QED
      BY <3>3, <3>5
  <2>4. x \in U
    <3>1. Closed(R, U)
      BY <2>3 DEF Closed
    <3>2. QED
      BY <1>3, <2>2, <3>1 DEF AllUpstream, Reached
  <2>5. QED
    BY <2>1, <2>4
<1>4. QED
  BY <1>1, <1>2, <1>3 DEF Active

\* So with one node soloed exactly its paths stay active, whatever else the graph has.
THEOREM GraphSoloKeepsItsPaths == Spec => []SoloKeepsItsPaths
<1>1. IndInv => SoloKeepsItsPaths
  <2>1. SUFFICES ASSUME IndInv, Cardinality(soloed) = 1
                 PROVE  Active = Downstream \cup AllUpstream
    BY DEF SoloKeepsItsPaths
  <2>2. IsFiniteSet(soloed)
    <3>1. soloed \in SUBSET Nodes /\ IsFiniteSet(Nodes)
      BY <2>1, GraphAssumption DEF IndInv, TypeOK
    <3>2. QED
      BY <3>1, FS_Subset
  <2>3. PICK s : soloed = {s}
    BY <2>1, <2>2, FS_Singleton
  <2>4. QED
    BY <2>1, <2>3, OneSoloKeepsItsPaths DEF IndInv, TypeOK
<1>2. QED
  BY <1>1, GraphInvariant, PTL

-----------------------------------------------------------------------------
(***************************************************************************)
(* Induction.  A set of numbers k .. n that has the predecessor of each of *)
(* its members cannot have the largest, since taking predecessors would be *)
(* an injection of a finite set into itself that is not onto.              *)
(***************************************************************************)

\* A set that has 0 and the successors of its numbers has every number.
LEMMA NatInducts ==
  ASSUME NEW S, 0 \in S, \A n \in Nat : n \in S => n + 1 \in S
  PROVE  Nat \subseteq S
<1> SUFFICES ASSUME NEW n \in Nat, n \notin S PROVE FALSE
  OBVIOUS
<1> DEFINE B == {k \in 0 .. n : k \notin S}
           f == [k \in B |-> k - 1]
<1>1. IsFiniteSet(B)
  <2>1. IsFiniteSet(0 .. n)
    BY FS_Interval
  <2>2. QED
    BY <2>1, FS_Subset
<1>2. \A k \in B : k - 1 \in B
  OBVIOUS
<1>3. f \in Injection(B, B)
  BY <1>2 DEF Injection, IsInjective
<1>4. f \in Surjection(B, B)
  BY <1>1, <1>3, FS_Injection
<1>5. n \in B
  OBVIOUS
<1>6. PICK k \in B : f[k] = n
  BY <1>4, <1>5 DEF Surjection
<1>7. k = n + 1
  BY <1>6
<1>8. QED
  BY <1>7

\* A set of numbers that is not empty has a least one.
LEMMA LeastExists ==
  ASSUME NEW S \in SUBSET Nat, S # {}
  PROVE  \E n \in S : \A m \in S : n <= m
<1> SUFFICES ASSUME \A n \in S : \E m \in S : m < n PROVE FALSE
  OBVIOUS
<1> DEFINE A == {n \in Nat : \A m \in S : n <= m}
<1>1. 0 \in A
  OBVIOUS
<1>2. \A n \in Nat : n \in A => n + 1 \in A
  <2> SUFFICES ASSUME NEW n \in Nat, n \in A, NEW m \in S PROVE n + 1 <= m
    OBVIOUS
  <2>1. n \notin S
    OBVIOUS
  <2>2. QED
    BY <2>1
<1> HIDE DEF A
<1>3. Nat \subseteq A
  BY <1>1, <1>2, NatInducts
<1>4. PICK n \in S : TRUE
  OBVIOUS
<1>5. n + 1 \in A
  BY <1>3
<1>6. QED
  BY <1>5 DEF A

\* f has what n applications of g make of b, one after the other.
Iterates(f, g, b, n, D) ==
  f \in [0 .. n -> D] /\ f[0] = b /\ \A k \in 1 .. n : f[k] = g[f[k - 1]]

\* A function can be applied any number of times.
LEMMA IteratesExist ==
  ASSUME NEW D, NEW g \in [D -> D], NEW b \in D, NEW n \in Nat
  PROVE  \E f : Iterates(f, g, b, n, D)
<1> DEFINE P(m) == \E f \in [0 .. m -> D] : f[0] = b /\ \A k \in 1 .. m : f[k] = g[f[k - 1]]
           S == {m \in Nat : P(m)}
<1>1. 0 \in S
  <2> DEFINE f == [k \in 0 .. 0 |-> b]
  <2>1. f \in [0 .. 0 -> D] /\ f[0] = b /\ \A k \in 1 .. 0 : f[k] = g[f[k - 1]]
    OBVIOUS
  <2> HIDE DEF f
  <2>2. P(0)
    BY <2>1
  <2>3. QED
    BY <2>2
<1>2. \A m \in Nat : m \in S => m + 1 \in S
  <2> HIDE DEF P
  <2> SUFFICES ASSUME NEW m \in Nat, P(m) PROVE P(m + 1)
    OBVIOUS
  <2> USE DEF P
  <2>1. PICK f \in [0 .. m -> D] : f[0] = b /\ \A k \in 1 .. m : f[k] = g[f[k - 1]]
    OBVIOUS
  <2> DEFINE h == [k \in 0 .. m + 1 |-> IF k = m + 1 THEN g[f[m]] ELSE f[k]]
  <2>2. h \in [0 .. m + 1 -> D]
    OBVIOUS
  <2>3. h[0] = b
    BY <2>1
  <2>4. ASSUME NEW k \in 1 .. m + 1 PROVE h[k] = g[h[k - 1]]
    <3>1. CASE k = m + 1
      BY <3>1
    <3>2. CASE k \in 1 .. m
      BY <2>1, <3>2
    <3>3. QED
      BY <3>1, <3>2
  <2> HIDE DEF h
  <2>5. QED
    BY <2>2, <2>3, <2>4
<1> HIDE DEF S
<1>3. n \in S
  BY <1>1, <1>2, NatInducts
<1>4. QED
  BY <1>3 DEF S, Iterates

-----------------------------------------------------------------------------
(***************************************************************************)
(* The topological order: each round of topological_order puts a ready     *)
(* node behind the others, and while a node is left one is ready.          *)
(***************************************************************************)

\* What a walk from n visits: less, the further along the edges n is.
ReachedFrom(n) == Reached(edges, {n})

\* The order by priority and id is total, so that a set has a first node in it.
LEMMA FirstIsFirst ==
  ASSUME TypeOK, NEW ready \in SUBSET Nodes, ready # {}
  PROVE  First(ready) \in ready /\ \A m \in ready \ {First(ready)} : Before(First(ready), m)
<1>1. \E n \in ready : \A m \in ready \ {n} : Before(n, m)
  <2> DEFINE sources == {n \in ready : kind[n] = "source"}
             ahead == IF sources = {} THEN ready ELSE sources
  <2>1. ahead \in SUBSET Nat /\ ahead # {}
    BY GraphAssumption
  <2>2. PICK n \in ahead : \A m \in ahead : n <= m
    BY <2>1, LeastExists
  <2>3. \A m \in ready \ {n} : Before(n, m)
    BY <2>1, <2>2, GraphAssumption DEF Before, Priority
  <2>4. QED
    BY <2>2, <2>3
<1>2. QED
  BY <1>1 DEF First

\* Of a set of nodes that is not empty one has no edge from another in it.
LEMMA SomeNodeIsReady ==
  ASSUME TypeOK, Acyclic, NEW M \in SUBSET Nodes, M # {}
  PROVE  \E n \in M : \A e \in edges : e.to = n => e.from \notin M
<1> SUFFICES ASSUME \A n \in M : \E e \in edges : e.to = n /\ e.from \in M PROVE FALSE
  OBVIOUS
<1> DEFINE Size(n) == Cardinality(ReachedFrom(n))
           left == {Cardinality(Nodes) - Size(n) : n \in M}
<1>1. \A n \in Nodes : /\ IsFiniteSet(ReachedFrom(n)) /\ Size(n) \in Nat
                       /\ Cardinality(Nodes) \in Nat /\ Size(n) <= Cardinality(Nodes)
  <2>1. \A n \in Nodes : ReachedFrom(n) \in SUBSET Nodes
    BY DEF ReachedFrom, Reached
  <2>2. IsFiniteSet(Nodes)
    BY GraphAssumption
  <2>3. QED
    BY <2>1, <2>2, FS_Subset, FS_CardinalityType
<1>2. left \in SUBSET Nat /\ left # {}
  BY <1>1
<1>3. PICK n \in M : \A m \in M : Cardinality(Nodes) - Size(n) <= Cardinality(Nodes) - Size(m)
  <2> HIDE DEF left
  <2>1. PICK l \in left : \A k \in left : l <= k
    BY <1>2, LeastExists
  <2>2. QED
    BY <2>1 DEF left
<1>4. PICK e \in edges : e.to = n /\ e.from \in M
  OBVIOUS
<1>5. ReachedFrom(n) \subseteq ReachedFrom(e.from)
  BY <1>4 DEF ReachedFrom, Reached, Closed
<1>6. e.from \in ReachedFrom(e.from) /\ e.from \notin ReachedFrom(n)
  BY <1>4 DEF ReachedFrom, Reached, Acyclic, CanReach
<1>7. Size(n) <= Size(e.from) /\ (Size(e.from) = Size(n) => ReachedFrom(e.from) = ReachedFrom(n))
  BY <1>1, <1>4, <1>5, FS_Subset
<1>8. Size(n) < Size(e.from)
  BY <1>1, <1>4, <1>6, <1>7
<1>9. QED
  BY <1>1, <1>3, <1>4, <1>8

\* The rounds of topological_order, and the nodes that it has put in place.
Count == Cardinality(Present)
Done(p) == {p[i] : i \in DOMAIN p}

\* Ready nodes are nodes in the document that are not done.
LEMMA ReadyIsSet ==
  ASSUME NEW S PROVE ReadyAfter(S) \in SUBSET Nodes /\ ReadyAfter(S) \subseteq Present \ S
BY DEF ReadyAfter, Present

LEMMA CountIsNat == Count \in Nat /\ IsFiniteSet(Present)
<1>1. Present \in SUBSET Nodes /\ IsFiniteSet(Nodes)
  BY GraphAssumption DEF Present
<1>2. QED
  BY <1>1, FS_Subset, FS_CardinalityType DEF Count

\* What topological_order has after k rounds.
LEMMA OrderUnfolds ==
  ASSUME TypeOK
  PROVE  \E f \in [0 .. Count -> Seq(Nodes)] :
           /\ f[0] = <<>> /\ \A k \in 1 .. Count : f[k] = Extended(f[k - 1])
           /\ Order = f[Count]
<1> DEFINE g == [p \in Seq(Nodes) |-> Extended(p)]
<1>1. \A p \in Seq(Nodes) : Extended(p) \in Seq(Nodes)
  <2> SUFFICES ASSUME NEW p \in Seq(Nodes) PROVE Extended(p) \in Seq(Nodes)
    OBVIOUS
  <2> DEFINE ready == ReadyAfter({p[i] : i \in DOMAIN p})
  <2>1. ready # {} => First(ready) \in Nodes
    BY ReadyIsSet, FirstIsFirst
  <2> HIDE DEF ready
  <2>2. ready # {} => Append(p, First(ready)) \in Seq(Nodes)
    BY <2>1
  <2>3. QED
    BY <2>2 DEF Extended, ready
<1>2. g \in [Seq(Nodes) -> Seq(Nodes)]
  BY <1>1
<1>3. <<>> \in Seq(Nodes)
  OBVIOUS
<1> HIDE DEF g
<1>c. Count \in Nat
  BY CountIsNat
<1>4. PICK f \in [0 .. Count -> Seq(Nodes)] :
         f[0] = <<>> /\ \A k \in 1 .. Count : f[k] = g[f[k - 1]]
  <2> DEFINE D == Seq(Nodes)
         b == <<>>
         n == Count
  <2>1. g \in [D -> D] /\ b \in D /\ n \in Nat
    BY <1>c, <1>2, <1>3
  <2> HIDE DEF D, b, n
  <2>2. \E f : Iterates(f, g, b, n, D)
    BY <2>1, IteratesExist
  <2>3. QED
    BY <2>2 DEF Iterates, D, b, n
<1>5. ASSUME NEW k \in 1 .. Count PROVE f[k] = Extended(f[k - 1])
  <2>1. f[k - 1] \in Seq(Nodes)
    BY <1>c
  <2>2. g[f[k - 1]] = Extended(f[k - 1])
    BY <2>1 DEF g
  <2>3. QED
    BY <1>4, <2>2
<1> DEFINE IsPrefix(h) ==
      h = [k \in 0 .. Count |-> IF k = 0 THEN <<>> ELSE Extended(h[k - 1])]
<1>6. IsPrefix(f)
  BY <1>4, <1>5, CountIsNat
<1> DEFINE prefix == CHOOSE h : IsPrefix(h)
<1>7. IsPrefix(prefix)
  BY <1>6
<1>8. Order = prefix[Count]
  BY DEF Order, Count
<1>9. prefix \in [0 .. Count -> Seq(Nodes)]
  <2> HIDE DEF prefix
  <2> DEFINE S == {k \in Nat : k <= Count => prefix[k] \in Seq(Nodes)}
  <2>1. 0 \in S
    BY <1>7, CountIsNat
  <2>2. \A k \in Nat : k \in S => k + 1 \in S
    <3> SUFFICES ASSUME NEW k \in Nat, k \in S, k + 1 <= Count
                 PROVE  prefix[k + 1] \in Seq(Nodes)
      OBVIOUS
    <3>1. prefix[k] \in Seq(Nodes)
      BY <1>c
    <3>2. prefix[k + 1] = Extended(prefix[k])
      BY <1>7, <1>c
    <3>3. QED
      BY <1>1, <3>1, <3>2
  <2> HIDE DEF S
  <2>3. Nat \subseteq S
    BY <2>1, <2>2, NatInducts
  <2>4. \A k \in 0 .. Count : prefix[k] \in Seq(Nodes)
    BY <2>3, CountIsNat DEF S
  <2>5. QED
    BY <1>7, <2>4
<1>10. prefix[0] = <<>> /\ \A k \in 1 .. Count : prefix[k] = Extended(prefix[k - 1])
  <2> HIDE DEF prefix
  <2>1. QED
    BY <1>7, CountIsNat
<1> HIDE DEF prefix
<1>11. QED
  BY <1>8, <1>9, <1>10

\* p has nodes once, each behind all that feed it, and processors behind all sources.
Sorted(p) ==
  /\ p \in Seq(Nodes) /\ Done(p) \subseteq Present
  /\ \A i, j \in DOMAIN p : p[i] = p[j] => i = j
  /\ \A i \in DOMAIN p : \A e \in Incoming(p[i]) : \E j \in DOMAIN p : j < i /\ p[j] = e.from
  /\ \A i \in DOMAIN p : kind[p[i]] # "source" =>
       \A s \in Present : kind[s] = "source" => \E j \in DOMAIN p : j < i /\ p[j] = s

\* It has as many places as nodes.
LEMMA SortedSize ==
  ASSUME NEW p, Sorted(p)
  PROVE  IsFiniteSet(Done(p)) /\ Cardinality(Done(p)) = Len(p) /\ Len(p) \in Nat
<1>1. p \in [1 .. Len(p) -> Done(p)] /\ Len(p) \in Nat /\ DOMAIN p = 1 .. Len(p)
  BY DEF Sorted, Done
<1>2. p \in Bijection(1 .. Len(p), Done(p))
  BY <1>1 DEF Sorted, Done, Bijection, Injection, Surjection, IsInjective
<1>3. ExistsBijection(1 .. Len(p), Done(p))
  BY <1>2 DEF ExistsBijection
<1>4. IsFiniteSet(Done(p))
  BY <1>1, <1>3, FS_NatBijection
<1>5. QED
  BY <1>1, <1>3, <1>4, FS_CountingElements

\* A round puts one more node in place.
LEMMA ExtendedSorts ==
  ASSUME TypeOK, WellRouted, NEW p, Sorted(p), ReadyAfter(Done(p)) # {}
  PROVE  /\ Sorted(Extended(p)) /\ Len(Extended(p)) = Len(p) + 1
<1> DEFINE ready == ReadyAfter(Done(p))
           n == First(ready)
           q == Append(p, n)
<1>1. Extended(p) = q
  BY DEF Extended, Done
<1>2. /\ n \in ready /\ \A m \in ready \ {n} : Before(n, m)
      /\ n \in Nodes /\ n \in Present /\ n \notin Done(p)
  BY ReadyIsSet, FirstIsFirst
<1>3. \A e \in Incoming(n) : e.from \in Done(p)
  BY <1>2 DEF ReadyAfter
<1>4. kind[n] # "source" => \A s \in Present : kind[s] = "source" => s \in Done(p)
  <2> SUFFICES ASSUME kind[n] # "source", NEW s \in Present, kind[s] = "source", s \notin Done(p)
               PROVE  FALSE
    OBVIOUS
  <2>1. Incoming(s) = {}
    BY DEF Incoming, WellRouted
  <2>2. s \in ready
    BY <2>1 DEF ReadyAfter
  <2>3. Before(n, s)
    BY <1>2, <2>2
  <2>4. QED
    BY <2>3 DEF Before, Priority
<1> HIDE DEF n, ready
<1>5. /\ p \in Seq(Nodes) /\ Len(p) \in Nat /\ DOMAIN p = 1 .. Len(p)
      /\ q \in Seq(Nodes) /\ Len(q) = Len(p) + 1 /\ DOMAIN q = 1 .. Len(p) + 1
      /\ \A i \in 1 .. Len(p) : q[i] = p[i]
      /\ q[Len(p) + 1] = n
  BY <1>2 DEF Sorted
<1> HIDE DEF q
<1>6. Done(q) = Done(p) \cup {n}
  BY <1>5 DEF Done
<1>7. Done(q) \subseteq Present
  BY <1>2, <1>6 DEF Sorted
<1>8. ASSUME NEW i \in DOMAIN q, NEW j \in DOMAIN q, q[i] = q[j] PROVE i = j
  BY <1>2, <1>5, <1>8 DEF Sorted, Done
<1>9. ASSUME NEW i \in DOMAIN q, NEW e \in Incoming(q[i])
      PROVE  \E j \in DOMAIN q : j < i /\ q[j] = e.from
  <2>1. CASE i \in DOMAIN p
    <3>1. PICK j \in DOMAIN p : j < i /\ p[j] = e.from
      BY <1>5, <1>9, <2>1 DEF Sorted
    <3>2. QED
      BY <1>5, <3>1
  <2>2. CASE i = Len(p) + 1
    <3>1. PICK j \in DOMAIN p : p[j] = e.from
      BY <1>3, <1>5, <1>9, <2>2 DEF Done
    <3>2. QED
      BY <1>5, <2>2, <3>1
  <2>3. QED
    BY <1>5, <2>1, <2>2
<1>10. ASSUME NEW i \in DOMAIN q, kind[q[i]] # "source", NEW s \in Present, kind[s] = "source"
       PROVE  \E j \in DOMAIN q : j < i /\ q[j] = s
  <2>1. CASE i \in DOMAIN p
    <3>1. PICK j \in DOMAIN p : j < i /\ p[j] = s
      BY <1>5, <1>10, <2>1 DEF Sorted
    <3>2. QED
      BY <1>5, <3>1
  <2>2. CASE i = Len(p) + 1
    <3>1. PICK j \in DOMAIN p : p[j] = s
      BY <1>4, <1>5, <1>10, <2>2 DEF Done
    <3>2. QED
      BY <1>5, <2>2, <3>1
  <2>3. QED
    BY <1>5, <2>1, <2>2
<1>11. QED
  BY <1>1, <1>5, <1>7, <1>8, <1>9, <1>10 DEF Sorted

\* No round is in vain before all nodes are in place.
LEMMA RoundsGoOn ==
  ASSUME TypeOK, WellRouted, Acyclic, NEW p, Sorted(p), Len(p) < Count
  PROVE  ReadyAfter(Done(p)) # {}
<1>1. Done(p) # Present
  BY SortedSize DEF Count
<1>2. Present \ Done(p) \in SUBSET Nodes /\ Present \ Done(p) # {}
  BY <1>1 DEF Sorted, Present
<1>3. PICK n \in Present \ Done(p) : \A e \in edges : e.to = n => e.from \notin Present \ Done(p)
  BY <1>2, SomeNodeIsReady
<1>4. \A e \in Incoming(n) : e.from \in Done(p)
  BY <1>3 DEF Incoming
<1>5. n \in ReadyAfter(Done(p))
  BY <1>4 DEF ReadyAfter
<1>6. QED
  BY <1>5

\* So the rounds end with all of them in place.
LEMMA OrderIsSorted ==
  ASSUME TypeOK, WellRouted, Acyclic
  PROVE  Sorted(Order) /\ Len(Order) = Count /\ Done(Order) = Present
<1>0. Count \in Nat /\ IsFiniteSet(Present)
  BY CountIsNat
<1>1. PICK f : /\ f \in [0 .. Count -> Seq(Nodes)] /\ f[0] = <<>>
               /\ \A k \in 1 .. Count : f[k] = Extended(f[k - 1])
               /\ Order = f[Count]
  BY OrderUnfolds
<1> DEFINE S == {k \in Nat : k <= Count => Sorted(f[k]) /\ Len(f[k]) = k}
<1>2. 0 \in S
  BY <1>1 DEF Sorted, Done
<1>3. \A k \in Nat : k \in S => k + 1 \in S
  <2> SUFFICES ASSUME NEW k \in Nat, k \in S, k + 1 <= Count
               PROVE  Sorted(f[k + 1]) /\ Len(f[k + 1]) = k + 1
    OBVIOUS
  <2>1. Sorted(f[k]) /\ Len(f[k]) = k /\ k < Count
    BY <1>0
  <2>2. f[k + 1] = Extended(f[k])
    <3>1. k + 1 \in 1 .. Count /\ (k + 1) - 1 = k
      BY <1>0
    <3>2. QED
      BY <1>1, <3>1
  <2>3. QED
    BY <2>1, <2>2, RoundsGoOn, ExtendedSorts
<1> HIDE DEF S
<1>4. Nat \subseteq S
  BY <1>2, <1>3, NatInducts
<1>5. Count \in S
  BY <1>0, <1>4
<1>6. Sorted(Order) /\ Len(Order) = Count
  BY <1>0, <1>1, <1>5 DEF S
<1>7. Done(Order) = Present
  <2>1. Done(Order) \in SUBSET Present /\ Cardinality(Done(Order)) = Cardinality(Present)
    BY <1>6, SortedSize DEF Sorted, Count
  <2>2. QED
    BY <1>0, <2>1, FS_Subset
<1>8. QED
  BY <1>6, <1>7

\* The sort succeeds on every graph that edits can make, edges go forward in it, and
\* sources are ahead of all other nodes.
THEOREM GraphOrderIsTopological == Spec => []OrderIsTopological
<1>1. IndInv => OrderIsTopological
  <2> SUFFICES ASSUME IndInv PROVE OrderIsTopological
    OBVIOUS
  <2>1. TypeOK /\ WellRouted /\ Acyclic
    BY DEF IndInv
  <2>2. Sorted(Order) /\ Len(Order) = Count /\ Done(Order) = Present
    BY <2>1, OrderIsSorted
  <2> DEFINE order == Order
  <2> HIDE DEF order
  <2>3. Sorted(order) /\ Len(order) = Count /\ Done(order) = Present
    BY <2>2 DEF order
  <2>4. order \in Seq(Nodes) /\ Len(order) \in Nat /\ DOMAIN order = 1 .. Len(order)
    BY <2>3 DEF Sorted
  <2>5. ASSUME NEW e \in edges
        PROVE  \E i, j \in DOMAIN order : i < j /\ order[i] = e.from /\ order[j] = e.to
    <3>1. e.from \in Present /\ e.to \in Present
      BY <2>1 DEF WellRouted, TypeOK, Edges, Present
    <3>2. PICK j \in DOMAIN order : order[j] = e.to
      BY <2>3, <3>1 DEF Done
    <3>3. e \in Incoming(order[j])
      BY <3>1, <3>2 DEF Incoming
    <3>4. PICK i \in DOMAIN order : i < j /\ order[i] = e.from
      BY <2>3, <3>3 DEF Sorted
    <3>5. QED
      BY <3>2, <3>4
  <2>6. ASSUME NEW i \in DOMAIN order, NEW j \in DOMAIN order, i < j, kind[order[j]] = "source"
        PROVE  kind[order[i]] = "source"
    <3> SUFFICES ASSUME kind[order[i]] # "source" PROVE FALSE
      OBVIOUS
    <3>1. order[j] \in Present
      BY <2>3 DEF Done
    <3>2. PICK k \in DOMAIN order : k < i /\ order[k] = order[j]
      BY <2>3, <2>6, <3>1 DEF Sorted
    <3>3. k = j
      BY <2>3, <3>2 DEF Sorted
    <3>4. QED
      BY <2>4, <2>6, <3>2, <3>3
  <2>7. QED
    BY <2>3, <2>5, <2>6 DEF OrderIsTopological, Done, Count, order
<1>2. QED
  BY <1>1, GraphInvariant, PTL

-----------------------------------------------------------------------------
(***************************************************************************)
(* The render: in the order, the block of a node carries what the report   *)
(* of the mixer routes to the node.                                        *)
(***************************************************************************)

\* The edges that no excluded node is at.
Open == {e \in edges : {e.from, e.to} \cap Excluded = {}}

\* The sources that the report routes to node n.
Heard(n) ==
  IF n \in Excluded THEN {} ELSE {s \in Present : kind[s] = "source" /\ Routed(s, n)}

\* A walk comes to another node along an edge from one it has been to.
LEMMA LastStep ==
  ASSUME NEW E \in SUBSET Edges, NEW s \in Nodes, NEW n \in Nodes, s # n
  PROVE  n \in Reached(E, {s}) <=> \E e \in E : e.to = n /\ e.from \in Reached(E, {s})
<1>1. ASSUME NEW e \in E, e.to = n, e.from \in Reached(E, {s}) PROVE n \in Reached(E, {s})
  BY <1>1 DEF Reached, Closed
<1>2. ASSUME \A e \in E : e.to = n => e.from \notin Reached(E, {s})
      PROVE  n \notin Reached(E, {s})
  <2> DEFINE T == Reached(E, {s}) \ {n}
  <2>1. T \in SUBSET Nodes /\ s \in T /\ n \notin T
    BY DEF Reached
  <2>2. \A e \in E : e.to \in Nodes
    BY DEF Edges
  <2>3. Closed(E, T)
    BY <1>2, <2>2 DEF Reached, Closed
  <2> HIDE DEF T
  <2>4. QED
    BY <2>1, <2>3, Missed
<1>3. QED
  BY <1>1, <1>2

\* Nothing feeds a source.
LEMMA HeardInSource ==
  ASSUME TypeOK, WellRouted, NEW n \in Present, kind[n] = "source", n \notin Excluded
  PROVE  Heard(n) = {n}
<1>1. n \in Nodes /\ Open \in SUBSET Edges /\ \A e \in Open : e.to # n
  BY DEF Present, Open, TypeOK, WellRouted
<1>2. ASSUME NEW s \in Present, s # n PROVE n \notin Reached(Open, {s})
  <2>1. s \in Nodes
    BY DEF Present
  <2>2. n \in Reached(Open, {s}) <=> \E e \in Open : e.to = n /\ e.from \in Reached(Open, {s})
    BY <1>1, <1>2, <2>1, LastStep
  <2>3. QED
    BY <1>1, <2>2
<1>3. n \in Reached(Open, {n})
  BY <1>1 DEF Reached
<1>4. QED
  BY <1>2, <1>3 DEF Heard, Routed, Open

\* What is routed to another node is routed to one that feeds it.
LEMMA HeardInMix ==
  ASSUME TypeOK, WellRouted, NEW n \in Present, kind[n] # "source", n \notin Excluded
  PROVE  Heard(n) = UNION {Heard(e.from) : e \in {e \in edges : e.to = n}}
<1>1. n \in Nodes /\ Open \in SUBSET Edges
  BY DEF Present, Open, TypeOK
<1>2. ASSUME NEW s \in Heard(n)
      PROVE  \E e \in edges : e.to = n /\ s \in Heard(e.from)
  <2>1. s \in Present /\ kind[s] = "source" /\ s \notin Excluded /\ n \in Reached(Open, {s})
    BY DEF Heard, Routed, Open
  <2>2. s # n /\ s \in Nodes
    BY <2>1 DEF Present
  <2>3. PICK e \in Open : e.to = n /\ e.from \in Reached(Open, {s})
    BY <1>1, <2>1, <2>2, LastStep
  <2>4. e \in edges /\ e.from \notin Excluded
    BY <2>3 DEF Open
  <2>5. QED
    BY <2>1, <2>3, <2>4 DEF Heard, Routed, Open
<1>3. ASSUME NEW e \in edges, e.to = n, NEW s \in Heard(e.from) PROVE s \in Heard(n)
  <2>1. /\ s \in Present /\ kind[s] = "source" /\ s \notin Excluded
        /\ e.from \in Reached(Open, {s}) /\ e.from \notin Excluded
    BY DEF Heard, Routed, Open
  <2>2. e \in Open
    BY <1>3, <2>1 DEF Open
  <2>3. n \in Reached(Open, {s})
    BY <1>1, <1>3, <2>1, <2>2 DEF Reached, Closed
  <2>4. QED
    BY <2>1, <2>3 DEF Heard, Routed, Open
<1>4. QED
  BY <1>2, <1>3

\* What an excluded node would have to reach it is not routed to it either.
LEMMA ExcludedIsUnrouted ==
  ASSUME TypeOK, NEW n \in Present, n \in Excluded, kind[n] # "source",
         NEW s \in Present, kind[s] = "source"
  PROVE  ~Routed(s, n)
<1>1. n \in Nodes /\ s \in Nodes /\ s # n /\ Open \in SUBSET Edges
  BY DEF Present, Open, TypeOK
<1>2. \A e \in Open : e.to # n
  BY DEF Open
<1>3. n \notin Reached(Open, {s})
  <2>1. n \in Reached(Open, {s}) <=> \E e \in Open : e.to = n /\ e.from \in Reached(Open, {s})
    BY <1>1, LastStep
  <2>2. QED
    BY <1>2, <2>1
<1>4. QED
  BY <1>3 DEF Routed, Open

\* In the order, the blocks ahead of a node are those that are mixed into it.
LEMMA BlockIsHeard ==
  ASSUME TypeOK, WellRouted, NEW order, Sorted(order), Done(order) = Present,
         NEW k \in 1 .. Len(order)
  PROVE  Block(order, [i \in 1 .. k - 1 |-> Heard(order[i])], order[k]) = Heard(order[k])
<1> DEFINE n == order[k]
           ahead == [i \in 1 .. k - 1 |-> Heard(order[i])]
<1>1. order \in Seq(Nodes) /\ Len(order) \in Nat /\ DOMAIN order = 1 .. Len(order)
  BY DEF Sorted
<1>2. n \in Present
  BY <1>1 DEF Done
<1>3. CASE n \in Excluded
  BY <1>3 DEF Block, Heard
<1>4. CASE n \notin Excluded /\ kind[n] = "source"
  BY <1>2, <1>4, HeardInSource DEF Block
<1>5. CASE n \notin Excluded /\ kind[n] # "source"
  <2>1. Heard(n) = UNION {Heard(e.from) : e \in {e \in edges : e.to = n}}
    BY <1>2, <1>5, HeardInMix
  <2>2. ASSUME NEW e \in edges, e.to = n
        PROVE  \E j \in 1 .. k - 1 : order[j] = e.from
    <3>1. e \in Incoming(n)
      BY <2>2 DEF Incoming, WellRouted, TypeOK, Edges, Present
    <3>2. PICK j \in DOMAIN order : j < k /\ order[j] = e.from
      BY <1>1, <3>1 DEF Sorted
    <3>3. QED
      BY <1>1, <3>2
  <2>3. Mixed(order, ahead, n) = Heard(n)
    <3>1. DOMAIN ahead = 1 .. k - 1 /\ \A j \in 1 .. k - 1 : ahead[j] = Heard(order[j])
      OBVIOUS
    <3> HIDE DEF ahead, n
    <3>2. ASSUME NEW s \in Heard(n) PROVE s \in Mixed(order, ahead, n)
      <4>1. PICK e \in edges : e.to = n /\ s \in Heard(e.from)
        BY <2>1
      <4>2. PICK j \in 1 .. k - 1 : order[j] = e.from
        BY <2>2, <4>1
      <4>3. QED
        BY <3>1, <4>1, <4>2 DEF Mixed
    <3>3. ASSUME NEW s \in Mixed(order, ahead, n) PROVE s \in Heard(n)
      <4>1. PICK j \in 1 .. k - 1 : s \in Heard(order[j])
                                    /\ \E e \in edges : e.to = n /\ e.from = order[j]
        BY <3>1 DEF Mixed
      <4>2. QED
        BY <2>1, <4>1
    <3>4. QED
      BY <3>2, <3>3
  <2>4. QED
    BY <1>5, <2>3 DEF Block
<1>6. QED
  BY <1>3, <1>4, <1>5

\* So a render computes for each node what the report routes to it.
LEMMA RenderedIsHeard ==
  ASSUME TypeOK, WellRouted, Acyclic, NEW n \in Present
  PROVE  Rendered[n] = Heard(n)
<1> DEFINE order == Order
           IsBlocks(h) == h = [k \in 0 .. Len(order) |->
                                 IF k = 0 THEN <<>>
                                 ELSE Append(h[k - 1], Block(order, h[k - 1], order[k]))]
           UpTo(k) == [i \in 1 .. k |-> Heard(order[i])]
           blocks == CHOOSE h : IsBlocks(h)
           all == blocks[Len(order)]
<1>1. Rendered = [m \in Present |-> UNION {all[i] : i \in {i \in DOMAIN order : order[i] = m}}]
  BY DEF Rendered
<1>2. Sorted(order) /\ Done(order) = Present
  BY OrderIsSorted
<1> HIDE DEF order
<1>3. order \in Seq(Nodes) /\ Len(order) \in Nat /\ DOMAIN order = 1 .. Len(order)
  BY <1>2 DEF Sorted
<1>4. ASSUME NEW k \in 1 .. Len(order)
      PROVE  Append(UpTo(k - 1), Block(order, UpTo(k - 1), order[k])) = UpTo(k)
  <2>1. Block(order, UpTo(k - 1), order[k]) = Heard(order[k])
    BY <1>2, BlockIsHeard
  <2>2. Append(UpTo(k - 1), Heard(order[k])) = UpTo(k)
    OBVIOUS
  <2>3. QED
    BY <2>1, <2>2
<1>5. UpTo(0) = <<>>
  OBVIOUS
<1>6. IsBlocks([k \in 0 .. Len(order) |-> UpTo(k)])
  <2> HIDE DEF UpTo
  <2>1. QED
    BY <1>3, <1>4, <1>5
<1>7. IsBlocks(blocks)
  <2> HIDE DEF IsBlocks
  <2>1. QED
    BY <1>6
<1> HIDE DEF blocks
<1>a. blocks[0] = <<>>
  BY <1>3, <1>7
<1>b. ASSUME NEW k \in 1 .. Len(order)
      PROVE  blocks[k] = Append(blocks[k - 1], Block(order, blocks[k - 1], order[k]))
  <2>1. k \in 0 .. Len(order) /\ k # 0
    BY <1>3
  <2>2. QED
    BY <1>7, <2>1
<1> HIDE DEF IsBlocks
<1>8. blocks[Len(order)] = UpTo(Len(order))
  <2> HIDE DEF UpTo
  <2> DEFINE S == {k \in Nat : k <= Len(order) => blocks[k] = UpTo(k)}
  <2>1. 0 \in S
    BY <1>5, <1>a
  <2>2. \A k \in Nat : k \in S => k + 1 \in S
    <3> SUFFICES ASSUME NEW k \in Nat, k \in S, k + 1 <= Len(order)
                 PROVE  blocks[k + 1] = UpTo(k + 1)
      OBVIOUS
    <3>1. blocks[k] = UpTo(k) /\ k + 1 \in 1 .. Len(order) /\ (k + 1) - 1 = k
      BY <1>3
    <3>2. blocks[k + 1] = Append(blocks[k], Block(order, blocks[k], order[k + 1]))
      BY <1>b, <3>1
    <3>3. QED
      BY <1>4, <3>1, <3>2
  <2> HIDE DEF S
  <2>3. Nat \subseteq S
    BY <2>1, <2>2, NatInducts
  <2>4. QED
    BY <1>3, <2>3 DEF S
<1>9. \A i \in DOMAIN order : all[i] = Heard(order[i])
  BY <1>3, <1>8
<1> HIDE DEF all
<1>10. PICK i \in DOMAIN order : order[i] = n
  BY <1>2 DEF Done
<1>11. {all[j] : j \in {j \in DOMAIN order : order[j] = n}} = {Heard(n)}
  BY <1>9, <1>10
<1>12. QED
  BY <1>1, <1>11

\* The report of the mixer and the rendered sound agree on every graph that edits can
\* make, with any nodes muted and soloed.
THEOREM GraphReportMatchesRender == Spec => []ReportMatchesRender
<1>1. IndInv => ReportMatchesRender
  <2> SUFFICES ASSUME IndInv, NEW out \in Present, kind[out] = "output"
               PROVE  Rendered[out] = {s \in Present : kind[s] = "source" /\ Routed(s, out)}
    BY DEF ReportMatchesRender
  <2>1. TypeOK /\ WellRouted /\ Acyclic
    BY DEF IndInv
  <2>2. Rendered[out] = Heard(out)
    BY <2>1, RenderedIsHeard
  <2>3. QED
    BY <2>1, <2>2, ExcludedIsUnrouted DEF Heard
<1>2. QED
  BY <1>1, GraphInvariant, PTL
=============================================================================
