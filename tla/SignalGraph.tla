---------------------------- MODULE SignalGraph ----------------------------
(***************************************************************************)
(* The signal graph of a project: the mutators of native/src/graph/        *)
(* graph.cpp behind sf_graph_* and the command queue, and what routing.cpp *)
(* and render_plan.cpp make of the graph they leave: the topological       *)
(* order, the set of nodes a solo leaves active, the routes of the mixer   *)
(* report and the signals a render plan carries.                           *)
(*                                                                         *)
(* Gains, pans, names and presets are left out: a mutator that refuses     *)
(* their value makes no step.  An edge is known by its ends and its ports, *)
(* which no two edges share.                                               *)
(***************************************************************************)
EXTENDS Naturals, Sequences, FiniteSets, Reachability

CONSTANTS
  Kinds,      \* the kinds of node in use
  Ports,      \* any: a queued command's are not looked at, they tell edges apart
  MaxEdges,   \* bound of the model: edges of a graph
  MaxSoloed,  \* bound of the model: nodes soloed at a time
  MaxMuted    \* bound of the model: nodes muted at a time

\* Node ids are ordered as the strings they stand for.
ASSUME GraphAssumption ==
  /\ Nodes \subseteq Nat /\ IsFiniteSet(Nodes)
  /\ Kinds \subseteq {"source", "processor", "output", "bus"}
  /\ MaxEdges \in Nat /\ MaxSoloed \in Nat /\ MaxMuted \in Nat

Absent == "absent"
Edges == [from : Nodes, to : Nodes, fromPort : Ports, toPort : Ports]

VARIABLES
  kind,    \* SignalNode::kind by id, Absent for an id not in the document
  edges,   \* SignalGraphDoc::edges
  muted, soloed   \* ids of the nodes whose mixer has the flag

vars == <<kind, edges, muted, soloed>>

Init ==
  /\ kind = [n \in Nodes |-> Absent]
  /\ edges = {} /\ muted = {} /\ soloed = {}

Present == {n \in Nodes : kind[n] # Absent}

CanReach(from, to) == to \in Reached(edges, {from})

(***************************************************************************)
(* The mutators.                                                           *)
(***************************************************************************)

\* Mutant: any number is a kind.
AddNodeUnvalidated(n, k) ==
  /\ kind[n] = Absent
  /\ kind' = [kind EXCEPT ![n] = k]
  /\ UNCHANGED <<edges, muted, soloed>>

\* Under a fresh id; a kind out of range is refused.
AddNode(n, k) ==
  /\ k \in Kinds
  /\ kind[n] = Absent
  /\ kind' = [kind EXCEPT ![n] = k]
  /\ UNCHANGED <<edges, muted, soloed>>

\* Mutant: only the edges that leave the node go with it.
RemoveNodeOutgoing(n) ==
  /\ n \in Present
  /\ kind' = [kind EXCEPT ![n] = Absent]
  /\ edges' = {e \in edges : e.from # n}
  /\ muted' = muted \ {n} /\ soloed' = soloed \ {n}

\* The edges of the node go with it, and so does its mixer.
RemoveNode(n) ==
  /\ n \in Present
  /\ kind' = [kind EXCEPT ![n] = Absent]
  /\ edges' = {e \in edges : e.from # n /\ e.to # n}
  /\ muted' = muted \ {n} /\ soloed' = soloed \ {n}

\* Mutant: the walk starts at the wrong end of the new edge.
ClosesCycleForward(e) == CanReach(e.from, e.to)

ClosesCycle(e) == CanReach(e.to, e.from)

\* sf_graph_add_edge: every rule of add_edge_impl, in its order.
AddEdge(e) ==
  /\ e.from \in Present /\ e.to \in Present
  /\ e.from # e.to
  /\ e \notin edges
  /\ kind[e.to] # "source" /\ kind[e.from] # "output"
  /\ ~ClosesCycle(e)
  /\ Cardinality(edges) < MaxEdges
  /\ edges' = edges \cup {e}
  /\ UNCHANGED <<kind, muted, soloed>>

RemoveEdge(e) ==
  /\ e \in edges
  /\ edges' = edges \ {e}
  /\ UNCHANGED <<kind, muted, soloed>>

Flag(S, n, on) == IF on THEN S \cup {n} ELSE S \ {n}

SetMixer(n, mute, solo) ==
  /\ n \in Present
  /\ muted' = Flag(muted, n, mute) /\ Cardinality(muted') <= MaxMuted
  /\ soloed' = Flag(soloed, n, solo) /\ Cardinality(soloed') <= MaxSoloed
  /\ UNCHANGED <<kind, edges>>

Next ==
  \/ \E n \in Nodes :
        \/ \E k \in Kinds \cup {"invalid"} : AddNode(n, k)
        \/ RemoveNode(n)
        \/ \E mute, solo \in BOOLEAN : SetMixer(n, mute, solo)
  \/ \E e \in Edges : AddEdge(e) \/ RemoveEdge(e)

Spec == Init /\ [][Next]_vars

(***************************************************************************)
(* What routing.cpp and render_plan.cpp compute from the graph.            *)
(***************************************************************************)

Incoming(n) == {e \in edges : e.to = n /\ e.from \in Present}
Priority(n) == IF kind[n] = "source" THEN 0 ELSE 1
Before(m, n) == Priority(m) < Priority(n) \/ (Priority(m) = Priority(n) /\ m < n)

\* Mutant: a node is ready with its first edge.
ReadyEarly(done) ==
  {n \in Present \ done :
     Incoming(n) = {} \/ \E e \in Incoming(n) : e.from \in done}

\* Nodes whose in-degree has come down to 0.
ReadyAfter(done) ==
  {n \in Present \ done : \A e \in Incoming(n) : e.from \in done}

First(ready) == CHOOSE n \in ready : \A m \in ready \ {n} : Before(n, m)

\* The first ready node, by priority and id, is put behind those that are done.
Extended(done) ==
  LET ready == ReadyAfter({done[i] : i \in DOMAIN done})
  IN  IF ready = {} THEN done ELSE Append(done, First(ready))

\* topological_order: that again and again, until there is none.
Order ==
  LET prefix[k \in 0 .. Cardinality(Present)] ==
        IF k = 0 THEN <<>> ELSE Extended(prefix[k - 1])
  IN  prefix[Cardinality(Present)]

Reversed(E) == {[e EXCEPT !.from = e.to, !.to = e.from] : e \in E}
Downstream == Reached(edges, soloed)

\* Mutant: the second walk starts from everything the first one found.
UpstreamOfActive == Reached(Reversed(edges), Downstream)

\* The walk up from the soloed nodes passes over what the walk down has seen.
Upstream ==
  Reached({e \in Reversed(edges) : e.to \notin Downstream}, soloed)

Active == Downstream \cup Upstream
Excluded == muted \cup (IF soloed = {} THEN {} ELSE Present \ Active)

\* evaluate_mixer: a route for each source with a path to the output on which no
\* node is excluded.
Routed(source, out) ==
  LET open == {e \in edges : {e.from, e.to} \cap Excluded = {}}
  IN  source \notin Excluded /\ out \in Reached(open, {source})

Mixed(order, blocks, n) ==
  UNION {blocks[j] : j \in {j \in DOMAIN blocks : \E e \in edges :
                                e.to = n /\ e.from = order[j]}}

\* Mutant: an excluded node passes its inputs on.
BlockUnexcluded(order, blocks, n) ==
  IF kind[n] = "source" THEN {n} \ Excluded ELSE Mixed(order, blocks, n)

\* render_chain_planned: the sources in the block of node n, mixed from the blocks
\* of the nodes ahead of it.
Block(order, blocks, n) ==
  IF n \in Excluded THEN {}
  ELSE IF kind[n] = "source" THEN {n} ELSE Mixed(order, blocks, n)

\* The sources that each node's block carries at the end of a render.
Rendered ==
  LET order == Order
      blocks[k \in 0 .. Len(order)] ==
        IF k = 0 THEN <<>>
        ELSE LET ahead == blocks[k - 1]
             IN  Append(ahead, Block(order, ahead, order[k]))
      all == blocks[Len(order)]
  IN  [n \in Present |-> UNION {all[i] : i \in {i \in DOMAIN order : order[i] = n}}]

-----------------------------------------------------------------------------
(***************************************************************************)
(* Properties.                                                             *)
(***************************************************************************)

\* Every variable has a value its C++ counterpart can have.
TypeOK ==
  /\ kind \in [Nodes -> Kinds \cup {Absent}]
  /\ edges \subseteq Edges
  /\ muted \subseteq Nodes /\ soloed \subseteq Nodes

\* The routing rules outlive every sequence of edits, ids that come back included:
\* no edge dangles, none leads into a source or out of an output, and no mixer
\* flag is left of a node that is gone.
WellRouted ==
  /\ \A e \in edges :
        /\ kind[e.from] \notin {Absent, "output"}
        /\ kind[e.to] \notin {Absent, "source"}
  /\ muted \cup soloed \subseteq Present

\* No sequence of edits closes a cycle: no edge starts at a node that its own end
\* leads back to.
Acyclic == \A e \in edges : ~CanReach(e.to, e.from)

\* So the sort always succeeds: it has every node once, the sources ahead, and each
\* edge leads forward in it.
OrderIsTopological ==
  LET order == Order
      places == DOMAIN order
  IN  /\ Len(order) = Cardinality(Present)
      /\ {order[i] : i \in places} = Present
      /\ \A e \in edges : \E i, j \in places :
            i < j /\ order[i] = e.from /\ order[j] = e.to
      /\ \A i, j \in places :
            i < j /\ kind[order[j]] = "source" => kind[order[i]] = "source"

\* The report of the mixer and the rendered sound agree on which sources are heard
\* at an output: a search of paths in one, a pass along the order in the other.
ReportMatchesRender ==
  LET rendered == Rendered
  IN  \A out \in {n \in Present : kind[n] = "output"} :
        rendered[out] = {s \in Present : kind[s] = "source" /\ Routed(s, out)}

AllUpstream == Reached(Reversed(edges), soloed)

\* A solo of one node leaves the whole of its paths and nothing else: all it feeds
\* and all that feeds it, but no sibling that feeds the same output.
SoloKeepsItsPaths ==
  Cardinality(soloed) = 1 => Active = Downstream \cup AllUpstream

\* The same for any number of soloed nodes: "active = soloed U transitive downstream
\* U transitive upstream", and "reusing `seen` across both walks cannot hide a
\* contributor" (routing.cpp:114-116, 166).
SoloKeepsEveryPath == soloed # {} => Active = Downstream \cup AllUpstream
=============================================================================
