------------------------- MODULE MCProjectDocument -------------------------
(***************************************************************************)
(* An instance of ProjectDocument for TLC: the texts that come in are a    *)
(* sound one of each version with one part broken, in each form it can     *)
(* have, the oldest also with any of its keys missing, and sound ones of   *)
(* other bodies.                                                           *)
(***************************************************************************)
EXTENDS ProjectDocument

\* No cfg can name a negative number.
NotANumber == -99
SomeLengths == {0, 3, NotANumber}

Wire(from, to) == [from |-> from, to |-> to, fromPort |-> 0, toPort |-> 0]

Plain ==
  [kind |-> (1 :> "source") @@ (2 :> "output"), edges |-> <<Wire(1, 2)>>,
   muted |-> {1}, soloed |-> {}, ref |-> (1 :> NoRef) @@ (2 :> "preset"),
   presets |-> {"preset"}, room |-> 6, center |-> 1, listening |-> 6,
   name |-> [x \in Named |-> "given"], entries |-> 3]

Others ==
  {[Plain EXCEPT !.edges = <<Wire(1, 2), Wire(1, 2)>>, !.soloed = {2}],
   [Plain EXCEPT !.edges = <<Wire(2, 1)>>],
   [Plain EXCEPT !.edges = <<Wire(1, 2), Wire(2, 1)>>],
   [Plain EXCEPT !.edges = <<Wire(2, 2)>>],
   [Plain EXCEPT !.kind[2] = Absent, !.ref[2] = NoRef],
   [Plain EXCEPT !.presets = {}],
   [Plain EXCEPT !.center = 8, !.listening = -1]}

Whole(version, body) ==
  [version |-> version, part |-> [p \in Parts |-> "ok"], body |-> body]

\* The text without what was in the parts gone.
Without(t, gone, form) ==
  LET Lost(p, empty, full) == IF p \in gone THEN empty ELSE full
      nodes == <<"signalGraph", "nodes">>
      b == t.body
  IN  [t EXCEPT
         !.part = [p \in Parts |->
                     IF p \notin gone THEN @[p]
                     ELSE IF \E q \in gone : p \in Below(q) THEN "absent" ELSE form],
         !.body = [b EXCEPT
                     !.kind = Lost(nodes, Nowhere, @),
                     !.muted = Lost(nodes, {}, @), !.soloed = Lost(nodes, {}, @),
                     !.ref = Lost(nodes, [n \in Nodes |-> NoRef], @),
                     !.edges = Lost(<<"signalGraph", "edges">>, <<>>, @),
                     !.presets = Lost(<<"collection">>, {}, @),
                     !.entries = Lost(<<"auditLog">>, 0, @)]]

Gone(parts) == parts \cup UNION {Below(p) : p \in parts}

\* The forms that a part can have: there is no wrong content of an object, a list or a
\* name that may be anything, an element of a list is not missing, and the mixers may be.
FormsOf(p) ==
  LET containers == {<<"project">>, <<"venue">>, <<"scene">>, <<"signalGraph">>,
                     <<"signalGraph", "nodes">>, <<"signalGraph", "edges">>,
                     <<"collection">>, <<"auditLog">>,
                     <<"venue", "name">>, <<"scene", "name">>}
      elements == {<<"signalGraph", "nodes", "node">>, <<"signalGraph", "edges", "edge">>,
                   <<"powerGraph", "node">>, <<"auditLog", "entry">>, Mixers}
  IN  CASE p \in {Unknown, Root} -> {"content"}
        [] p \in containers -> {"absent", "type"}
        [] p \in elements -> {"type", "content"}
        [] p = <<"collection", "envelope">> -> {"type"}
        [] OTHER -> {"absent", "type", "content"}

Damaged(t, parts) ==
  UNION {{IF form = "content" THEN [t EXCEPT !.part[p] = form]
          ELSE Without(t, Gone({p}), form) : form \in FormsOf(p)} : p \in parts}

Keys == {p \in Parts : Len(p) = 1 /\ p # Unknown}

TextsOfAllAges ==
  LET old == Whole(0, Plain)
  IN  {Whole(v, b) : v \in -1 .. 3, b \in Others}
        \cup UNION {Damaged(Whole(v, Plain), Parts) : v \in -1 .. 3}
        \cup {Without(old, Gone(missing), "absent") : missing \in SUBSET Keys}
        \cup UNION {Damaged(t, {Geometry, <<"auditLog">>}) :
                     t \in Damaged(Whole(1, Plain), {Dimensions})}
=============================================================================
