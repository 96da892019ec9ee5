--------------------------- MODULE DocumentFormat ---------------------------
(***************************************************************************)
(* The JSON text of a project: what migration.cpp repairs in it, what      *)
(* validate_doc_json of schema.cpp accepts, and what json_codec.cpp reads  *)
(* from it and writes to it.                                               *)
(*                                                                         *)
(* A text is known by the schema version it carries, by the form of each   *)
(* of its parts, and by its body: the project that its sound parts         *)
(* describe.  A part stands for the fields that the code treats alike; in  *)
(* a list it is an element that the list has besides those of the body.    *)
(* A room and the points in it have one axis.                              *)
(***************************************************************************)
EXTENDS Integers, SequencesExt, Reachability

CONSTANTS
  Room,         \* SF_ROOM_DEFAULT_*: the size of a room nobody measured
  NotFinite     \* a number that is NaN or infinite, which JSON writes as null

Version == 2    \* SF_SCHEMA_VERSION

Absent == "absent"     \* the kind of a node that is not there
NoRef == "none"        \* dspPresetRef of a node without a preset
Named == {"project", "venue", "scene"}

(***************************************************************************)
(* Parts and their forms: "ok", "absent" (no such key), "type" (a value of *)
(* another JSON type) and "content" (a value of the right type that is     *)
(* refused).  The parts below one that is not there are absent too.        *)
(***************************************************************************)

Root == <<>>    \* of form "content": refused by the gate or by the parser
Unknown == <<"unknown">>                 \* a top-level key the schema has not
Dimensions == <<"venue", "dimensions">>
Geometry == <<"scene", "geometry">>
NodeId == <<"signalGraph", "nodes", "id">>
Mixers == <<"signalGraph", "mixers">>    \* need not be there
ElementType == <<"collection", "envelope", "type">>

\* Read with value(key, ""), which throws at a value of another type.
ReadAsText ==
  {<<"project", "id">>, <<"project", "name">>, <<"venue", "id">>,
   <<"scene", "id">>, <<"scene", "venueRef">>, <<"collection", "envelope", "id">>}

\* Parts that step 0 writes anew whatever is wrong with them.
Rewritten ==
  {<<"engineVersion">>, <<"project">>, <<"project", "fields">>,
   <<"signalGraph">>, <<"signalGraph", "nodes">>, <<"signalGraph", "edges">>,
   <<"powerGraph">>, <<"collection">>, <<"collection", "envelope">>,
   <<"collection", "envelope", "fields">>, <<"auditLog">>}

Parts ==
  Rewritten \cup ReadAsText \cup
  {Root, Unknown, <<"venue">>, <<"venue", "name">>, Dimensions,
   <<"scene">>, <<"scene", "name">>, Geometry,
   <<"signalGraph", "nodes", "node">>, NodeId, <<"signalGraph", "edges", "edge">>,
   Mixers, <<"powerGraph", "node">>, ElementType,
   <<"auditLog", "entry">>}

Forms == {"ok", "absent", "type", "content"}
Broken(t) == {p \in Parts : t.part[p] # "ok"}
Below(p) == {q \in Parts : IsStrictPrefix(p, q)}

Middle(room) == room \div 2

(***************************************************************************)
(* migrate_step and its callers.  A step that throws and a version that    *)
(* has no step make the text Refused.                                      *)
(***************************************************************************)

Refused == [refused |-> TRUE]

\* Mutant: a venue or a scene that is missing is not made.
RepairedInPlace(t) == (Rewritten \cup ReadAsText) \ {Dimensions, Geometry}

\* What the first step leaves sound: what it rewrites, what it finds missing, and
\* what was below a part that it rewrites.
Repaired(t) ==
  LET missing == {p \in {<<"venue">>, <<"scene">>} : t.part[p] = "absent"}
      typed   == {p \in {ElementType} : t.part[p] # "content"}
      anew    == missing \cup (Rewritten \cap Broken(t))
  IN  (Rewritten \cup ReadAsText \cup missing \cup typed
         \cup UNION {Below(p) : p \in anew}) \ {Dimensions, Geometry}

Throws(t) ==
  \E p \in ReadAsText \cup {<<"venue">>, <<"scene">>} : t.part[p] = "type"

FromV0(t) ==
  LET sound == Repaired(t)
      Unnamed(x) == <<x, "name">> \in sound \cap Broken(t)
  IN  IF Throws(t) THEN Refused
      ELSE [version |-> 1,
            part |-> [p \in Parts |-> IF p \in sound THEN "ok" ELSE t.part[p]],
            body |-> [t.body EXCEPT
                        !.name = [x \in Named |-> IF Unnamed(x) THEN "default" ELSE @[x]],
                        !.entries = @ + 1]]

\* A room that was measured stays, and so do the two points of a complete geometry.
FromV1(t) ==
  LET room   == IF t.part[Dimensions] = "ok" THEN t.body.room ELSE Room
      Kept(p) == IF t.part[Geometry] = "ok" THEN p ELSE Middle(room)
      sound  == {<<"engineVersion">>, <<"project">>, <<"venue">>, <<"scene">>,
                 Dimensions, Geometry, <<"auditLog">>}
                  \cup (IF t.part[<<"auditLog">>] = "ok" THEN {} ELSE Below(<<"auditLog">>))
      Form(p) == IF p \in sound THEN "ok"
                 ELSE IF p = <<"project", "id">> /\ t.part[p] = "absent" THEN "type"
                 ELSE t.part[p]
  IN  IF t.part[<<"project">>] = "type" THEN Refused
      ELSE [version |-> 2,
            part |-> [p \in Parts |-> Form(p)],
            body |-> [t.body EXCEPT !.room = room, !.center = Kept(@),
                                    !.listening = Kept(@), !.entries = @ + 1]]

\* The work of one step, for a text that does not have it behind it.
Step(t, from) ==
  CASE from = 0 -> FromV0(t)
    [] from = 1 -> FromV1(t)
    [] OTHER    -> Refused

MigrateStep(t, from) == IF t.version >= from + 1 THEN t ELSE Step(t, from)

\* migrate_doc_inplace: from and to are the caller's, the text's own version is
\* only looked at by the steps.
Migrated(t, from, to) ==
  LET after[k \in 0 .. to - from] ==
        IF k = 0 THEN t
        ELSE LET u == after[k - 1]
             IN  IF u = Refused THEN u ELSE MigrateStep(u, from + k - 1)
  IN  IF t.part[Root] # "ok" \/ to < from THEN Refused ELSE after[to - from]

(***************************************************************************)
(* validate_doc_json.                                                      *)
(***************************************************************************)

Sound(t, keys) == \A p \in Broken(t) : p = Root \/ p[1] \notin keys

HeadValid(t) ==
  /\ t.version = Version
  /\ t.part[Root] = "ok"
  /\ Sound(t, {"unknown", "engineVersion", "project"})

RoomValid(t) == Sound(t, {"venue", "scene"})

\* An id of a node that is not a string is passed over.
NodesValid(t) ==
  \A p \in Broken(t) \ {Root, Mixers} :
    p[1] \in {"signalGraph", "powerGraph"} => p = NodeId /\ t.part[p] = "type"

MixersValid(t) == Mixers \notin Broken(t)

\* Mutant: the ends of an edge are looked up, cycles are not.
EdgesKnown(t) ==
  \A i \in DOMAIN t.body.edges :
    LET e == t.body.edges[i]
    IN  t.body.kind[e.from] # Absent /\ t.body.kind[e.to] # Absent

\* The edges lead from node to node and close no cycle, a loop at a node included.
\* What the routing rules say of sources and outputs is not looked at.
EdgesValid(t) ==
  LET edges == Range(t.body.edges)
  IN  \A e \in edges :
        /\ t.body.kind[e.from] # Absent /\ t.body.kind[e.to] # Absent
        /\ e.from \notin Reached(edges, {e.to})

ListsValid(t) == Sound(t, {"collection", "auditLog"})

Valid(t) ==
  /\ HeadValid(t) /\ RoomValid(t)
  /\ NodesValid(t) /\ EdgesValid(t) /\ MixersValid(t)
  /\ ListsValid(t)

(***************************************************************************)
(* The codec, and the ways in and out.                                     *)
(***************************************************************************)

\* doc_from_json reads the id of a node with value(), which throws at another type.
Decodes(t) == t.part[NodeId] # "type"

\* sf_project_from_json and, from the parsed text on, sf_project_open_from_path: the
\* text whose body becomes the project.
Opened(t) ==
  LET new == IF t.version \in 0 .. Version - 1
             THEN Migrated(t, t.version, Version) ELSE t
  IN  IF new = Refused THEN Refused
      ELSE IF Valid(new) /\ Decodes(new) THEN new ELSE Refused

\* Mutant: a byte that is not UTF-8 is written as it is.
AsItIs(name) == name

\* dump() with error_handler_t::replace.
Replaced(name) == IF name = "malformed" THEN "replaced" ELSE name

\* doc_to_json and dump(): the ports of an edge are not written.
Encoded(d) ==
  LET Portless(e) == [e EXCEPT !.fromPort = 0, !.toPort = 0]
      name == [x \in Named |-> Replaced(d.name[x])]
      Form(p) == CASE p = Root /\ "malformed" \in Range(name) -> "content"
                   [] p = <<"project", "name">> /\ d.name["project"] = "empty" -> "content"
                   [] p = Dimensions /\ d.room = NotFinite -> "content"
                   [] p = Geometry /\ NotFinite \in {d.center, d.listening} -> "content"
                   [] OTHER -> "ok"
  IN  [version |-> Version,
       part |-> [p \in Parts |-> Form(p)],
       body |-> [d EXCEPT !.name = name,
                          !.edges = [i \in DOMAIN @ |-> Portless(@[i])]]]
=============================================================================
