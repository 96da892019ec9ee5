-------------------------- MODULE ProjectDocument --------------------------
(***************************************************************************)
(* A project and its text: the project is made or read, edited by the      *)
(* setters of project.cpp and the sf_graph_* calls of graph_abi.cpp,       *)
(* written and read again, and texts of any version and quality come in    *)
(* from outside.  No queue runner is there: the calls all find the         *)
(* document free, which QueueRunner is about.                              *)
(*                                                                         *)
(* A call that refuses its arguments makes no step.                        *)
(***************************************************************************)
EXTENDS DocumentFormat

CONSTANTS
  Kinds, Ports,
  Foreign,      \* the texts that come in from outside
  Lengths,      \* the numbers that callers give for rooms and points
  Titles,       \* the names that callers give
  MaxEdges,     \* bound of the model: edges of a graph
  MaxEdits,     \* bound of the model: edits and saves
  MaxEntries    \* kMaxAuditEntries

ASSUME DocumentAssumption ==
  /\ Nodes \subseteq Nat /\ IsFiniteSet(Nodes)
  /\ Kinds \subseteq {"source", "processor", "output", "bus"}
  /\ Ports \subseteq Nat /\ 0 \in Ports
  /\ NotFinite \in Lengths /\ Lengths \subseteq Int
  /\ NotFinite < 0      \* like no size and no place in a room
  /\ Titles \subseteq {"given", "malformed", "blank", "empty"}
  /\ Room \in Nat \ {0}
  /\ MaxEdges \in Nat /\ MaxEdits \in Nat /\ MaxEntries \in Nat \ {0}

VARIABLES
  open,           \* whether there is a project, with the document of the next two lines
  kind, edgeList, muted, soloed, ref,            \* SignalGraphDoc
  presets, room, center, listening, name, entries,   \* the rest of SfProjectDoc
  text,           \* the text in hand
  origin,         \* of the text: "none", "foreign", "migrated" or "saved"; "read"
                  \* when one from outside was read and let go
  edits,          \* history: edits and saves so far
  legacy,         \* history: the problems that the project was read with
  saved           \* history: the document that the text was written from, its legacy

graphVars == <<kind, edgeList, muted, soloed, ref>>
roomVars == <<room, center, listening>>
textVars == <<text, origin, saved>>
vars == <<open, graphVars, presets, roomVars, name, entries, textVars, edits, legacy>>

Graph == INSTANCE SignalGraph WITH
           edges <- Range(edgeList), MaxSoloed <- Cardinality(Nodes),
           MaxMuted <- Cardinality(Nodes)

doc == [kind |-> kind, edges |-> edgeList, muted |-> muted, soloed |-> soloed,
        ref |-> ref, presets |-> presets, room |-> room, center |-> center,
        listening |-> listening, name |-> name, entries |-> entries]

\* What a document can have in its fields.
Names == {"given", "malformed", "blank", "empty", "replaced", "default"}
Refs == STRING \cup {NoRef}
Bodies ==
  [kind : [Nodes -> Kinds \cup {Absent}], edges : Seq(Graph!Edges),
   muted : SUBSET Nodes, soloed : SUBSET Nodes,
   ref : [Nodes -> Refs], presets : SUBSET STRING,
   room : Int, center : Int, listening : Int,
   name : [Named -> Names], entries : Nat]

\* A sound part says of the body what validate_doc_json has found in it.
Fits(t) ==
  /\ t \in [version : Int, part : [Parts -> Forms], body : Bodies]
  /\ t.part[<<"project", "name">>] = "ok" => t.body.name["project"] # "empty"
  /\ t.part[Dimensions] = "ok" => t.body.room > 0
  /\ t.part[Geometry] = "ok" => NotFinite \notin {t.body.center, t.body.listening}
  /\ \A n \in Nodes : t.body.kind[n] = Absent => t.body.ref[n] = NoRef

\* Nothing is below a part that is not there; the root and an unknown key are always.
FormsFit(t) ==
  /\ \A p \in Parts : t.part[p] = "absent" => \A q \in Below(p) : t.part[q] = "absent"
  /\ {t.part[Root], t.part[Unknown]} \subseteq {"ok", "content"}

ASSUME ForeignAssumption == \A t \in Foreign : Fits(t) /\ FormsFit(t)

Nowhere == [n \in Nodes |-> Absent]

Becomes(d) ==
  /\ kind' = d.kind /\ edgeList' = d.edges /\ muted' = d.muted /\ soloed' = d.soloed
  /\ ref' = d.ref /\ presets' = d.presets /\ room' = d.room
  /\ center' = d.center /\ listening' = d.listening
  /\ name' = d.name /\ entries' = d.entries

\* What sf_project_create fills in.
Fresh(title) ==
  [kind |-> Nowhere, edges |-> <<>>, muted |-> {}, soloed |-> {},
   ref |-> [n \in Nodes |-> NoRef], presets |-> {}, room |-> Room,
   center |-> Middle(Room), listening |-> Middle(Room),
   name |-> [x \in Named |-> IF x = "project" THEN title ELSE "default"],
   entries |-> 1]

NoText == [none |-> TRUE]

Init ==
  /\ open = FALSE /\ edits = 0 /\ legacy = {}
  /\ LET d == Fresh("default")      \* no document: any will do
     IN  /\ kind = d.kind /\ edgeList = d.edges /\ muted = d.muted
         /\ soloed = d.soloed /\ ref = d.ref /\ presets = d.presets
         /\ room = d.room /\ center = d.center /\ listening = d.listening
         /\ name = d.name /\ entries = d.entries
  /\ text = NoText /\ origin = "none" /\ saved = NoText

(***************************************************************************)
(* What sf_project_health_check and sf_graph_validate report.              *)
(***************************************************************************)

Inside(p) == 0 <= p /\ p <= room

DanglingRefs == {n \in Graph!Present : ref[n] \notin presets \cup {NoRef}}

Orphans ==
  {n \in Graph!Present :
     /\ kind[n] # "source"
     /\ \A s \in Graph!Present : kind[s] = "source" => ~Graph!CanReach(s, n)}

\* What sf_project_health_check reports, but for the order of the audit log, as time
\* is left out: errors, the warning of geometry and the one of nodes that no source
\* reaches.
HealthProblems ==
  {x \in {"schema", "reference", "geometry", "orphan"} :
     \/ x = "schema" /\ ~Valid(Encoded(doc))
     \/ x = "reference" /\ DanglingRefs # {}
     \/ x = "geometry" /\ ~(Inside(center) /\ Inside(listening))
     \/ x = "orphan" /\ Orphans # {}}

\* What sf_graph_validate reports: the last three are errors, too.
GraphProblems ==
  {x \in {"orphan", "reference", "cycle", "routing"} :
     \/ x = "orphan" /\ Orphans # {}
     \/ x = "reference" /\ DanglingRefs # {}
     \/ x = "cycle" /\ ~Graph!Acyclic
     \/ x = "routing" /\ \E e \in Range(edgeList) :
                            kind[e.to] = "source" \/ kind[e.from] = "output"}

\* What no edit should bring.  That a node has no source before it is left out: every
\* unfinished graph has that warning, from its first output on.
Problems == (HealthProblems \cup GraphProblems) \ {"orphan"}

(***************************************************************************)
(* The project comes and goes.                                             *)
(***************************************************************************)

Create(title) ==
  /\ ~open /\ title # "empty"
  /\ open' = TRUE /\ legacy' = {}
  /\ Becomes(Fresh(title))
  /\ UNCHANGED <<textVars, edits>>

Destroy ==
  /\ open
  /\ open' = FALSE /\ legacy' = {}
  /\ Becomes(Fresh("default"))
  /\ UNCHANGED <<textVars, edits>>

Open ==
  /\ ~open /\ text # NoText
  /\ Opened(text) # Refused
  /\ open' = TRUE
  /\ Becomes(Opened(text).body)
  /\ IF origin = "saved" THEN legacy' = saved.legacy /\ UNCHANGED textVars
     ELSE /\ legacy' = Problems'
          /\ text' = NoText /\ origin' = "read" /\ UNCHANGED saved
  /\ UNCHANGED edits

(***************************************************************************)
(* Texts.                                                                  *)
(***************************************************************************)

Writes(d) ==
  /\ text' = Encoded(d) /\ origin' = "saved"
  /\ saved' = [doc |-> d, legacy |-> legacy]

ToJson ==
  /\ open
  /\ Writes(doc)
  /\ UNCHANGED <<open, graphVars, presets, roomVars, name, entries, edits, legacy>>

\* The entry of a save is added past the cap.
Save ==
  /\ open /\ edits < MaxEdits
  /\ edits' = edits + 1
  /\ entries' = entries + 1
  /\ Writes([doc EXCEPT !.entries = @ + 1])
  /\ UNCHANGED <<open, graphVars, presets, roomVars, name, legacy>>

\* One text from outside in a run, and before the edits.
Receive(t) ==
  /\ ~open /\ origin = "none" /\ edits = 0
  /\ text' = t /\ origin' = "foreign"
  /\ UNCHANGED <<open, graphVars, presets, roomVars, name, entries, saved, edits, legacy>>

\* sf_migrate_json: a text that is refused stays as it was.
MigrateText(from, to) ==
  /\ text # NoText
  /\ LET new == Migrated(text, from, to)
     IN  /\ new \notin {Refused, text}
         /\ text' = new
  /\ origin' = "migrated"
  /\ UNCHANGED <<open, graphVars, presets, roomVars, name, entries, saved, edits, legacy>>

(***************************************************************************)
(* Edits.  Each ends with user_audit.                                      *)
(***************************************************************************)

UserAudit ==
  /\ open /\ edits < MaxEdits
  /\ edits' = edits + 1
  /\ entries' = Min({entries + 1, MaxEntries})
  /\ UNCHANGED <<open, textVars, presets>>

\* Mutant: any name will do.
RenameUnchecked(x, title) ==
  /\ UserAudit
  /\ name' = [name EXCEPT ![x] = title]
  /\ UNCHANGED <<graphVars, roomVars, legacy>>

\* sf_project_rename, sf_venue_rename and sf_scene_rename.
Rename(x, title) ==
  /\ title # "empty" /\ (x = "scene" => title # "blank")
  /\ UserAudit
  /\ name' = [name EXCEPT ![x] = title]
  /\ UNCHANGED <<graphVars, roomVars, legacy>>

Clamp(p, size) == Max({0, Min({p, size})})

\* Mutant: the points stay where they were.
SetDimensionsOnly(size) ==
  /\ size > 0 /\ size # NotFinite
  /\ UserAudit
  /\ room' = size
  /\ legacy' = legacy \ {"geometry"}
  /\ UNCHANGED <<graphVars, center, listening, name>>

SetDimensions(size) ==
  /\ size > 0 /\ size # NotFinite
  /\ UserAudit
  /\ room' = size
  /\ center' = Clamp(center, size) /\ listening' = Clamp(listening, size)
  /\ legacy' = legacy \ {"geometry"}
  /\ UNCHANGED <<graphVars, name>>

SetGeometry(c, l) ==
  /\ NotFinite \notin {c, l} /\ Inside(c) /\ Inside(l)
  /\ UserAudit
  /\ center' = c /\ listening' = l
  /\ legacy' = legacy \ {"geometry"}
  /\ UNCHANGED <<graphVars, room, name>>

\* sf_graph_*: the mutator of SignalGraph, then user_audit.
EditGraph == UserAudit /\ UNCHANGED <<roomVars, name, legacy>>

AddNode(n, k) ==
  /\ EditGraph
  /\ UNCHANGED <<edgeList, ref>>
  /\ Graph!AddNode(n, k)

\* The edges that n has no part in, one after the other.
Detached(list, n) ==
  LET kept[i \in 0 .. Len(list)] ==
        IF i = 0 THEN <<>>
        ELSE IF n \in {list[i].from, list[i].to} THEN kept[i - 1]
        ELSE Append(kept[i - 1], list[i])
  IN  kept[Len(list)]

RemoveNode(n) ==
  /\ EditGraph
  /\ edgeList' = Detached(edgeList, n)
  /\ ref' = [ref EXCEPT ![n] = NoRef]
  /\ Graph!RemoveNode(n)

\* Mutant: a cycle is not looked for.
AddEdgeUnchecked(e) ==
  /\ {e.from, e.to} \subseteq Graph!Present
  /\ EditGraph
  /\ Len(edgeList) < MaxEdges
  /\ edgeList' = Append(edgeList, e)
  /\ UNCHANGED <<kind, muted, soloed, ref>>

\* Negative ports are refused here, and not by the queued command.
AddEdge(e) ==
  /\ EditGraph
  /\ Len(edgeList) < MaxEdges
  /\ edgeList' = Append(edgeList, e) /\ UNCHANGED ref
  /\ Graph!AddEdge(e)

RemoveEdge(i) ==
  /\ EditGraph
  /\ edgeList' = RemoveAt(edgeList, i)
  /\ UNCHANGED <<kind, muted, soloed, ref>>

SetMixer(n, mute, solo) ==
  /\ EditGraph
  /\ UNCHANGED <<edgeList, ref>>
  /\ Graph!SetMixer(n, mute, solo)

SetPreset(n, r) ==
  /\ n \in Graph!Present /\ r \in presets \cup {NoRef}
  /\ EditGraph
  /\ ref' = [ref EXCEPT ![n] = r]
  /\ UNCHANGED <<kind, edgeList, muted, soloed>>

Edit ==
  \/ \E x \in Named, title \in Titles : Rename(x, title)
  \/ \E size \in Lengths : SetDimensions(size)
  \/ \E c, l \in Lengths : SetGeometry(c, l)
  \/ \E n \in Nodes :
        \/ \E k \in Kinds \cup {"invalid"} : AddNode(n, k)
        \/ RemoveNode(n)
        \/ \E mute, solo \in BOOLEAN : SetMixer(n, mute, solo)
        \/ \E r \in presets \cup {NoRef} : SetPreset(n, r)
  \/ \E e \in Graph!Edges : AddEdge(e)
  \/ \E i \in DOMAIN edgeList : RemoveEdge(i)

Next ==
  \/ \E title \in Titles : Create(title)
  \/ Destroy \/ Open \/ ToJson \/ Save
  \/ \E t \in Foreign : Receive(t)
  \/ \E from, to \in 0 .. Version + 1 : MigrateText(from, to)
  \/ Edit

Spec == Init /\ [][Next]_vars

-----------------------------------------------------------------------------
(***************************************************************************)
(* Properties.                                                             *)
(***************************************************************************)

\* Every variable has a value its C++ counterpart can have.
TypeOK ==
  /\ open \in BOOLEAN
  /\ Graph!TypeOK /\ edgeList \in Seq(Graph!Edges)
  /\ presets \in SUBSET STRING /\ ref \in [Nodes -> Refs]
  /\ room \in Int /\ center \in Int /\ listening \in Int
  /\ name \in [Named -> Names]
  /\ entries \in Nat /\ edits \in 0 .. MaxEdits
  /\ origin \in {"none", "foreign", "migrated", "saved", "read"}

\* Nothing that the API does to a project, however long and in whatever order,
\* makes the health check or the validation of the graph report an error, or geometry
\* outside the room, that the project was not read with: a project made here has
\* none, and a point outside the room is gone for good once the room or the points are
\* set ("Mutators reject out-of-bounds writes, so this only fires for pre-existing
\* documents").  And none is read with a broken schema or a cycle, which every render
\* relies on.  The warnings of nodes that no source reaches and of the order of the
\* log do come with edits.
NoNewProblem ==
  open => /\ Problems \subseteq legacy
          /\ legacy \subseteq {"reference", "geometry", "routing"}

\* Every text that is written can be read again, whatever was renamed to bytes that
\* are not UTF-8 and whatever the project was read with, and is the same project:
\* only the ports of the edges and such names are lost.  This is of texts within the
\* 8 MiB that are accepted for reading, to which writing is not held.
SavedReopens ==
  origin = "saved" =>
    LET d == saved.doc
        b == Opened(text).body
        Lost(x) == d.name[x] = "malformed"
        Ends(e) == <<e.from, e.to>>
    IN  /\ Opened(text) # Refused
        /\ \A f \in DOMAIN d \ {"edges", "name"} : b[f] = d[f]
        /\ \A x \in Named : Lost(x) \/ b.name[x] = d.name[x]
        /\ [i \in DOMAIN b.edges |-> Ends(b.edges[i])]
              = [i \in DOMAIN d.edges |-> Ends(d.edges[i])]

\* What a text has of the project is in the project read from it: the lists, the
\* names, a measured room and a complete geometry.  The rest lies in the room.
KeptIn(b, t) ==
  /\ \A f \in {"kind", "edges", "muted", "soloed", "ref", "presets"} : b[f] = t.body[f]
  /\ \A x \in Named : t.part[<<x, "name">>] = "ok" => b.name[x] = t.body.name[x]
  /\ t.part[Dimensions] = "ok" => b.room = t.body.room
  /\ IF t.part[Geometry] = "ok"
     THEN b.center = t.body.center /\ b.listening = t.body.listening
     ELSE {b.center, b.listening} \subseteq 0 .. b.room

\* The texts of older versions: any keys of the document missing in version 0, no
\* dimensions or no geometry in version 1, nothing else amiss.
Old(t) ==
  LET missing == {p \in Broken(t) : Len(p) = 1 /\ t.part[p] = "absent"}
      amiss   == Broken(t) \ ({Dimensions, Geometry} \cup missing
                               \cup UNION {Below(p) : p \in missing})
  IN  /\ amiss = {} /\ EdgesValid(t)
      /\ t.version = 0 \/ (t.version = 1 /\ missing = {})

\* Each of them is read, and keeps what it had.
OldVersionsOpen ==
  origin = "foreign" /\ Old(text) =>
    Opened(text) # Refused /\ KeptIn(Opened(text).body, text)

\* A text that has been migrated is left alone by every further migration, also from
\* a version that it is not of: "Idempotent: migrating an already-migrated document
\* is a no-op" (sf_migration.h:20).
MigrationSettles ==
  text # NoText =>
    \A from \in 0 .. Version - 1 :
      LET new == Migrated(text, from, Version)
      IN  new # Refused => \A v \in 0 .. Version : Migrated(new, v, Version) = new
=============================================================================
