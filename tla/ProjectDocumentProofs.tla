----------------------- MODULE ProjectDocumentProofs -----------------------
(***************************************************************************)
(* Proofs about DocumentFormat and ProjectDocument for every finite set of *)
(* nodes, every set of texts that come in, and every bound.                *)
(***************************************************************************)
EXTENDS ProjectDocument, FiniteSetTheorems, SequenceTheorems, TLAPS

\* The lemmas about graphs, of the graph of the document.
Lemmas == INSTANCE SignalGraphProofs WITH
            edges <- Range(edgeList), MaxSoloed <- Cardinality(Nodes),
            MaxMuted <- Cardinality(Nodes)

LEMMA GraphAssumed == Lemmas!GraphAssumption
<1>1. Cardinality(Nodes) \in Nat
  BY FS_CardinalityType, DocumentAssumption
<1>2. QED
  BY <1>1, DocumentAssumption DEF Lemmas!GraphAssumption, Lemmas!IsFiniteSet, IsFiniteSet

-----------------------------------------------------------------------------
(***************************************************************************)
(* A function that is defined by recursion over 0 .. n is what its         *)
(* equations say.                                                          *)
(***************************************************************************)

\* Value k is what step k makes of value k - 1.
Unrolls(f, b, step, n, D) ==
  f \in [0 .. n -> D] /\ f[0] = b /\ \A k \in 1 .. n : f[k] = step[k][f[k - 1]]

LEMMA SomeUnrolls ==
  ASSUME NEW D, NEW n \in Nat, NEW step \in [1 .. n -> [D -> D]], NEW b \in D
  PROVE  \E f : Unrolls(f, b, step, n, D)
<1> DEFINE P(m) == \E f \in [0 .. m -> D] :
                      f[0] = b /\ \A k \in 1 .. m : f[k] = step[k][f[k - 1]]
           S == {m \in Nat : m <= n => P(m)}
<1>1. 0 \in S
  <2> DEFINE f == [k \in 0 .. 0 |-> b]
  <2>1. f \in [0 .. 0 -> D] /\ f[0] = b /\ \A k \in 1 .. 0 : f[k] = step[k][f[k - 1]]
    OBVIOUS
  <2> HIDE DEF f
  <2>2. P(0)
    BY <2>1
  <2>3. QED
    BY <2>2
<1>2. \A m \in Nat : m \in S => m + 1 \in S
  <2> HIDE DEF P
  <2> SUFFICES ASSUME NEW m \in Nat, P(m), m + 1 <= n PROVE P(m + 1)
    OBVIOUS
  <2> USE DEF P
  <2>1. PICK f \in [0 .. m -> D] : f[0] = b /\ \A k \in 1 .. m : f[k] = step[k][f[k - 1]]
    OBVIOUS
  <2> DEFINE h == [k \in 0 .. m + 1 |-> IF k = m + 1 THEN step[m + 1][f[m]] ELSE f[k]]
  <2>2. h \in [0 .. m + 1 -> D]
    <3>1. step[m + 1] \in [D -> D] /\ f[m] \in D
      OBVIOUS
    <3>2. step[m + 1][f[m]] \in D
      BY <3>1
    <3>3. QED
      BY <3>2
  <2>3. h[0] = b
    BY <2>1
  <2>4. ASSUME NEW k \in 1 .. m + 1 PROVE h[k] = step[k][h[k - 1]]
    <3>1. CASE k = m + 1
      BY <3>1
    <3>2. CASE k \in 1 .. m
      BY <2>1, <3>2
    <3>3. QED
      BY <3>1, <3>2
  <2> HIDE DEF h
  <2>5. QED
    BY <2>2, <2>3, <2>4
<1> HIDE DEF S
<1>3. n \in S
  BY <1>1, <1>2, GraphAssumed, Lemmas!NatInducts
<1>4. QED
  BY <1>3 DEF S, Unrolls

-----------------------------------------------------------------------------
(***************************************************************************)
(* The lists of edges that the mutators leave.                             *)
(***************************************************************************)

LEMMA RangeIsElements ==
  ASSUME NEW S, NEW list \in Seq(S)
  PROVE  Range(list) = {list[i] : i \in 1 .. Len(list)} /\ Range(list) \subseteq S
BY DEF Range

LEMMA RangeOfAppend ==
  ASSUME NEW S, NEW list \in Seq(S), NEW e \in S
  PROVE  Append(list, e) \in Seq(S) /\ Range(Append(list, e)) = Range(list) \cup {e}
<1> DEFINE new == Append(list, e)
<1>1. new \in Seq(S) /\ Len(new) = Len(list) + 1 /\ new[Len(new)] = e
  OBVIOUS
<1>2. \A i \in 1 .. Len(list) : new[i] = list[i]
  OBVIOUS
<1> HIDE DEF new
<1>3. Range(new) = {new[i] : i \in 1 .. Len(new)}
  BY <1>1, RangeIsElements
<1>4. QED
  BY <1>1, <1>2, <1>3, RangeIsElements DEF new

LEMMA RangeOfJoined ==
  ASSUME NEW S, NEW front \in Seq(S), NEW back \in Seq(S)
  PROVE  front \o back \in Seq(S) /\ Range(front \o back) = Range(front) \cup Range(back)
<1> DEFINE new == front \o back
<1>1. new \in Seq(S) /\ Len(new) = Len(front) + Len(back)
  OBVIOUS
<1>2. \A k \in 1 .. Len(front) : new[k] = front[k]
  OBVIOUS
<1>3. \A k \in 1 .. Len(back) : new[Len(front) + k] = back[k]
  OBVIOUS
<1> HIDE DEF new
<1>4. ASSUME NEW k \in 1 .. Len(new) PROVE new[k] \in Range(front) \cup Range(back)
  <2>1. CASE k <= Len(front)
    BY <1>1, <1>2, <2>1, RangeIsElements
  <2>2. CASE k > Len(front)
    <3>1. k - Len(front) \in 1 .. Len(back) /\ Len(front) + (k - Len(front)) = k
      BY <1>1, <2>2
    <3>2. new[k] = back[k - Len(front)]
      BY <1>3, <3>1
    <3>3. QED
      BY <3>1, <3>2, RangeIsElements
  <2>3. QED
    BY <1>1, <2>1, <2>2
<1>5. /\ Range(new) = {new[i] : i \in 1 .. Len(new)}
      /\ Range(front) = {front[i] : i \in 1 .. Len(front)}
      /\ Range(back) = {back[i] : i \in 1 .. Len(back)}
  BY <1>1, RangeIsElements
<1>6. Range(new) \subseteq Range(front) \cup Range(back)
  BY <1>4, <1>5
<1>7. Range(front) \subseteq Range(new)
  BY <1>1, <1>2, <1>5
<1>8. Range(back) \subseteq Range(new)
  <2>1. ASSUME NEW k \in 1 .. Len(back) PROVE Len(front) + k \in 1 .. Len(new)
    BY <1>1
  <2>2. QED
    BY <1>3, <1>5, <2>1
<1>9. QED
  BY <1>1, <1>6, <1>7, <1>8 DEF new

LEMMA RangeOfRemoveAt ==
  ASSUME NEW S, NEW list \in Seq(S), NEW i \in DOMAIN list
  PROVE  RemoveAt(list, i) \in Seq(S) /\ Range(RemoveAt(list, i)) \subseteq Range(list)
<1> DEFINE front == SubSeq(list, 1, i - 1)
           back == SubSeq(list, i + 1, Len(list))
<1>1. i \in 1 .. Len(list)
  OBVIOUS
<1>2. front \in Seq(S) /\ Len(front) = i - 1 /\ \A k \in 1 .. i - 1 : front[k] = list[k]
  BY <1>1
<1>3. /\ back \in Seq(S) /\ Len(back) = Len(list) - i
      /\ \A k \in 1 .. Len(list) - i : back[k] = list[i + k]
  BY <1>1
<1>4. RemoveAt(list, i) = front \o back
  BY DEF RemoveAt
<1> HIDE DEF front, back
<1>5. /\ Range(list) = {list[k] : k \in 1 .. Len(list)}
      /\ Range(front) = {front[k] : k \in 1 .. Len(front)}
      /\ Range(back) = {back[k] : k \in 1 .. Len(back)}
  BY <1>2, <1>3, RangeIsElements
<1>6. Range(front) \subseteq Range(list)
  BY <1>1, <1>2, <1>5
<1>7. Range(back) \subseteq Range(list)
  <2>1. ASSUME NEW k \in 1 .. Len(list) - i PROVE i + k \in 1 .. Len(list)
    BY <1>1
  <2>2. QED
    BY <1>3, <1>5, <2>1
<1>8. QED
  BY <1>2, <1>3, <1>4, <1>6, <1>7, RangeOfJoined

\* What is left of a list without the edges of a node is a list of edges.
LEMMA DetachedIsList ==
  ASSUME NEW n, NEW list \in Seq(Graph!Edges)
  PROVE  Detached(list, n) \in Seq(Graph!Edges)
<1> DEFINE D == Seq(Graph!Edges)
           step == [i \in 1 .. Len(list) |->
                      [kept \in D |-> IF n \in {list[i].from, list[i].to} THEN kept
                                      ELSE Append(kept, list[i])]]
           IsKept(f) ==
             f = [i \in 0 .. Len(list) |->
                    IF i = 0 THEN <<>>
                    ELSE IF n \in {list[i].from, list[i].to} THEN f[i - 1]
                    ELSE Append(f[i - 1], list[i])]
           kept == CHOOSE f : IsKept(f)
<1>1. step \in [1 .. Len(list) -> [D -> D]]
  <2> HIDE DEF D
  <2> SUFFICES ASSUME NEW i \in 1 .. Len(list), NEW known \in D
               PROVE  (IF n \in {list[i].from, list[i].to} THEN known
                       ELSE Append(known, list[i])) \in D
    OBVIOUS
  <2>1. list[i] \in Graph!Edges
    OBVIOUS
  <2>2. QED
    BY <2>1 DEF D
<1>2. <<>> \in D /\ Len(list) \in Nat
  OBVIOUS
<1> HIDE DEF D
<1>3. PICK f : Unrolls(f, <<>>, step, Len(list), D)
  <2> HIDE DEF step
  <2>1. QED
    BY <1>1, <1>2, SomeUnrolls
<1>4. IsKept(f)
  <2>1. f \in [0 .. Len(list) -> D] /\ f[0] = <<>>
    BY <1>3 DEF Unrolls
  <2>2. ASSUME NEW i \in 1 .. Len(list)
        PROVE  f[i] = IF n \in {list[i].from, list[i].to} THEN f[i - 1]
                      ELSE Append(f[i - 1], list[i])
    <3>1. f[i - 1] \in D /\ f[i] = step[i][f[i - 1]]
      BY <1>2, <1>3, <2>1 DEF Unrolls
    <3>2. QED
      BY <3>1
  <2> DEFINE h == [i \in 0 .. Len(list) |->
                    IF i = 0 THEN <<>>
                    ELSE IF n \in {list[i].from, list[i].to} THEN f[i - 1]
                    ELSE Append(f[i - 1], list[i])]
  <2>3. ASSUME NEW i \in 0 .. Len(list) PROVE f[i] = h[i]
    <3>1. CASE i = 0
      BY <2>1, <3>1
    <3>2. CASE i \in 1 .. Len(list)
      BY <2>2, <3>2
    <3>3. QED
      BY <1>2, <3>1, <3>2
  <2>4. f = h
    <3>1. h = [i \in 0 .. Len(list) |-> h[i]]
      OBVIOUS
    <3> HIDE DEF h
    <3>2. f = [i \in 0 .. Len(list) |-> f[i]]
      BY <2>1
    <3>3. QED
      BY <2>3, <3>1, <3>2
  <2>5. QED
    BY <2>4
<1>5. IsKept(kept)
  <2> HIDE DEF IsKept
  <2>1. QED
    BY <1>4
<1>6. kept[Len(list)] = f[Len(list)]
  <2> DEFINE S == {i \in Nat : i <= Len(list) => kept[i] = f[i]}
  <2>0. /\ kept[0] = <<>> /\ f[0] = <<>>
        /\ \A i \in 1 .. Len(list) :
             /\ kept[i] = IF n \in {list[i].from, list[i].to} THEN kept[i - 1]
                          ELSE Append(kept[i - 1], list[i])
             /\ f[i] = IF n \in {list[i].from, list[i].to} THEN f[i - 1]
                       ELSE Append(f[i - 1], list[i])
    <3> HIDE DEF kept
    <3>1. ASSUME NEW h, IsKept(h)
          PROVE  /\ h[0] = <<>>
                 /\ \A i \in 1 .. Len(list) :
                      h[i] = IF n \in {list[i].from, list[i].to} THEN h[i - 1]
                             ELSE Append(h[i - 1], list[i])
      <4>1. \A i \in 0 .. Len(list) :
               h[i] = IF i = 0 THEN <<>>
                      ELSE IF n \in {list[i].from, list[i].to} THEN h[i - 1]
                      ELSE Append(h[i - 1], list[i])
        BY <3>1, Zenon
      <4>2. QED
        BY <1>2, <4>1
    <3> HIDE DEF IsKept
    <3>2. QED
      BY <1>4, <1>5, <3>1
  <2> HIDE DEF kept
  <2>1. 0 \in S
    BY <2>0
  <2>2. ASSUME NEW i \in Nat, i \in S, i + 1 <= Len(list) PROVE kept[i + 1] = f[i + 1]
    <3>1. i + 1 \in 1 .. Len(list) /\ (i + 1) - 1 = i /\ kept[i] = f[i]
      BY <1>2, <2>2
    <3> DEFINE j == i + 1
    <3>2. j \in 1 .. Len(list) /\ kept[j - 1] = f[j - 1]
      BY <3>1
    <3> HIDE DEF j
    <3>3. kept[j] = f[j]
      BY <2>0, <3>2
    <3>4. QED
      BY <3>3 DEF j
  <2> HIDE DEF S
  <2>3. Nat \subseteq S
    <3>1. \A i \in Nat : i \in S => i + 1 \in S
      BY <2>2 DEF S
    <3>2. QED
      BY <2>1, <3>1, GraphAssumed, Lemmas!NatInducts
  <2>4. QED
    BY <1>2, <2>3 DEF S
<1>7. f[Len(list)] \in D
  BY <1>2, <1>3 DEF Unrolls
<1>8. Detached(list, n) = kept[Len(list)]
  BY DEF Detached
<1>9. QED
  BY <1>6, <1>7, <1>8 DEF D

-----------------------------------------------------------------------------
(***************************************************************************)
(* Migration.                                                              *)
(***************************************************************************)

ProjectName == <<"project", "name">>

LEMMA SomeParts ==
  /\ {Root, Unknown, Dimensions, Geometry, NodeId, ProjectName} \subseteq Parts
  /\ \A x \in Named : <<x, "name">> \in Parts
  /\ ProjectName \in ReadAsText
BY DEF Parts, Rewritten, ReadAsText, ProjectName, Root, Unknown, Dimensions, Geometry,
       NodeId, Named

Texts == [version : Int, part : [Parts -> Forms], body : Bodies]

\* What the steps leave of a body as it is.
SameLists(b, c) ==
  /\ b.kind = c.kind /\ b.edges = c.edges /\ b.muted = c.muted /\ b.soloed = c.soloed
  /\ b.ref = c.ref /\ b.presets = c.presets
SameRoom(b, c) == b.room = c.room /\ b.center = c.center /\ b.listening = c.listening

\* A body stays one when a field is given another value that the field can have.
LEMMA FieldsChange ==
  ASSUME NEW b \in Bodies
  PROVE  /\ \A x \in [Named -> Names] : [b EXCEPT !.name = x] \in Bodies
         /\ \A x \in Int : /\ [b EXCEPT !.room = x] \in Bodies
                          /\ [b EXCEPT !.center = x] \in Bodies
                          /\ [b EXCEPT !.listening = x] \in Bodies
         /\ [b EXCEPT !.entries = @ + 1] \in Bodies
         /\ \A x \in Seq(Graph!Edges) : [b EXCEPT !.edges = x] \in Bodies
<1>1. ASSUME NEW x \in [Named -> Names] PROVE [b EXCEPT !.name = x] \in Bodies
  BY DEF Bodies
<1>2. ASSUME NEW x \in Int PROVE [b EXCEPT !.room = x] \in Bodies
  BY DEF Bodies
<1>3. ASSUME NEW x \in Int PROVE [b EXCEPT !.center = x] \in Bodies
  BY DEF Bodies
<1>4. ASSUME NEW x \in Int PROVE [b EXCEPT !.listening = x] \in Bodies
  BY DEF Bodies
<1>5. [b EXCEPT !.entries = @ + 1] \in Bodies
  BY DEF Bodies
<1>6. ASSUME NEW x \in Seq(Graph!Edges) PROVE [b EXCEPT !.edges = x] \in Bodies
  BY DEF Bodies
<1>7. QED
  BY <1>1, <1>2, <1>3, <1>4, <1>5, <1>6

LEMMA NameChanges ==
  ASSUME NEW b \in Bodies, NEW x \in [Named -> Names]
  PROVE  LET c == [b EXCEPT !.name = x, !.entries = @ + 1]
         IN  c \in Bodies /\ c.name = x /\ SameLists(c, b) /\ SameRoom(c, b)
<1> DEFINE a == [b EXCEPT !.name = x]
           c == [b EXCEPT !.name = x, !.entries = @ + 1]
<1>1. a \in Bodies
  BY FieldsChange
<1>2. c = [a EXCEPT !.entries = @ + 1]
  OBVIOUS
<1>3. c \in Bodies
  <2> HIDE DEF a
  <2>1. QED
    BY <1>1, <1>2, FieldsChange
<1>4. /\ c.name = x /\ c.kind = b.kind /\ c.edges = b.edges /\ c.muted = b.muted
      /\ c.soloed = b.soloed
  BY DEF Bodies
<1>5. /\ c.ref = b.ref /\ c.presets = b.presets
      /\ c.room = b.room /\ c.center = b.center /\ c.listening = b.listening
  BY DEF Bodies
<1>6. QED
  BY <1>3, <1>4, <1>5 DEF SameLists, SameRoom

WithRoom(b, x, y, z) ==
  [b EXCEPT !.room = x, !.center = y, !.listening = z, !.entries = @ + 1]
IsWithRoom(c, b, x, y, z) ==
  /\ c \in Bodies /\ c.name = b.name /\ SameLists(c, b)
  /\ c.room = x /\ c.center = y /\ c.listening = z

LEMMA RoomChanges ==
  ASSUME NEW b \in Bodies, NEW x \in Int, NEW y \in Int, NEW z \in Int
  PROVE  IsWithRoom(WithRoom(b, x, y, z), b, x, y, z)
<1> DEFINE b1 == [b EXCEPT !.room = x]
           b2 == [b1 EXCEPT !.center = y]
           b3 == [b2 EXCEPT !.listening = z]
           c == WithRoom(b, x, y, z)
<1> USE DEF WithRoom
<1>1. c = [b3 EXCEPT !.entries = @ + 1]
  OBVIOUS
<1>2. b1 \in Bodies
  BY FieldsChange
<1>3. b2 \in Bodies
  <2> HIDE DEF b1
  <2>1. QED
    BY <1>2, FieldsChange
<1>4. b3 \in Bodies
  <2> HIDE DEF b2
  <2>1. QED
    BY <1>3, FieldsChange
<1>5. c \in Bodies
  <2> HIDE DEF b3
  <2>1. QED
    BY <1>1, <1>4, FieldsChange
<1>6. /\ c.name = b.name /\ c.kind = b.kind /\ c.edges = b.edges /\ c.muted = b.muted
      /\ c.soloed = b.soloed
  BY DEF Bodies
<1>7. /\ c.ref = b.ref /\ c.presets = b.presets
      /\ c.room = x /\ c.center = y /\ c.listening = z
  BY DEF Bodies
<1>8. QED
  BY <1>5, <1>6, <1>7 DEF SameLists, IsWithRoom

\* The first step touches neither the lists nor the room, and no name that is sound.
LEMMA FirstStep ==
  ASSUME NEW t, Fits(t), ~Throws(t)
  PROVE  LET u == FromV0(t)
         IN  /\ Fits(u) /\ u # Refused /\ u.version = 1
             /\ \A p \in Parts : u.part[p] = IF p \in Repaired(t) THEN "ok" ELSE t.part[p]
             /\ SameLists(u.body, t.body) /\ SameRoom(u.body, t.body)
             /\ \A x \in Named :
                  t.part[<<x, "name">>] = "ok" => u.body.name[x] = t.body.name[x]
<1> DEFINE names == [x \in Named |-> IF <<x, "name">> \in Repaired(t) \cap Broken(t)
                                     THEN "default" ELSE t.body.name[x]]
           part == [p \in Parts |-> IF p \in Repaired(t) THEN "ok" ELSE t.part[p]]
           body == [t.body EXCEPT !.name = names, !.entries = @ + 1]
           u == [version |-> 1, part |-> part, body |-> body]
<1>1. t \in Texts /\ t.body \in Bodies /\ t.part \in [Parts -> Forms]
  BY DEF Fits, Texts
<1>2. u = FromV0(t)
  BY <1>1 DEF FromV0, Bodies
<1>3. part \in [Parts -> Forms]
  BY <1>1 DEF Forms
<1>4. names \in [Named -> Names]
  <2>1. t.body.name \in [Named -> Names]
    BY <1>1 DEF Bodies
  <2>2. QED
    BY <2>1 DEF Names
<1>5. /\ body \in Bodies /\ body.name = names
      /\ SameLists(body, t.body) /\ SameRoom(body, t.body)
  <2> HIDE DEF names
  <2>1. QED
    BY <1>1, <1>4, NameChanges
<1>6. \A x \in Named :
        names[x] = IF <<x, "name">> \in Repaired(t) \cap Broken(t) THEN "default"
                   ELSE t.body.name[x]
  OBVIOUS
<1>7. \A p \in Parts : part[p] = IF p \in Repaired(t) THEN "ok" ELSE t.part[p]
  OBVIOUS
<1> HIDE DEF names, part, body
<1>8. u \in Texts
  BY <1>3, <1>5 DEF Texts
<1>9. names["project"] # "empty"
  <2>1. ProjectName \in Repaired(t)
    BY DEF Repaired, ProjectName, ReadAsText, Dimensions, Geometry
  <2>2. CASE ProjectName \in Broken(t)
    BY <1>6, <2>1, <2>2 DEF ProjectName, Named
  <2>3. CASE ProjectName \notin Broken(t)
    <3>1. t.part[ProjectName] = "ok"
      BY <2>3, SomeParts DEF Broken
    <3>2. QED
      BY <1>6, <2>3, <3>1 DEF ProjectName, Named, Fits
  <2>4. QED
    BY <2>2, <2>3
<1>10. part[Dimensions] = t.part[Dimensions] /\ part[Geometry] = t.part[Geometry]
  BY <1>7, SomeParts DEF Repaired
<1>11. Fits(u)
  BY <1>5, <1>8, <1>9, <1>10 DEF Fits, Texts, SameLists, SameRoom
<1>12. ASSUME NEW x \in Named, t.part[<<x, "name">>] = "ok"
       PROVE  body.name[x] = t.body.name[x]
  BY <1>5, <1>6, <1>12 DEF Broken
<1>13. u # Refused
  BY DEF Refused
<1>14. QED
  BY <1>2, <1>5, <1>7, <1>11, <1>12, <1>13

\* The second step leaves a text of version 2 with a room, and with points in it where
\* it found none; a room and points that are sound stay.
LEMMA SecondStep ==
  ASSUME NEW t, Fits(t), t.part[<<"project">>] # "type"
  PROVE  LET u == FromV1(t)
         IN  /\ Fits(u) /\ u # Refused /\ u.version = 2
             /\ u.part[Dimensions] = "ok" /\ u.part[Geometry] = "ok"
             /\ \A p \in Parts : t.part[p] = "ok" => u.part[p] = "ok"
             /\ t.part[Root] = "ok" <=> u.part[Root] = "ok"
             /\ SameLists(u.body, t.body) /\ u.body.name = t.body.name
             /\ t.part[Dimensions] = "ok" => u.body.room = t.body.room
             /\ IF t.part[Geometry] = "ok"
                THEN u.body.center = t.body.center /\ u.body.listening = t.body.listening
                ELSE {u.body.center, u.body.listening} \subseteq 0 .. u.body.room
<1> DEFINE size == IF t.part[Dimensions] = "ok" THEN t.body.room ELSE Room
           Kept(p) == IF t.part[Geometry] = "ok" THEN p ELSE Middle(size)
           sound == {<<"engineVersion">>, <<"project">>, <<"venue">>, <<"scene">>,
                     Dimensions, Geometry, <<"auditLog">>}
                      \cup (IF t.part[<<"auditLog">>] = "ok" THEN {}
                            ELSE Below(<<"auditLog">>))
           Form(p) == IF p \in sound THEN "ok"
                      ELSE IF p = <<"project", "id">> /\ t.part[p] = "absent" THEN "type"
                      ELSE t.part[p]
           part == [p \in Parts |-> Form(p)]
           body == WithRoom(t.body, size, Kept(t.body.center), Kept(t.body.listening))
           u == [version |-> 2, part |-> part, body |-> body]
<1>1. t \in Texts /\ t.body \in Bodies /\ t.part \in [Parts -> Forms]
  BY DEF Fits, Texts
<1>2. u = FromV1(t)
  BY <1>1 DEF FromV1, Bodies, WithRoom
<1>3. part \in [Parts -> Forms]
  BY <1>1 DEF Forms
<1>4. size \in Nat \ {0} /\ t.body.center \in Int /\ t.body.listening \in Int
  BY <1>1, DocumentAssumption DEF Fits, Bodies
<1>5. Middle(size) \in 0 .. size
  BY <1>4 DEF Middle
<1> HIDE DEF size
<1>6. /\ Kept(t.body.center) \in Int /\ Kept(t.body.listening) \in Int
      /\ NotFinite \notin {Kept(t.body.center), Kept(t.body.listening)}
  BY <1>4, <1>5, DocumentAssumption DEF Fits
<1>7. /\ body \in Bodies /\ body.name = t.body.name /\ SameLists(body, t.body)
      /\ body.room = size /\ body.center = Kept(t.body.center)
      /\ body.listening = Kept(t.body.listening)
  <2> HIDE DEF Kept
  <2>1. size \in Int
    BY <1>4
  <2>2. IsWithRoom(body, t.body, size, Kept(t.body.center), Kept(t.body.listening))
    BY <1>1, <1>6, <2>1, RoomChanges
  <2>3. QED
    BY <2>2 DEF IsWithRoom
<1>8. /\ part[Dimensions] = "ok" /\ part[Geometry] = "ok"
      /\ \A p \in Parts : t.part[p] = "ok" => part[p] = "ok"
  BY SomeParts
<1>9. part[ProjectName] = "ok" => t.part[ProjectName] = "ok"
  <2>1. ProjectName \notin sound
    BY DEF ProjectName, Dimensions, Geometry, Below, IsStrictPrefix, IsPrefix
  <2>2. QED
    BY <2>1, SomeParts DEF ProjectName
<1>10. part[Root] = "ok" => t.part[Root] = "ok"
  <2>1. Root \notin sound
    BY DEF Root, Dimensions, Geometry, Below, IsStrictPrefix, IsPrefix
  <2>2. QED
    BY <2>1, SomeParts DEF Root
<1> HIDE DEF part, body
<1>11. u \in Texts
  BY <1>3, <1>7 DEF Texts
<1>12. Fits(u)
  BY <1>4, <1>6, <1>7, <1>9, <1>11 DEF Fits, Texts, SameLists, ProjectName
<1>13. u # Refused
  BY DEF Refused
<1>14. QED
  BY <1>2, <1>4, <1>5, <1>7, <1>8, <1>10, <1>12, <1>13, SomeParts DEF size

LEMMA StepMigrates ==
  ASSUME NEW t, Fits(t), t # Refused, NEW from \in Nat, MigrateStep(t, from) # Refused
  PROVE  LET u == MigrateStep(t, from)
         IN  /\ Fits(u) /\ u.version >= from + 1
             /\ t.part[Root] = "ok" => u.part[Root] = "ok"
<1>1. t.version \in Int
  BY DEF Fits
<1>2. CASE t.version >= from + 1
  BY <1>2 DEF MigrateStep
<1>3. CASE ~(t.version >= from + 1)
  <2>1. MigrateStep(t, from) = Step(t, from)
    BY <1>3 DEF MigrateStep
  <2>2. CASE from = 0
    <3>1. Step(t, from) = FromV0(t) /\ ~Throws(t)
      BY <2>1, <2>2 DEF Step, FromV0
    <3>2. QED
      BY <2>1, <2>2, <3>1, FirstStep, SomeParts
  <2>3. CASE from = 1
    <3>1. Step(t, from) = FromV1(t) /\ t.part[<<"project">>] # "type"
      BY <2>1, <2>3 DEF Step, FromV1
    <3>2. QED
      BY <2>1, <2>3, <3>1, SecondStep
  <2>4. CASE from \notin {0, 1}
    BY <2>1, <2>4 DEF Step
  <2>5. QED
    BY <2>2, <2>3, <2>4
<1>4. QED
  BY <1>2, <1>3

\* What a migration can come to.
Migratable(t) == Fits(t) /\ t.part[Root] = "ok"
Outcomes == {t \in Texts : Migratable(t)} \cup {Refused}
Stepped(t, from) == IF t = Refused THEN t ELSE MigrateStep(t, from)

LEMMA SteppedIsOutcome ==
  ASSUME NEW t \in Outcomes, NEW from \in Nat
  PROVE  Stepped(t, from) \in Outcomes
<1>1. CASE Stepped(t, from) = Refused
  BY <1>1 DEF Outcomes
<1>2. CASE Stepped(t, from) # Refused
  <2>1. t # Refused /\ Fits(t) /\ t.part[Root] = "ok" /\ Stepped(t, from) = MigrateStep(t, from)
    BY <1>2 DEF Stepped, Outcomes, Migratable
  <2>2. Migratable(Stepped(t, from))
    BY <1>2, <2>1, StepMigrates DEF Migratable
  <2>3. QED
    BY <2>2 DEF Outcomes, Migratable, Fits, Texts
<1>3. QED
  BY <1>1, <1>2

Migrates(after, t, from, n) ==
  /\ after \in [0 .. n -> Outcomes] /\ after[0] = t
  /\ \A k \in 1 .. n : after[k] = Stepped(after[k - 1], from + k - 1)

LEMMA MigratedUnrolls ==
  ASSUME NEW t, Migratable(t), NEW from \in Nat, NEW to \in Nat, from <= to
  PROVE  \E after : Migrates(after, t, from, to - from) /\ Migrated(t, from, to) = after[to - from]
<1> DEFINE n == to - from
           step == [k \in 1 .. n |-> [u \in Outcomes |-> Stepped(u, from + k - 1)]]
           IsAfter(f) ==
             f = [k \in 0 .. n |->
                    IF k = 0 THEN t
                    ELSE LET u == f[k - 1]
                         IN  IF u = Refused THEN u ELSE MigrateStep(u, from + k - 1)]
           after == CHOOSE f : IsAfter(f)
<1>1. n \in Nat
  OBVIOUS
<1>2. t \in Outcomes
  BY DEF Outcomes, Migratable, Fits, Texts
<1>3. step \in [1 .. n -> [Outcomes -> Outcomes]]
  <2> SUFFICES ASSUME NEW k \in 1 .. n, NEW u \in Outcomes
               PROVE  Stepped(u, from + k - 1) \in Outcomes
    OBVIOUS
  <2>1. from + k - 1 \in Nat
    BY <1>1
  <2> HIDE DEF n
  <2>2. QED
    BY <2>1, SteppedIsOutcome
<1>4. PICK f : Unrolls(f, t, step, n, Outcomes)
  <2> HIDE DEF step, n
  <2>1. QED
    BY <1>1, <1>2, <1>3, SomeUnrolls
<1>5. Migrates(f, t, from, n)
  <2>1. f \in [0 .. n -> Outcomes] /\ f[0] = t
    BY <1>4 DEF Unrolls
  <2>2. ASSUME NEW k \in 1 .. n PROVE f[k] = Stepped(f[k - 1], from + k - 1)
    <3>1. f[k - 1] \in Outcomes /\ f[k] = step[k][f[k - 1]]
      BY <1>1, <1>4, <2>1 DEF Unrolls
    <3>2. QED
      BY <3>1
  <2>3. QED
    BY <2>1, <2>2 DEF Migrates
<1>6. IsAfter(f)
  <2> DEFINE h == [k \in 0 .. n |->
                    IF k = 0 THEN t
                    ELSE LET u == f[k - 1]
                         IN  IF u = Refused THEN u ELSE MigrateStep(u, from + k - 1)]
  <2>1. f \in [0 .. n -> Outcomes] /\ f[0] = t
    BY <1>5 DEF Migrates
  <2>2. ASSUME NEW k \in 0 .. n PROVE f[k] = h[k]
    <3>1. CASE k = 0
      BY <2>1, <3>1
    <3>2. CASE k \in 1 .. n
      <4>1. f[k] = Stepped(f[k - 1], from + k - 1)
        BY <1>5, <3>2 DEF Migrates
      <4>2. QED
        BY <3>2, <4>1 DEF Stepped
    <3>3. QED
      BY <1>1, <3>1, <3>2
  <2>3. f = h
    <3>1. h = [k \in 0 .. n |-> h[k]]
      OBVIOUS
    <3> HIDE DEF h
    <3>2. f = [k \in 0 .. n |-> f[k]]
      BY <2>1
    <3>3. QED
      BY <2>2, <3>1, <3>2
  <2>4. QED
    BY <2>3
<1>7. IsAfter(after)
  <2> HIDE DEF IsAfter
  <2>1. QED
    BY <1>6
<1>8. after[n] = f[n]
  <2> HIDE DEF after
  <2>0. ASSUME NEW h, IsAfter(h)
        PROVE  h[0] = t /\ \A k \in 1 .. n : h[k] = Stepped(h[k - 1], from + k - 1)
    <3>1. \A k \in 0 .. n :
             h[k] = IF k = 0 THEN t
                    ELSE IF h[k - 1] = Refused THEN h[k - 1]
                    ELSE MigrateStep(h[k - 1], from + k - 1)
      BY <2>0, Zenon
    <3> HIDE DEF IsAfter
    <3>2. QED
      BY <1>1, <3>1 DEF Stepped
  <2> HIDE DEF IsAfter, n
  <2> DEFINE S == {k \in Nat : k <= n => after[k] = f[k]}
  <2>1. 0 \in S
    BY <1>6, <1>7, <2>0
  <2>2. ASSUME NEW k \in Nat, k \in S, k + 1 <= n PROVE after[k + 1] = f[k + 1]
    <3> DEFINE j == k + 1
    <3>1. j \in 1 .. n /\ after[j - 1] = f[j - 1]
      BY <1>1, <2>2
    <3> HIDE DEF j
    <3>2. after[j] = f[j]
      BY <1>6, <1>7, <2>0, <3>1
    <3>3. QED
      BY <3>2 DEF j
  <2> HIDE DEF S
  <2>3. Nat \subseteq S
    <3>1. \A k \in Nat : k \in S => k + 1 \in S
      BY <2>2 DEF S
    <3>2. QED
      BY <2>1, <3>1, GraphAssumed, Lemmas!NatInducts
  <2>4. QED
    BY <1>1, <2>3 DEF S
<1>9. Migrated(t, from, to) = after[n]
  BY DEF Migrated, Migratable
<1>10. QED
  BY <1>5, <1>8, <1>9

\* A text that has come through a migration fits, and has at least its version.
LEMMA MigratedFits ==
  ASSUME NEW t, Fits(t), NEW from \in Nat, NEW to \in Nat, Migrated(t, from, to) # Refused
  PROVE  LET u == Migrated(t, from, to)
         IN  Fits(u) /\ u.part[Root] = "ok" /\ (from < to => u.version >= to)
<1>1. Migratable(t) /\ from <= to
  BY DEF Migrated, Migratable
<1>2. PICK after : /\ Migrates(after, t, from, to - from)
                   /\ Migrated(t, from, to) = after[to - from]
  BY <1>1, MigratedUnrolls
<1>3. after[to - from] \in Outcomes /\ after[to - from] # Refused
  BY <1>1, <1>2 DEF Migrates
<1>4. Migratable(after[to - from])
  BY <1>3 DEF Outcomes
<1>5. ASSUME from < to PROVE after[to - from].version >= to
  <2> DEFINE u == after[(to - from) - 1]
  <2>1. to - from \in 1 .. to - from /\ from + (to - from) - 1 = to - 1 /\ to - 1 \in Nat
    BY <1>5
  <2>2. u \in Outcomes /\ after[to - from] = Stepped(u, to - 1)
    BY <1>2, <2>1 DEF Migrates
  <2> HIDE DEF u
  <2>3. u # Refused /\ Fits(u) /\ after[to - from] = MigrateStep(u, to - 1)
    BY <1>3, <2>2 DEF Stepped, Outcomes, Migratable
  <2>4. after[to - from].version >= (to - 1) + 1
    BY <1>3, <2>1, <2>3, StepMigrates
  <2>5. QED
    BY <2>4
<1>6. QED
  BY <1>2, <1>4, <1>5 DEF Migratable

\* And is left alone by a further one that goes no further.
LEMMA MigratedStays ==
  ASSUME NEW t, Migratable(t), NEW from \in Nat, NEW to \in Nat, from <= to, t.version >= to
  PROVE  Migrated(t, from, to) = t
<1> DEFINE n == to - from
<1>1. PICK after : Migrates(after, t, from, n) /\ Migrated(t, from, to) = after[n]
  BY MigratedUnrolls
<1>2. n \in Nat /\ t.version \in Int
  BY DEF Migratable, Fits
<1> DEFINE S == {k \in Nat : k <= n => after[k] = t}
<1>3. 0 \in S
  BY <1>1 DEF Migrates
<1>4. ASSUME NEW k \in Nat, k \in S, k + 1 <= n PROVE after[k + 1] = t
  <2> DEFINE j == k + 1
  <2>1. j \in 1 .. n /\ after[j - 1] = t /\ t.version >= (from + j - 1) + 1
    BY <1>2, <1>4
  <2> HIDE DEF j, n
  <2>2. after[j] = Stepped(t, from + j - 1)
    BY <1>1, <2>1 DEF Migrates
  <2>3. after[j] = t
    BY <2>1, <2>2 DEF Stepped, MigrateStep
  <2>4. QED
    BY <2>3 DEF j
<1> HIDE DEF S, n
<1>5. Nat \subseteq S
  <2>1. \A k \in Nat : k \in S => k + 1 \in S
    BY <1>4 DEF S
  <2>2. QED
    BY <1>3, <2>1, GraphAssumed, Lemmas!NatInducts
<1>6. QED
  BY <1>1, <1>2, <1>5 DEF S

-----------------------------------------------------------------------------
(***************************************************************************)
(* Reading and writing.                                                    *)
(***************************************************************************)

\* The edges lead from node to node and close no cycle.
EdgesFit(kinds, E) ==
  \A e \in E : /\ kinds[e.from] # Absent /\ kinds[e.to] # Absent
               /\ e.from \notin Reached(E, {e.to})

\* A document that can be written and read again.
Sane(d) ==
  /\ d \in Bodies
  /\ d.name["project"] # "empty" /\ d.room > 0 /\ NotFinite \notin {d.center, d.listening}
  /\ \A n \in Nodes : d.kind[n] = Absent => d.ref[n] = NoRef
  /\ EdgesFit(d.kind, Range(d.edges))

LEMMA OpenedIsSane ==
  ASSUME NEW t, Fits(t), Opened(t) # Refused
  PROVE  Fits(Opened(t)) /\ Valid(Opened(t)) /\ Sane(Opened(t).body)
<1> DEFINE u == Opened(t)
<1>1. Fits(u) /\ Valid(u)
  <2>1. CASE t.version \in 0 .. Version - 1
    <3>1. u = Migrated(t, t.version, Version) /\ u # Refused /\ Valid(u)
      BY <2>1 DEF Opened
    <3>2. t.version \in Nat /\ Version \in Nat
      BY <2>1 DEF Version
    <3>3. QED
      BY <3>1, <3>2, MigratedFits
  <2>2. CASE t.version \notin 0 .. Version - 1
    BY <2>2 DEF Opened
  <2>3. QED
    BY <2>1, <2>2
<1> HIDE DEF u
<1>2. /\ u.part[ProjectName] = "ok" /\ u.part[Dimensions] = "ok"
      /\ u.part[Geometry] = "ok"
  <2>1. ProjectName # Root /\ Dimensions # Root /\ Geometry # Root
    BY DEF ProjectName, Dimensions, Geometry, Root
  <2>2. ProjectName[1] = "project" /\ Dimensions[1] = "venue" /\ Geometry[1] = "scene"
    BY DEF ProjectName, Dimensions, Geometry
  <2>3. Sound(u, {"unknown", "engineVersion", "project"}) /\ Sound(u, {"venue", "scene"})
    BY <1>1 DEF Valid, HeadValid, RoomValid
  <2>4. QED
    BY <2>1, <2>2, <2>3, SomeParts DEF Sound, Broken
<1>3. u.body \in Bodies
  BY <1>1 DEF Fits
<1>4. EdgesFit(u.body.kind, Range(u.body.edges))
  BY <1>1 DEF Valid, EdgesValid, EdgesFit
<1>5. QED
  BY <1>1, <1>2, <1>3, <1>4 DEF Sane, Fits, u, ProjectName

\* Two edges with the same ends.
SameEnds(e, f) == e.from = f.from /\ e.to = f.to

\* A walk sees only the ends of edges.
LEMMA SameWalks ==
  ASSUME NEW E, NEW F, NEW S,
         \A e \in E : \E f \in F : SameEnds(e, f), \A f \in F : \E e \in E : SameEnds(e, f)
  PROVE  Reached(E, S) = Reached(F, S)
<1>1. \A T \in SUBSET Nodes : Closed(E, T) <=> Closed(F, T)
  BY DEF Closed, SameEnds
<1>2. QED
  BY <1>1 DEF Reached

Portless(e) == [e EXCEPT !.fromPort = 0, !.toPort = 0]
PortlessList(list) == [i \in DOMAIN list |-> Portless(list[i])]

LEMMA PortlessEdge ==
  ASSUME NEW e \in Graph!Edges
  PROVE  Portless(e) \in Graph!Edges /\ SameEnds(e, Portless(e))
<1>1. [e EXCEPT !.fromPort = 0] \in Graph!Edges
  BY DocumentAssumption DEF Graph!Edges
<1> DEFINE f == [e EXCEPT !.fromPort = 0]
<1>2. Portless(e) = [f EXCEPT !.toPort = 0]
  BY DEF Portless
<1>3. Portless(e) \in Graph!Edges
  <2> HIDE DEF f
  <2>1. f \in Graph!Edges
    BY <1>1 DEF f
  <2>2. QED
    BY <1>2, <2>1, DocumentAssumption DEF Graph!Edges
<1>4. QED
  BY <1>3 DEF Graph!Edges, SameEnds, Portless

LEMMA PortlessEdges ==
  ASSUME NEW list \in Seq(Graph!Edges)
  PROVE  LET new == PortlessList(list)
         IN  /\ new \in Seq(Graph!Edges) /\ DOMAIN new = DOMAIN list
             /\ \A i \in DOMAIN list : SameEnds(list[i], new[i])
             /\ \A e \in Range(list) : \E f \in Range(new) : SameEnds(e, f)
             /\ \A f \in Range(new) : \E e \in Range(list) : SameEnds(e, f)
             /\ \A S : Reached(Range(new), S) = Reached(Range(list), S)
<1> DEFINE new == PortlessList(list)
<1>1. \A i \in 1 .. Len(list) : list[i] \in Graph!Edges
  OBVIOUS
<1>2. /\ \A i \in 1 .. Len(list) : new[i] \in Graph!Edges /\ SameEnds(list[i], new[i])
      /\ new = [i \in 1 .. Len(list) |-> new[i]]
  BY <1>1, PortlessEdge DEF PortlessList
<1> HIDE DEF new
<1>3. new \in Seq(Graph!Edges) /\ DOMAIN new = DOMAIN list /\ DOMAIN list = 1 .. Len(list)
  BY <1>2
<1>4. /\ \A e \in Range(list) : \E f \in Range(new) : SameEnds(e, f)
      /\ \A f \in Range(new) : \E e \in Range(list) : SameEnds(e, f)
  BY <1>2, <1>3 DEF Range
<1>5. ASSUME NEW S PROVE Reached(Range(list), S) = Reached(Range(new), S)
  BY <1>4, SameWalks
<1>6. QED
  BY <1>2, <1>3, <1>4, <1>5 DEF new

\* What is written of a document: all but the ports of the edges, and the bytes of a
\* name that are not UTF-8.
Written(b, d) ==
  /\ b.kind = d.kind /\ b.edges = PortlessList(d.edges)
  /\ b.muted = d.muted /\ b.soloed = d.soloed /\ b.ref = d.ref /\ b.presets = d.presets
  /\ b.entries = d.entries /\ SameRoom(b, d)
  /\ \A x \in Named : b.name[x] = Replaced(d.name[x])

LEMMA EncodedIsWritten ==
  ASSUME NEW d, Sane(d)
  PROVE  LET u == Encoded(d)
         IN  /\ u.version = Version /\ \A p \in Parts : u.part[p] = "ok"
             /\ Fits(u) /\ Sane(u.body) /\ Written(u.body, d)
<1> DEFINE names == [x \in Named |-> Replaced(d.name[x])]
           Form(p) == CASE p = Root /\ "malformed" \in Range(names) -> "content"
                        [] p = <<"project", "name">> /\ d.name["project"] = "empty" -> "content"
                        [] p = Dimensions /\ d.room = NotFinite -> "content"
                        [] p = Geometry /\ NotFinite \in {d.center, d.listening} -> "content"
                        [] OTHER -> "ok"
           part == [p \in Parts |-> Form(p)]
           body == [d EXCEPT !.name = names, !.edges = PortlessList(@)]
           u == [version |-> Version, part |-> part, body |-> body]
<1>1. /\ d \in Bodies /\ d.name \in [Named -> Names] /\ d.edges \in Seq(Graph!Edges)
      /\ d.room > 0 /\ d.room \in Int
  BY DEF Sane, Bodies
<1>2. u = Encoded(d)
  BY DEF Encoded, PortlessList, Portless
<1>3. names \in [Named -> Names] /\ "malformed" \notin Range(names)
  BY <1>1 DEF Names, Replaced, Range
<1>4. \A p \in Parts : part[p] = "ok"
  <2>1. d.room # NotFinite /\ NotFinite \notin {d.center, d.listening}
    BY <1>1, DocumentAssumption DEF Sane
  <2>2. d.name["project"] # "empty"
    BY DEF Sane
  <2> HIDE DEF names
  <2>3. QED
    BY <1>3, <2>1, <2>2
<1>5. part \in [Parts -> Forms]
  <2> HIDE DEF Form
  <2>1. QED
    BY <1>4 DEF Forms
<1> HIDE DEF part
<1>6. /\ PortlessList(d.edges) \in Seq(Graph!Edges)
      /\ \A e \in Range(PortlessList(d.edges)) : \E f \in Range(d.edges) : SameEnds(f, e)
      /\ \A S : Reached(Range(PortlessList(d.edges)), S) = Reached(Range(d.edges), S)
  <2>1. LET new == PortlessList(d.edges)
        IN  /\ new \in Seq(Graph!Edges)
            /\ \A e \in Range(d.edges) : \E f \in Range(new) : SameEnds(e, f)
            /\ \A f \in Range(new) : \E e \in Range(d.edges) : SameEnds(e, f)
            /\ \A S : Reached(Range(new), S) = Reached(Range(d.edges), S)
    BY <1>1, PortlessEdges
  <2>2. QED
    BY <2>1
<1>7. body \in Bodies
  <2> DEFINE a == [d EXCEPT !.name = names]
  <2>1. body = [a EXCEPT !.edges = PortlessList(d.edges)]
    BY <1>1 DEF Bodies
  <2>2. a \in Bodies
    BY <1>1, <1>3, FieldsChange
  <2> HIDE DEF a
  <2>3. QED
    BY <1>6, <2>1, <2>2, FieldsChange
<1>8. /\ body.kind = d.kind /\ body.edges = PortlessList(d.edges) /\ body.muted = d.muted
      /\ body.soloed = d.soloed
  BY <1>1 DEF Bodies
<1>9. /\ body.ref = d.ref /\ body.presets = d.presets /\ body.entries = d.entries
      /\ body.room = d.room
  BY <1>1 DEF Bodies
<1>10. body.center = d.center /\ body.listening = d.listening /\ body.name = names
  BY <1>1 DEF Bodies
<1>11. Written(body, d)
  BY <1>8, <1>9, <1>10 DEF Written, SameRoom
<1> HIDE DEF body
<1>12. EdgesFit(body.kind, Range(body.edges))
  BY <1>6, <1>8 DEF Sane, EdgesFit, SameEnds
<1>13. names["project"] # "empty"
  BY DEF Sane, Named, Replaced
<1>14. Sane(body)
  BY <1>7, <1>8, <1>9, <1>10, <1>12, <1>13 DEF Sane
<1> HIDE DEF names
<1>15. Fits(u)
  <2>1. u \in Texts
    BY <1>5, <1>7 DEF Texts, Version
  <2>2. QED
    BY <1>14, <2>1 DEF Fits, Texts, Sane
<1>16. QED
  BY <1>2, <1>4, <1>11, <1>14, <1>15

\* A document that is sane is read again as it was written.
LEMMA EncodedIsRead ==
  ASSUME NEW d, Sane(d)
  PROVE  Opened(Encoded(d)) = Encoded(d) /\ Valid(Encoded(d)) /\ Encoded(d) # Refused
<1> DEFINE u == Encoded(d)
<1>1. /\ u.version = Version /\ \A p \in Parts : u.part[p] = "ok"
      /\ Fits(u) /\ Sane(u.body)
  BY EncodedIsWritten
<1> HIDE DEF u
<1>2. Broken(u) = {}
  BY <1>1 DEF Broken
<1>3. EdgesValid(u)
  BY <1>1 DEF Sane, EdgesFit, EdgesValid
<1>4. Valid(u) /\ Decodes(u)
  BY <1>1, <1>2, <1>3, SomeParts DEF Valid, HeadValid, RoomValid, NodesValid, MixersValid, ListsValid,
     Sound, Decodes
<1>5. u # Refused
  <2>1. "version" \in DOMAIN u /\ "version" \notin DOMAIN Refused
    BY <1>1 DEF Fits, Refused
  <2>2. QED
    BY <2>1
<1>6. u.version \notin 0 .. Version - 1
  BY <1>1 DEF Version
<1>7. QED
  BY <1>4, <1>5, <1>6 DEF Opened, u

-----------------------------------------------------------------------------
(***************************************************************************)
(* The invariant.                                                          *)
(***************************************************************************)

\* The document is sane, also while no project is open.
DocSane ==
  /\ kind \in [Nodes -> Kinds \cup {Absent}] /\ edgeList \in Seq(Graph!Edges)
  /\ muted \in SUBSET Nodes /\ soloed \in SUBSET Nodes
  /\ ref \in [Nodes -> Refs] /\ presets \in SUBSET STRING
  /\ room \in Int /\ center \in Int /\ listening \in Int
  /\ name \in [Named -> Names] /\ entries \in Nat
  /\ name["project"] # "empty" /\ room > 0 /\ NotFinite \notin {center, listening}
  /\ \A n \in Nodes : kind[n] = Absent => ref[n] = NoRef
  /\ EdgesFit(kind, Range(edgeList))

\* The problems that a document can be read with.
Dangles(d) == \E n \in Nodes : d.kind[n] # Absent /\ d.ref[n] \notin d.presets \cup {NoRef}
Within(p, size) == 0 <= p /\ p <= size
Outside(d) == ~(Within(d.center, d.room) /\ Within(d.listening, d.room))
Misrouted(d) == \E e \in Range(d.edges) : d.kind[e.to] = "source" \/ d.kind[e.from] = "output"

Readable == {"reference", "geometry", "routing"}

\* No problem of a document is unknown.
Known(d, problems) ==
  /\ problems \subseteq Readable
  /\ Dangles(d) => "reference" \in problems
  /\ Outside(d) => "geometry" \in problems
  /\ Misrouted(d) => "routing" \in problems

\* The text in hand is one that can have come about.
TextFits ==
  /\ text # NoText => Fits(text)
  /\ origin = "foreign" => text \in Foreign
  /\ origin = "saved" => /\ text = Encoded(saved.doc) /\ Sane(saved.doc)
                         /\ Known(saved.doc, saved.legacy)

Control ==
  /\ open \in BOOLEAN /\ edits \in 0 .. MaxEdits
  /\ origin \in {"none", "foreign", "migrated", "saved", "read"}

IInv == Control /\ DocSane /\ TextFits /\ (open => Known(doc, legacy))

LEMMA DocIsSane == DocSane => Sane(doc)
<1> SUFFICES ASSUME DocSane PROVE Sane(doc)
  OBVIOUS
<1>1. doc \in Bodies
  BY DEF DocSane, doc, Bodies
<1>2. QED
  BY <1>1 DEF DocSane, doc, Sane

LEMMA DocIsSaneNext == DocSane' => Sane(doc)'
<1> SUFFICES ASSUME DocSane' PROVE Sane(doc')
  OBVIOUS
<1>1. doc' \in Bodies
  BY DEF DocSane, doc, Bodies
<1>2. QED
  BY <1>1 DEF DocSane, doc, Sane

\* The two reports together, of a document, without the nodes that no source reaches.
ProblemsOf(d) ==
  {x \in {"schema", "reference", "geometry", "cycle", "routing"} :
     \/ x = "schema" /\ ~Valid(Encoded(d))
     \/ x = "reference" /\ Dangles(d)
     \/ x = "geometry" /\ Outside(d)
     \/ x = "cycle" /\ \E e \in Range(d.edges) : e.from \in Reached(Range(d.edges), {e.to})
     \/ x = "routing" /\ Misrouted(d)}

LEMMA GraphReaches ==
  /\ \A E, S : Graph!Reached(E, S) = Reached(E, S)
  /\ \A E, S : Lemmas!Reached(E, S) = Reached(E, S)
BY DEF Graph!Reached, Lemmas!Reached, Reached, Graph!Closed, Lemmas!Closed, Closed

LEMMA ProblemsAreOf == Problems = ProblemsOf(doc)
<1>1. Graph!Acyclic <=> ~\E e \in Range(edgeList) : e.from \in Reached(Range(edgeList), {e.to})
  BY GraphReaches DEF Graph!Acyclic, Graph!CanReach
<1>2. DanglingRefs # {} <=> Dangles(doc)
  BY DEF DanglingRefs, Dangles, doc, Graph!Present, Graph!Absent, Absent
<1>3. ~(Inside(center) /\ Inside(listening)) <=> Outside(doc)
  BY DEF Inside, Outside, Within, doc
<1>4. (\E e \in Range(edgeList) : kind[e.to] = "source" \/ kind[e.from] = "output")
        <=> Misrouted(doc)
  BY DEF Misrouted, doc
<1>5. doc.edges = edgeList
  BY DEF doc
<1>6. QED
  BY <1>1, <1>2, <1>3, <1>4, <1>5, Zenon
     DEF Problems, HealthProblems, GraphProblems, ProblemsOf

LEMMA ProblemsAreOfNext == Problems' = ProblemsOf(doc')
<1>1. Graph!Acyclic'
        <=> ~\E e \in Range(edgeList') : e.from \in Reached(Range(edgeList'), {e.to})
  BY GraphReaches DEF Graph!Acyclic, Graph!CanReach
<1>2. (DanglingRefs # {})' <=> Dangles(doc')
  BY DEF DanglingRefs, Dangles, doc, Graph!Present, Graph!Absent, Absent
<1>3. ~(Inside(center) /\ Inside(listening))' <=> Outside(doc')
  BY DEF Inside, Outside, Within, doc
<1>4. (\E e \in Range(edgeList) : kind[e.to] = "source" \/ kind[e.from] = "output")'
        <=> Misrouted(doc')
  BY DEF Misrouted, doc
<1>5. doc'.edges = edgeList'
  BY DEF doc
<1>6. QED
  BY <1>1, <1>2, <1>3, <1>4, <1>5, Zenon
     DEF Problems, HealthProblems, GraphProblems, ProblemsOf

\* A sane document has no other problems than it can be read with.
LEMMA SaneProblems ==
  ASSUME NEW d, Sane(d)
  PROVE  /\ ProblemsOf(d) \subseteq Readable
         /\ \A problems : Known(d, problems) =>
               ProblemsOf(d) \subseteq problems /\ problems \subseteq Readable
         /\ Known(d, ProblemsOf(d))
<1>1. Valid(Encoded(d))
  BY EncodedIsRead
<1>2. ~\E e \in Range(d.edges) : e.from \in Reached(Range(d.edges), {e.to})
  BY DEF Sane, EdgesFit
<1>3. ProblemsOf(d) \subseteq Readable
  BY <1>1, <1>2 DEF ProblemsOf, Readable
<1>4. ASSUME NEW problems, Known(d, problems) PROVE ProblemsOf(d) \subseteq problems
  BY <1>1, <1>2, <1>4 DEF ProblemsOf, Known
<1>5. Known(d, ProblemsOf(d))
  BY <1>3 DEF Known, ProblemsOf
<1>6. QED
  BY <1>3, <1>4, <1>5 DEF Known

-----------------------------------------------------------------------------
(***************************************************************************)
(* Every step keeps the invariant.                                         *)
(***************************************************************************)

LEMMA FewerFit ==
  ASSUME NEW kinds, NEW E \in SUBSET Graph!Edges, EdgesFit(kinds, E), NEW F \in SUBSET E
  PROVE  EdgesFit(kinds, F)
<1> SUFFICES ASSUME NEW e \in F PROVE e.from \notin Reached(F, {e.to})
  BY DEF EdgesFit
<1>1. e.from \in Nodes /\ e.from \notin Reached(E, {e.to})
  BY DEF EdgesFit, Graph!Edges
<1>2. e.from \notin Lemmas!Reached(F, {e.to})
  BY <1>1, GraphReaches, GraphAssumed, Lemmas!FewerEdges
<1>3. QED
  BY <1>2, GraphReaches

LEMMA MoreFit ==
  ASSUME NEW kinds, NEW E \in SUBSET Graph!Edges, EdgesFit(kinds, E), NEW new \in Graph!Edges,
         kinds[new.from] # Absent, kinds[new.to] # Absent, new.from # new.to,
         new.from \notin Reached(E, {new.to})
  PROVE  EdgesFit(kinds, E \cup {new})
<1> SUFFICES ASSUME NEW e \in E \cup {new} PROVE e.from \notin Reached(E \cup {new}, {e.to})
  BY DEF EdgesFit
<1>1. e.from \notin Reached(E, {e.to})
  BY DEF EdgesFit
<1>2. Graph!Edges = Lemmas!Edges
  BY DEF Graph!Edges, Lemmas!Edges
<1>3. e.from \notin Lemmas!Reached(E \cup {new}, {e.to})
  <2> HIDE DEF Graph!Edges, Lemmas!Edges
  <2>1. E \in SUBSET Lemmas!Edges /\ new \in Lemmas!Edges
    BY <1>2
  <2>2. new.from \notin Lemmas!Reached(E, {new.to}) /\ e.from \notin Lemmas!Reached(E, {e.to})
    BY <1>1, GraphReaches
  <2>3. QED
    BY <2>1, <2>2, GraphAssumed, Lemmas!NewEdgeOffCycles
<1>4. QED
  BY <1>3, GraphReaches

LEMMA MinMax ==
  ASSUME NEW a \in Int, NEW b \in Int
  PROVE  /\ Min({a, b}) = IF a <= b THEN a ELSE b
         /\ Max({a, b}) = IF a <= b THEN b ELSE a
<1>1. Min({a, b}) = IF a <= b THEN a ELSE b
  <2> DEFINE m == IF a <= b THEN a ELSE b
  <2>1. m \in {a, b} /\ \A y \in {a, b} : m =< y
    OBVIOUS
  <2>2. Min({a, b}) \in {a, b} /\ \A y \in {a, b} : Min({a, b}) =< y
    BY <2>1, Zenon DEF Min
  <2>3. QED
    BY <2>2
<1>2. Max({a, b}) = IF a <= b THEN b ELSE a
  <2> DEFINE m == IF a <= b THEN b ELSE a
  <2>1. m \in {a, b} /\ \A y \in {a, b} : m >= y
    OBVIOUS
  <2>2. Max({a, b}) \in {a, b} /\ \A y \in {a, b} : Max({a, b}) >= y
    BY <2>1, Zenon DEF Max
  <2>3. QED
    BY <2>2
<1>3. QED
  BY <1>1, <1>2

LEMMA ClampIsWithin ==
  ASSUME NEW p \in Int, NEW size \in Int, size > 0
  PROVE  Clamp(p, size) \in Int /\ Within(Clamp(p, size), size) /\ Clamp(p, size) # NotFinite
<1> DEFINE m == Min({p, size})
<1>1. m \in Int /\ m <= size
  BY MinMax
<1> HIDE DEF m
<1>2. Max({0, m}) \in 0 .. size
  <2>1. Max({0, m}) = IF 0 <= m THEN m ELSE 0
    BY <1>1, MinMax
  <2>2. QED
    BY <1>1, <2>1
<1>3. Clamp(p, size) = Max({0, m})
  BY DEF Clamp, m
<1>4. QED
  BY <1>2, <1>3, DocumentAssumption DEF Within

\* What an edit leaves of the log, and of what it does not touch.
LEMMA AuditKeeps ==
  ASSUME DocSane, UserAudit, edits \in 0 .. MaxEdits
  PROVE  /\ open /\ open' = open /\ edits' \in 0 .. MaxEdits /\ entries' \in Nat
         /\ presets' = presets /\ text' = text /\ origin' = origin /\ saved' = saved
<1>1. entries + 1 \in Nat /\ MaxEntries \in Nat /\ MaxEdits \in Nat
  BY DocumentAssumption DEF DocSane
<1>2. Min({entries + 1, MaxEntries}) \in Nat
  BY <1>1, MinMax
<1>3. QED
  BY <1>1, <1>2 DEF UserAudit, textVars

\* The edits of the rest of the document.
LEMMA SettersInd ==
  ASSUME DocSane, Known(doc, legacy), edits \in 0 .. MaxEdits,
         \/ \E x \in Named, title \in Titles : Rename(x, title)
         \/ \E size \in Lengths : SetDimensions(size)
         \/ \E c, l \in Lengths : SetGeometry(c, l)
  PROVE  DocSane' /\ Known(doc, legacy)'
<1>1. ASSUME NEW x \in Named, NEW title \in Titles, Rename(x, title)
      PROVE  DocSane' /\ Known(doc, legacy)'
  <2>1. /\ UserAudit /\ title # "empty" /\ name' = [name EXCEPT ![x] = title]
        /\ kind' = kind /\ edgeList' = edgeList /\ muted' = muted /\ soloed' = soloed
        /\ ref' = ref /\ room' = room /\ center' = center /\ listening' = listening
        /\ legacy' = legacy
    BY <1>1 DEF Rename, graphVars, roomVars
  <2>2. entries' \in Nat /\ presets' = presets
    BY <2>1, AuditKeeps
  <2>3. name' \in [Named -> Names] /\ name'["project"] # "empty"
    BY <2>1, DocumentAssumption DEF DocSane, Names
  <2>4. DocSane'
    BY <2>1, <2>2, <2>3 DEF DocSane
  <2>5. Known(doc, legacy)'
    BY <2>1, <2>2 DEF Known, Dangles, Outside, Misrouted, doc
  <2>6. QED
    BY <2>4, <2>5
<1>2. ASSUME NEW size \in Lengths, SetDimensions(size)
      PROVE  DocSane' /\ Known(doc, legacy)'
  <2>1. /\ UserAudit /\ size > 0 /\ room' = size
        /\ center' = Clamp(center, size) /\ listening' = Clamp(listening, size)
        /\ legacy' = legacy \ {"geometry"}
        /\ kind' = kind /\ edgeList' = edgeList /\ muted' = muted /\ soloed' = soloed
        /\ ref' = ref /\ name' = name
    BY <1>2 DEF SetDimensions, graphVars
  <2>2. entries' \in Nat /\ presets' = presets
    BY <2>1, AuditKeeps
  <2>3. /\ room' \in Int /\ center' \in Int /\ listening' \in Int
        /\ NotFinite \notin {center', listening'}
        /\ Within(center', room') /\ Within(listening', room')
    BY <2>1, ClampIsWithin, DocumentAssumption DEF DocSane
  <2>4. DocSane'
    BY <2>1, <2>2, <2>3 DEF DocSane
  <2>5. ~Outside(doc')
    BY <2>3 DEF Outside, doc
  <2>6. Known(doc, legacy)'
    BY <2>1, <2>2, <2>5 DEF Known, Dangles, Misrouted, doc
  <2>7. QED
    BY <2>4, <2>6
<1>3. ASSUME NEW c \in Lengths, NEW l \in Lengths, SetGeometry(c, l)
      PROVE  DocSane' /\ Known(doc, legacy)'
  <2>1. /\ UserAudit /\ NotFinite \notin {c, l} /\ Inside(c) /\ Inside(l)
        /\ center' = c /\ listening' = l /\ legacy' = legacy \ {"geometry"}
        /\ kind' = kind /\ edgeList' = edgeList /\ muted' = muted /\ soloed' = soloed
        /\ ref' = ref /\ room' = room /\ name' = name
    BY <1>3 DEF SetGeometry, graphVars
  <2>2. entries' \in Nat /\ presets' = presets
    BY <2>1, AuditKeeps
  <2>3. DocSane'
    BY <2>1, <2>2, DocumentAssumption DEF DocSane
  <2>4. ~Outside(doc')
    BY <2>1 DEF Outside, Within, Inside, doc
  <2>5. Known(doc, legacy)'
    BY <2>1, <2>2, <2>4 DEF Known, Dangles, Misrouted, doc
  <2>6. QED
    BY <2>3, <2>5
<1>4. QED
  BY <1>1, <1>2, <1>3

\* The edits of the graph.
EdgesStay ==
  /\ edgeList' \in Seq(Graph!Edges) /\ EdgesFit(kind', Range(edgeList'))
  /\ Misrouted(doc') => Misrouted(doc)

\* The edges of the document are edges between nodes.
LEMMA EdgesOfDoc ==
  ASSUME DocSane
  PROVE  /\ Range(edgeList) \in SUBSET Graph!Edges
         /\ \A e \in Range(edgeList) : /\ e.from \in Nodes /\ e.to \in Nodes
                                       /\ kind[e.from] # Absent /\ kind[e.to] # Absent
<1>1. Range(edgeList) \in SUBSET Graph!Edges
  BY RangeIsElements DEF DocSane
<1>2. \A e \in Graph!Edges : e.from \in Nodes /\ e.to \in Nodes
  BY DEF Graph!Edges
<1>3. QED
  BY <1>1, <1>2 DEF DocSane, EdgesFit

LEMMA GraphEditKeeps ==
  ASSUME DocSane, Known(doc, legacy), edits \in 0 .. MaxEdits, EditGraph, EdgesStay,
         kind' \in [Nodes -> Kinds \cup {Absent}], ref' \in [Nodes -> Refs],
         muted' \in SUBSET Nodes, soloed' \in SUBSET Nodes,
         \A n \in Nodes : kind'[n] = Absent => ref'[n] = NoRef,
         \A n \in Nodes : \/ ref'[n] \in presets \cup {NoRef}
                          \/ kind[n] # Absent /\ ref'[n] = ref[n]
  PROVE  DocSane' /\ Known(doc, legacy)'
<1>1. /\ entries' \in Nat /\ presets' = presets /\ room' = room /\ center' = center
      /\ listening' = listening /\ name' = name /\ legacy' = legacy
  BY AuditKeeps DEF EditGraph, roomVars
<1>2. DocSane'
  BY <1>1 DEF DocSane, EdgesStay
<1>3. Dangles(doc') => Dangles(doc)
  BY <1>1 DEF Dangles, doc
<1>4. Outside(doc') => Outside(doc)
  BY <1>1 DEF Outside, doc
<1>5. Known(doc', legacy')
  BY <1>1, <1>3, <1>4 DEF Known, EdgesStay
<1>6. QED
  BY <1>2, <1>5

LEMMA AddNodeInd ==
  ASSUME DocSane, Known(doc, legacy), edits \in 0 .. MaxEdits,
         NEW n \in Nodes, NEW k, AddNode(n, k)
  PROVE  DocSane' /\ Known(doc, legacy)'
<1>1. /\ EditGraph /\ edgeList' = edgeList /\ ref' = ref
      /\ k \in Kinds /\ kind[n] = Absent /\ kind' = [kind EXCEPT ![n] = k]
      /\ muted' = muted /\ soloed' = soloed
  BY DEF AddNode, Graph!AddNode, Graph!Absent, Absent
<1>2. k # Absent
  BY <1>1, DocumentAssumption DEF Absent
<1>3. /\ kind' \in [Nodes -> Kinds \cup {Absent}] /\ kind'[n] = k
      /\ \A m \in Nodes \ {n} : kind'[m] = kind[m]
  BY <1>1 DEF DocSane
<1>4. \A m \in Nodes : kind[m] # Absent => kind'[m] = kind[m]
  BY <1>1, <1>3
<1>5. \A e \in Range(edgeList) :
        e.from \in Nodes /\ e.to \in Nodes /\ kind[e.from] # Absent /\ kind[e.to] # Absent
  BY EdgesOfDoc
<1>6. EdgesFit(kind', Range(edgeList'))
  BY <1>1, <1>4, <1>5 DEF DocSane, EdgesFit
<1>7. Misrouted(doc') => Misrouted(doc)
  BY <1>1, <1>4, <1>5 DEF Misrouted, doc
<1>8. EdgesStay
  BY <1>1, <1>6, <1>7 DEF EdgesStay, DocSane
<1>9. /\ \A m \in Nodes : kind'[m] = Absent => ref'[m] = NoRef
      /\ \A m \in Nodes : \/ ref'[m] \in presets \cup {NoRef}
                          \/ kind[m] # Absent /\ ref'[m] = ref[m]
  BY <1>1, <1>2, <1>3 DEF DocSane
<1>10. muted' \in SUBSET Nodes /\ soloed' \in SUBSET Nodes /\ ref' \in [Nodes -> Refs]
  BY <1>1 DEF DocSane
<1>11. QED
  BY <1>1, <1>3, <1>8, <1>9, <1>10, GraphEditKeeps

LEMMA RemoveNodeInd ==
  ASSUME DocSane, Known(doc, legacy), edits \in 0 .. MaxEdits, NEW n \in Nodes, RemoveNode(n)
  PROVE  DocSane' /\ Known(doc, legacy)'
<1>1. /\ EditGraph /\ edgeList' = Detached(edgeList, n) /\ ref' = [ref EXCEPT ![n] = NoRef]
      /\ kind' = [kind EXCEPT ![n] = Absent]
      /\ Range(edgeList') = {e \in Range(edgeList) : e.from # n /\ e.to # n}
      /\ muted' = muted \ {n} /\ soloed' = soloed \ {n}
  BY DEF RemoveNode, Graph!RemoveNode, Graph!Absent, Absent
<1>2. /\ kind' \in [Nodes -> Kinds \cup {Absent}]
      /\ \A m \in Nodes \ {n} : kind'[m] = kind[m]
  BY <1>1 DEF DocSane
<1>3. /\ ref' \in [Nodes -> Refs] /\ ref'[n] = NoRef
      /\ \A m \in Nodes \ {n} : ref'[m] = ref[m]
  BY <1>1 DEF DocSane, Refs
<1>4. edgeList' \in Seq(Graph!Edges)
  BY <1>1, DetachedIsList DEF DocSane
<1>5. /\ Range(edgeList) \in SUBSET Graph!Edges
      /\ Range(edgeList') \in SUBSET Range(edgeList)
      /\ \A e \in Range(edgeList') : e.from \in Nodes \ {n} /\ e.to \in Nodes \ {n}
  BY <1>1, EdgesOfDoc
<1>6. EdgesFit(kind, Range(edgeList'))
  BY <1>5, FewerFit DEF DocSane
<1>7. EdgesFit(kind', Range(edgeList'))
  BY <1>2, <1>5, <1>6 DEF EdgesFit
<1>8. Misrouted(doc') => Misrouted(doc)
  BY <1>2, <1>5 DEF Misrouted, doc
<1>9. EdgesStay
  BY <1>4, <1>7, <1>8 DEF EdgesStay
<1>10. muted' \in SUBSET Nodes /\ soloed' \in SUBSET Nodes
  BY <1>1 DEF DocSane
<1>11. /\ \A m \in Nodes : kind'[m] = Absent => ref'[m] = NoRef
       /\ \A m \in Nodes : \/ ref'[m] \in presets \cup {NoRef}
                           \/ kind[m] # Absent /\ ref'[m] = ref[m]
  BY <1>2, <1>3 DEF DocSane
<1>12. QED
  BY <1>1, <1>2, <1>3, <1>9, <1>10, <1>11, GraphEditKeeps

\* Edits that leave the nodes and their presets as they are.
LEMMA WiringKeeps ==
  ASSUME DocSane, Known(doc, legacy), edits \in 0 .. MaxEdits, EditGraph, EdgesStay,
         kind' = kind, ref' = ref, muted' \in SUBSET Nodes, soloed' \in SUBSET Nodes
  PROVE  DocSane' /\ Known(doc, legacy)'
<1>1. /\ kind' \in [Nodes -> Kinds \cup {Absent}] /\ ref' \in [Nodes -> Refs]
      /\ \A m \in Nodes : kind'[m] = Absent => ref'[m] = NoRef
      /\ \A m \in Nodes : \/ ref'[m] \in presets \cup {NoRef}
                          \/ kind[m] # Absent /\ ref'[m] = ref[m]
  BY DEF DocSane
<1>2. QED
  BY <1>1, GraphEditKeeps

LEMMA AddEdgeInd ==
  ASSUME DocSane, Known(doc, legacy), edits \in 0 .. MaxEdits,
         NEW e \in Graph!Edges, AddEdge(e)
  PROVE  DocSane' /\ Known(doc, legacy)'
<1>1. /\ EditGraph /\ edgeList' = Append(edgeList, e) /\ ref' = ref
      /\ kind[e.from] # Absent /\ kind[e.to] # Absent /\ e.from # e.to
      /\ kind[e.to] # "source" /\ kind[e.from] # "output" /\ ~Graph!ClosesCycle(e)
      /\ kind' = kind /\ muted' = muted /\ soloed' = soloed
  BY DEF AddEdge, Graph!AddEdge, Graph!Present, Graph!Absent, Absent
<1>2. e.from \notin Reached(Range(edgeList), {e.to})
  BY <1>1, GraphReaches DEF Graph!ClosesCycle, Graph!CanReach
<1>3. /\ edgeList' \in Seq(Graph!Edges) /\ Range(edgeList') = Range(edgeList) \cup {e}
      /\ Range(edgeList) \in SUBSET Graph!Edges
  BY <1>1, RangeOfAppend, RangeIsElements DEF DocSane
<1>4. EdgesFit(kind', Range(edgeList'))
  <2>1. EdgesFit(kind, Range(edgeList) \cup {e})
    BY <1>1, <1>2, <1>3, MoreFit DEF DocSane
  <2>2. QED
    BY <1>1, <1>3, <2>1
<1>5. Misrouted(doc') => Misrouted(doc)
  BY <1>1, <1>3 DEF Misrouted, doc
<1>6. EdgesStay
  BY <1>3, <1>4, <1>5 DEF EdgesStay
<1>7. muted' \in SUBSET Nodes /\ soloed' \in SUBSET Nodes
  BY <1>1 DEF DocSane
<1>8. QED
  BY <1>1, <1>6, <1>7, WiringKeeps

LEMMA RemoveEdgeInd ==
  ASSUME DocSane, Known(doc, legacy), edits \in 0 .. MaxEdits,
         NEW i \in DOMAIN edgeList, RemoveEdge(i)
  PROVE  DocSane' /\ Known(doc, legacy)'
<1>1. /\ EditGraph /\ edgeList' = RemoveAt(edgeList, i) /\ ref' = ref
      /\ kind' = kind /\ muted' = muted /\ soloed' = soloed
  BY DEF RemoveEdge
<1>2. /\ edgeList' \in Seq(Graph!Edges) /\ Range(edgeList') \in SUBSET Range(edgeList)
      /\ Range(edgeList) \in SUBSET Graph!Edges
  BY <1>1, RangeOfRemoveAt, RangeIsElements DEF DocSane
<1>3. EdgesFit(kind', Range(edgeList'))
  BY <1>1, <1>2, FewerFit DEF DocSane
<1>4. Misrouted(doc') => Misrouted(doc)
  BY <1>1, <1>2 DEF Misrouted, doc
<1>5. EdgesStay
  BY <1>2, <1>3, <1>4 DEF EdgesStay
<1>6. muted' \in SUBSET Nodes /\ soloed' \in SUBSET Nodes
  BY <1>1 DEF DocSane
<1>7. QED
  BY <1>1, <1>5, <1>6, WiringKeeps

LEMMA SetMixerInd ==
  ASSUME DocSane, Known(doc, legacy), edits \in 0 .. MaxEdits,
         NEW n \in Nodes, NEW mute \in BOOLEAN, NEW solo \in BOOLEAN, SetMixer(n, mute, solo)
  PROVE  DocSane' /\ Known(doc, legacy)'
<1>1. /\ EditGraph /\ edgeList' = edgeList /\ ref' = ref /\ kind' = kind
      /\ muted' = Graph!Flag(muted, n, mute) /\ soloed' = Graph!Flag(soloed, n, solo)
  BY DEF SetMixer, Graph!SetMixer
<1>2. muted' \in SUBSET Nodes
  BY <1>1 DEF DocSane, Graph!Flag
<1>3. soloed' \in SUBSET Nodes
  BY <1>1 DEF DocSane, Graph!Flag
<1>4. EdgesStay
  BY <1>1 DEF EdgesStay, DocSane, Misrouted, doc
<1>5. QED
  BY <1>1, <1>2, <1>3, <1>4, WiringKeeps

LEMMA SetPresetInd ==
  ASSUME DocSane, Known(doc, legacy), edits \in 0 .. MaxEdits,
         NEW n \in Nodes, NEW r \in presets \cup {NoRef}, SetPreset(n, r)
  PROVE  DocSane' /\ Known(doc, legacy)'
<1>1. /\ EditGraph /\ ref' = [ref EXCEPT ![n] = r] /\ kind[n] # Absent
      /\ kind' = kind /\ edgeList' = edgeList /\ muted' = muted /\ soloed' = soloed
  BY DEF SetPreset, Graph!Present, Graph!Absent, Absent
<1>2. /\ ref' \in [Nodes -> Refs] /\ ref'[n] = r
      /\ \A m \in Nodes \ {n} : ref'[m] = ref[m]
  <2>1. r \in Refs
    BY DEF DocSane, Refs
  <2>2. QED
    BY <1>1, <2>1 DEF DocSane
<1>3. EdgesStay
  BY <1>1 DEF EdgesStay, DocSane, Misrouted, doc
<1>4. /\ \A m \in Nodes : kind'[m] = Absent => ref'[m] = NoRef
      /\ \A m \in Nodes : \/ ref'[m] \in presets \cup {NoRef}
                          \/ kind[m] # Absent /\ ref'[m] = ref[m]
  BY <1>1, <1>2 DEF DocSane
<1>5. /\ kind' \in [Nodes -> Kinds \cup {Absent}]
      /\ muted' \in SUBSET Nodes /\ soloed' \in SUBSET Nodes
  BY <1>1 DEF DocSane
<1>6. QED
  BY <1>1, <1>2, <1>3, <1>4, <1>5, GraphEditKeeps

\* Each edit keeps the document sane, and its problems known.
LEMMA EditInd ==
  ASSUME DocSane, Known(doc, legacy), edits \in 0 .. MaxEdits, Edit
  PROVE  DocSane' /\ Known(doc, legacy)' /\ UserAudit
<1>1. UserAudit
  BY DEF Edit, Rename, SetDimensions, SetGeometry, AddNode, RemoveNode, SetMixer, SetPreset,
         AddEdge, RemoveEdge, EditGraph
<1>2. CASE \/ \E x \in Named, title \in Titles : Rename(x, title)
           \/ \E size \in Lengths : SetDimensions(size)
           \/ \E c, l \in Lengths : SetGeometry(c, l)
  BY <1>1, <1>2, SettersInd
<1>3. CASE \E n \in Nodes : \E k \in Kinds \cup {"invalid"} : AddNode(n, k)
  BY <1>1, <1>3, AddNodeInd
<1>4. CASE \E n \in Nodes : RemoveNode(n)
  BY <1>1, <1>4, RemoveNodeInd
<1>5. CASE \E n \in Nodes : \E mute, solo \in BOOLEAN : SetMixer(n, mute, solo)
  BY <1>1, <1>5, SetMixerInd
<1>6. CASE \E n \in Nodes : \E r \in presets \cup {NoRef} : SetPreset(n, r)
  BY <1>1, <1>6, SetPresetInd
<1>7. CASE \E e \in Graph!Edges : AddEdge(e)
  BY <1>1, <1>7, AddEdgeInd
<1>8. CASE \E i \in DOMAIN edgeList : RemoveEdge(i)
  BY <1>1, <1>8, RemoveEdgeInd
<1>9. QED
  BY <1>2, <1>3, <1>4, <1>5, <1>6, <1>7, <1>8 DEF Edit

\* A project that has just been made.
LEMMA FreshIsSane ==
  ASSUME NEW title \in Names \ {"empty"}
  PROVE  Sane(Fresh(title)) /\ Known(Fresh(title), {})
<1> DEFINE d == Fresh(title)
<1>1. /\ d.kind = Nowhere /\ d.edges = <<>> /\ d.muted = {} /\ d.soloed = {}
      /\ d.ref = [n \in Nodes |-> NoRef] /\ d.presets = {}
  BY DEF Fresh
<1>2. /\ d.room = Room /\ d.center = Middle(Room) /\ d.listening = Middle(Room)
      /\ d.entries = 1
      /\ d.name = [x \in Named |-> IF x = "project" THEN title ELSE "default"]
  BY DEF Fresh
<1>3. Range(d.edges) = {} /\ d.edges \in Seq(Graph!Edges)
  BY <1>1 DEF Range
<1>4. Room \in Nat \ {0} /\ Middle(Room) \in 0 .. Room /\ Middle(Room) # NotFinite
  BY DocumentAssumption DEF Middle
<1>5. d.name \in [Named -> Names] /\ d.name["project"] # "empty"
  BY <1>2 DEF Named, Names
<1>6. /\ d.kind \in [Nodes -> Kinds \cup {Absent}] /\ d.ref \in [Nodes -> Refs]
      /\ \A n \in Nodes : d.kind[n] = Absent /\ d.ref[n] = NoRef
  BY <1>1 DEF Nowhere, Refs
<1>7. d \in Bodies
  <2>1. /\ d.muted \in SUBSET Nodes /\ d.soloed \in SUBSET Nodes /\ d.presets \in SUBSET STRING
        /\ d.room \in Int /\ d.center \in Int /\ d.listening \in Int /\ d.entries \in Nat
    BY <1>1, <1>2, <1>4
  <2>2. d = [kind |-> d.kind, edges |-> d.edges, muted |-> d.muted, soloed |-> d.soloed,
             ref |-> d.ref, presets |-> d.presets, room |-> d.room, center |-> d.center,
             listening |-> d.listening, name |-> d.name, entries |-> d.entries]
    BY DEF Fresh
  <2> HIDE DEF d
  <2>3. QED
    BY <1>3, <1>5, <1>6, <2>1, <2>2 DEF Bodies
<1> HIDE DEF d
<1>8. Sane(d)
  BY <1>2, <1>3, <1>4, <1>5, <1>6, <1>7 DEF Sane, EdgesFit
<1>9. ~Outside(d) /\ ~Dangles(d) /\ ~Misrouted(d)
  BY <1>2, <1>3, <1>4, <1>6 DEF Outside, Within, Dangles, Misrouted
<1>10. QED
  BY <1>8, <1>9 DEF d, Known

LEMMA BecomesSane ==
  ASSUME NEW d, Sane(d), Becomes(d)
  PROVE  DocSane' /\ doc' = d
<1>1. d \in Bodies
  BY DEF Sane
<1>2. DocSane'
  BY <1>1 DEF DocSane, Sane, Becomes, Bodies
<1>3. d = [kind |-> d.kind, edges |-> d.edges, muted |-> d.muted, soloed |-> d.soloed,
           ref |-> d.ref, presets |-> d.presets, room |-> d.room, center |-> d.center,
           listening |-> d.listening, name |-> d.name, entries |-> d.entries]
  BY <1>1 DEF Bodies
<1>4. doc' = d
  BY <1>3 DEF Becomes, doc
<1>5. QED
  BY <1>2, <1>4

\* A document that is left alone, but for the length of its log.
LEMMA DocStays ==
  ASSUME DocSane, UNCHANGED <<graphVars, presets, roomVars, name>>, entries' \in Nat
  PROVE  DocSane' /\ (\A problems : Known(doc, problems) => Known(doc', problems))
<1>1. /\ kind' = kind /\ edgeList' = edgeList /\ muted' = muted /\ soloed' = soloed
      /\ ref' = ref /\ presets' = presets /\ room' = room /\ center' = center
      /\ listening' = listening /\ name' = name
  BY DEF graphVars, roomVars
<1>2. DocSane'
  BY <1>1 DEF DocSane
<1>3. ASSUME NEW problems, Known(doc, problems) PROVE Known(doc', problems)
  BY <1>1, <1>3 DEF Known, Dangles, Outside, Misrouted, doc
<1>4. QED
  BY <1>2, <1>3

\* What is written has the problems of what it was written from.
LEMMA WrittenIsKnown ==
  ASSUME NEW d, Sane(d), NEW problems, Known(d, problems)
  PROVE  Known(Encoded(d).body, problems)
<1> DEFINE b == Encoded(d).body
<1>1. Written(b, d) /\ d.edges \in Seq(Graph!Edges)
  BY EncodedIsWritten DEF Sane, Bodies
<1> HIDE DEF b
<1>2. b.edges = PortlessList(d.edges) /\ b.kind = d.kind /\ b.ref = d.ref /\ b.presets = d.presets
  BY <1>1 DEF Written
<1>3. \A e \in Range(b.edges) : \E f \in Range(d.edges) : SameEnds(f, e)
  BY <1>1, <1>2, PortlessEdges
<1>4. Misrouted(b) => Misrouted(d)
  BY <1>2, <1>3 DEF Misrouted, SameEnds
<1>5. Dangles(b) => Dangles(d)
  BY <1>2 DEF Dangles
<1>6. Outside(b) => Outside(d)
  BY <1>1 DEF Outside, Written, SameRoom
<1>7. QED
  BY <1>4, <1>5, <1>6 DEF Known, b

LEMMA CreateInd ==
  ASSUME IInv, NEW title \in Titles, Create(title)
  PROVE  IInv'
<1>1. Sane(Fresh(title)) /\ Known(Fresh(title), {})
  BY FreshIsSane, DocumentAssumption DEF Create, Names
<1>2. DocSane' /\ doc' = Fresh(title)
  BY <1>1, BecomesSane DEF Create
<1>3. Control' /\ TextFits' /\ legacy' = {}
  BY DEF Create, textVars, IInv, Control, TextFits
<1>4. QED
  BY <1>1, <1>2, <1>3 DEF IInv

LEMMA DestroyInd ==
  ASSUME IInv, Destroy
  PROVE  IInv'
<1>1. Sane(Fresh("default"))
  BY FreshIsSane DEF Names
<1>2. DocSane'
  BY <1>1, BecomesSane DEF Destroy
<1>3. Control' /\ TextFits' /\ ~open'
  BY DEF Destroy, textVars, IInv, Control, TextFits
<1>4. QED
  BY <1>2, <1>3 DEF IInv

LEMMA OpenInd ==
  ASSUME IInv, Open
  PROVE  IInv'
<1>1. /\ text # NoText /\ Fits(text) /\ Opened(text) # Refused
      /\ open' = TRUE /\ edits' = edits /\ Becomes(Opened(text).body)
  BY DEF IInv, Open, TextFits
<1>2. Sane(Opened(text).body)
  BY <1>1, OpenedIsSane
<1>3. DocSane' /\ doc' = Opened(text).body
  BY <1>1, <1>2, BecomesSane
<1>4. CASE origin = "saved"
  <2>1. legacy' = saved.legacy /\ text' = text /\ origin' = origin /\ saved' = saved
    BY <1>4 DEF Open, textVars
  <2>2. /\ text = Encoded(saved.doc) /\ Sane(saved.doc) /\ Known(saved.doc, saved.legacy)
    BY <1>4 DEF IInv, TextFits
  <2>3. doc' = Encoded(saved.doc).body
    BY <1>3, <2>2, EncodedIsRead
  <2>4. Known(doc', legacy')
    BY <2>1, <2>2, <2>3, WrittenIsKnown
  <2>5. Control' /\ TextFits'
    BY <1>1, <2>1 DEF IInv, Control, TextFits
  <2>6. QED
    BY <1>3, <2>4, <2>5 DEF IInv
<1>5. CASE origin # "saved"
  <2>1. legacy' = Problems' /\ text' = NoText /\ origin' = "read"
    BY <1>5 DEF Open
  <2>2. legacy' = ProblemsOf(doc')
    BY <2>1, ProblemsAreOfNext
  <2>3. Known(doc', legacy')
    BY <1>2, <1>3, <2>2, SaneProblems
  <2>4. Control' /\ TextFits'
    BY <1>1, <2>1 DEF IInv, Control, TextFits
  <2>5. QED
    BY <1>3, <2>3, <2>4 DEF IInv
<1>6. QED
  BY <1>4, <1>5

LEMMA ToJsonInd ==
  ASSUME IInv, ToJson
  PROVE  IInv'
<1>1. /\ open /\ open' = open /\ edits' = edits /\ legacy' = legacy /\ entries' = entries
      /\ UNCHANGED <<graphVars, presets, roomVars, name>>
      /\ text' = Encoded(doc) /\ origin' = "saved" /\ saved' = [doc |-> doc, legacy |-> legacy]
  BY DEF ToJson, Writes
<1>2. Sane(doc) /\ Known(doc, legacy) /\ entries \in Nat
  BY <1>1, DocIsSane DEF IInv, DocSane
<1>3. DocSane' /\ Known(doc', legacy')
  BY <1>1, <1>2, DocStays DEF IInv
<1>4. saved'.doc = doc /\ saved'.legacy = legacy
  BY <1>1
<1>5. Fits(Encoded(doc))
  BY <1>2, EncodedIsWritten
<1>6. TextFits'
  BY <1>1, <1>2, <1>4, <1>5 DEF TextFits
<1>7. Control'
  BY <1>1 DEF IInv, Control
<1>8. QED
  BY <1>3, <1>6, <1>7 DEF IInv

LEMMA SaveInd ==
  ASSUME IInv, Save
  PROVE  IInv'
<1> DEFINE d == [doc EXCEPT !.entries = @ + 1]
<1>1. /\ open /\ open' = open /\ legacy' = legacy /\ entries' = entries + 1
      /\ edits < MaxEdits /\ edits' = edits + 1
      /\ UNCHANGED <<graphVars, presets, roomVars, name>>
      /\ text' = Encoded(d) /\ origin' = "saved" /\ saved' = [doc |-> d, legacy |-> legacy]
  BY DEF Save, Writes
<1>2. Sane(doc) /\ Known(doc, legacy) /\ entries \in Nat
  BY <1>1, DocIsSane DEF IInv, DocSane
<1>3. d \in Bodies
  BY <1>2, FieldsChange DEF Sane
<1>4. /\ d.kind = doc.kind /\ d.edges = doc.edges /\ d.ref = doc.ref /\ d.presets = doc.presets
      /\ d.room = doc.room /\ d.center = doc.center /\ d.listening = doc.listening
      /\ d.name = doc.name
  BY DEF doc
<1> HIDE DEF d
<1>5. Sane(d)
  BY <1>2, <1>3, <1>4 DEF Sane
<1>6. Known(d, legacy)
  BY <1>2, <1>4 DEF Known, Dangles, Outside, Misrouted
<1>7. DocSane' /\ Known(doc', legacy')
  BY <1>1, <1>2, DocStays DEF IInv
<1>8. saved'.doc = d /\ saved'.legacy = legacy
  BY <1>1
<1>9. Fits(Encoded(d))
  BY <1>5, EncodedIsWritten
<1>10. TextFits'
  BY <1>1, <1>5, <1>6, <1>8, <1>9 DEF TextFits
<1>11. Control'
  BY <1>1, DocumentAssumption DEF IInv, Control
<1>12. QED
  BY <1>7, <1>10, <1>11 DEF IInv

LEMMA ReceiveInd ==
  ASSUME IInv, NEW t \in Foreign, Receive(t)
  PROVE  IInv'
<1>1. /\ ~open /\ open' = open /\ edits' = edits /\ legacy' = legacy /\ entries' = entries
      /\ UNCHANGED <<graphVars, presets, roomVars, name>>
      /\ text' = t /\ origin' = "foreign"
  BY DEF Receive
<1>2. DocSane'
  BY <1>1, DocStays DEF IInv, DocSane
<1>3. Control' /\ TextFits'
  BY <1>1, ForeignAssumption DEF IInv, Control, TextFits
<1>4. QED
  BY <1>1, <1>2, <1>3 DEF IInv

LEMMA MigrateTextInd ==
  ASSUME IInv, NEW from \in 0 .. Version + 1, NEW to \in 0 .. Version + 1,
         MigrateText(from, to)
  PROVE  IInv'
<1>1. /\ open' = open /\ edits' = edits /\ legacy' = legacy /\ entries' = entries
      /\ UNCHANGED <<graphVars, presets, roomVars, name>>
      /\ text # NoText /\ Migrated(text, from, to) # Refused
      /\ text' = Migrated(text, from, to) /\ origin' = "migrated"
  BY DEF MigrateText
<1>2. DocSane' /\ (open' => Known(doc', legacy'))
  BY <1>1, DocStays DEF IInv, DocSane
<1>3. from \in Nat /\ to \in Nat
  BY DEF Version
<1>4. Fits(text')
  BY <1>1, <1>3, MigratedFits DEF IInv, TextFits
<1>5. Control' /\ TextFits'
  BY <1>1, <1>4 DEF IInv, Control, TextFits
<1>6. QED
  BY <1>2, <1>5 DEF IInv

LEMMA InitInd == Init => IInv
<1> SUFFICES ASSUME Init PROVE IInv
  OBVIOUS
<1> DEFINE d == Fresh("default")
<1>1. Sane(d)
  BY FreshIsSane DEF Names
<1>2. /\ kind = d.kind /\ edgeList = d.edges /\ muted = d.muted /\ soloed = d.soloed
      /\ ref = d.ref /\ presets = d.presets /\ room = d.room /\ center = d.center
      /\ listening = d.listening /\ name = d.name /\ entries = d.entries
  BY DEF Init
<1> HIDE DEF d
<1>3. DocSane
  BY <1>1, <1>2 DEF DocSane, Sane, Bodies
<1>4. Control /\ TextFits /\ ~open
  <2>1. open = FALSE /\ edits = 0 /\ text = NoText /\ origin = "none"
    BY Zenon DEF Init
  <2>2. Control
    <3>1. open \in BOOLEAN
      BY <2>1, Zenon
    <3>2. edits \in 0 .. MaxEdits
      BY <2>1, DocumentAssumption
    <3>3. QED
      BY <2>1, <3>1, <3>2 DEF Control
  <2>3. TextFits
    BY <2>1 DEF TextFits
  <2>4. QED
    BY <2>1, <2>2, <2>3
<1>5. QED
  BY <1>3, <1>4 DEF IInv

LEMMA NextInd == IInv /\ [Next]_vars => IInv'
<1> SUFFICES ASSUME IInv, [Next]_vars PROVE IInv'
  OBVIOUS
<1>1. CASE \E title \in Titles : Create(title)
  BY <1>1, CreateInd
<1>2. CASE Destroy
  BY <1>2, DestroyInd
<1>3. CASE Open
  BY <1>3, OpenInd
<1>4. CASE ToJson
  BY <1>4, ToJsonInd
<1>5. CASE Save
  BY <1>5, SaveInd
<1>6. CASE \E t \in Foreign : Receive(t)
  BY <1>6, ReceiveInd
<1>7. CASE \E from, to \in 0 .. Version + 1 : MigrateText(from, to)
  BY <1>7, MigrateTextInd
<1>8. CASE Edit
  <2>1. open /\ Known(doc, legacy) /\ DocSane /\ edits \in 0 .. MaxEdits
    BY <1>8 DEF Edit, Rename, SetDimensions, SetGeometry, AddNode, RemoveNode, SetMixer,
         SetPreset, AddEdge, RemoveEdge, EditGraph, UserAudit, IInv, Control
  <2>2. DocSane' /\ Known(doc', legacy') /\ UserAudit
    BY <1>8, <2>1, EditInd
  <2>3. Control' /\ TextFits'
    BY <2>1, <2>2, AuditKeeps DEF IInv, Control, TextFits
  <2>4. QED
    BY <2>2, <2>3 DEF IInv
<1>9. CASE UNCHANGED vars
  <2>1. /\ UNCHANGED <<graphVars, presets, roomVars, name>> /\ entries' = entries
        /\ open' = open /\ edits' = edits /\ legacy' = legacy
        /\ text' = text /\ origin' = origin /\ saved' = saved
    BY <1>9 DEF vars, textVars
  <2>2. DocSane' /\ (open' => Known(doc', legacy'))
    BY <2>1, DocStays DEF IInv, DocSane
  <2>3. Control' /\ TextFits'
    BY <2>1 DEF IInv, Control, TextFits
  <2>4. QED
    BY <2>2, <2>3 DEF IInv
<1>10. QED
  BY <1>1, <1>2, <1>3, <1>4, <1>5, <1>6, <1>7, <1>8, <1>9 DEF Next

-----------------------------------------------------------------------------
(***************************************************************************)
(* What the invariant says of texts.                                       *)
(***************************************************************************)

\* A document that was written is read as it was, but for what cannot be written.
ReadsBack(t, d) ==
  LET b == Opened(t).body
      Lost(x) == d.name[x] = "malformed"
      Ends(e) == <<e.from, e.to>>
  IN  /\ Opened(t) # Refused
      /\ \A f \in DOMAIN d \ {"edges", "name"} : b[f] = d[f]
      /\ \A x \in Named : Lost(x) \/ b.name[x] = d.name[x]
      /\ [i \in DOMAIN b.edges |-> Ends(b.edges[i])]
            = [i \in DOMAIN d.edges |-> Ends(d.edges[i])]

LEMMA SaneReadsBack ==
  ASSUME NEW d, Sane(d)
  PROVE  ReadsBack(Encoded(d), d)
<1> DEFINE b == Encoded(d).body
<1>1. Opened(Encoded(d)) = Encoded(d) /\ Encoded(d) # Refused /\ Written(b, d)
  BY EncodedIsRead, EncodedIsWritten
<1> HIDE DEF b
<1>2. d \in Bodies
  BY DEF Sane
<1>3. ASSUME NEW f \in DOMAIN d \ {"edges", "name"} PROVE b[f] = d[f]
  <2>1. f \in {"kind", "muted", "soloed", "ref", "presets", "room", "center", "listening",
               "entries"}
    BY <1>2 DEF Bodies
  <2>2. QED
    BY <1>1, <2>1 DEF Written, SameRoom
<1>4. ASSUME NEW x \in Named PROVE d.name[x] = "malformed" \/ b.name[x] = d.name[x]
  BY <1>1 DEF Written, Replaced
<1>5. /\ DOMAIN b.edges = DOMAIN d.edges
      /\ \A i \in DOMAIN d.edges : SameEnds(d.edges[i], b.edges[i])
  <2>1. d.edges \in Seq(Graph!Edges) /\ b.edges = PortlessList(d.edges)
    BY <1>1, <1>2 DEF Bodies, Written
  <2>2. QED
    BY <2>1, PortlessEdges
<1>6. [i \in DOMAIN b.edges |-> <<b.edges[i].from, b.edges[i].to>>]
        = [i \in DOMAIN d.edges |-> <<d.edges[i].from, d.edges[i].to>>]
  BY <1>5 DEF SameEnds
<1>7. QED
  BY <1>1, <1>3, <1>4, <1>6 DEF ReadsBack, b

\* Migrations of one text come to an end with the first.
LEMMA MigrationsSettle ==
  ASSUME NEW t, Fits(t), NEW from \in 0 .. Version - 1, NEW new,
         new = Migrated(t, from, Version), new # Refused, NEW v \in 0 .. Version
  PROVE  Migrated(new, v, Version) = new
<1>1. from \in Nat /\ v \in Nat /\ Version \in Nat /\ from < Version /\ v <= Version
  BY DEF Version
<1>2. Fits(new) /\ new.part[Root] = "ok" /\ new.version >= Version
  BY <1>1, MigratedFits
<1>3. QED
  BY <1>1, <1>2, MigratedStays DEF Migratable

-----------------------------------------------------------------------------
(***************************************************************************)
(* Texts of older versions.                                                *)
(***************************************************************************)

LEMMA FitsIsText ==
  ASSUME NEW t, Fits(t)
  PROVE  t # Refused
<1>1. "version" \in DOMAIN t /\ "version" \notin DOMAIN Refused
  BY DEF Fits, Refused
<1>2. QED
  BY <1>1

\* The keys that a text can lack.
LEMMA KeysAreRepaired ==
  ASSUME NEW p \in Parts, Len(p) = 1, p # Unknown
  PROVE  p \in Rewritten \cup {<<"venue">>, <<"scene">>}
<1>1. p \notin ReadAsText
  BY DEF ReadAsText
<1>2. p \notin {Root, <<"venue", "name">>, Dimensions, <<"scene", "name">>, Geometry,
                NodeId, Mixers, ElementType}
  <2>1. Len(Root) = 0
    BY DEF Root
  <2>2. p \notin {<<"venue", "name">>, <<"scene", "name">>, Dimensions, Geometry}
    BY DEF Dimensions, Geometry
  <2>3. p \notin {NodeId, Mixers, ElementType}
    BY DEF NodeId, Mixers, ElementType
  <2>4. QED
    BY <2>1, <2>2, <2>3
<1>3. p \notin {<<"signalGraph", "nodes", "node">>, <<"signalGraph", "edges", "edge">>,
                <<"powerGraph", "node">>, <<"auditLog", "entry">>}
  OBVIOUS
<1>4. QED
  BY <1>1, <1>2, <1>3 DEF Parts

Missing(t) == {p \in Broken(t) : Len(p) = 1 /\ t.part[p] = "absent"}
BelowMissing(t) == UNION {Below(p) : p \in Missing(t)}

\* In a text of an older version all that is broken is the room, or is not there.
LEMMA OldIsWhole ==
  ASSUME NEW t, FormsFit(t), Old(t)
  PROVE  /\ t.version = 0 \/ (t.version = 1 /\ Missing(t) = {})
         /\ EdgesValid(t)
         /\ \A p \in Broken(t) : \/ p \in {Dimensions, Geometry}
                                 \/ p \in Missing(t)
                                 \/ \E q \in Missing(t) : p \in Below(q)
         /\ \A p \in Broken(t) \ {Dimensions, Geometry} : t.part[p] = "absent"
         /\ t.part[Root] = "ok" /\ t.part[Unknown] = "ok"
<1>1. /\ t.version = 0 \/ (t.version = 1 /\ Missing(t) = {})
      /\ EdgesValid(t)
      /\ Broken(t) \ ({Dimensions, Geometry} \cup Missing(t) \cup BelowMissing(t)) = {}
  BY DEF Old, Missing, BelowMissing
<1>2. \A p \in Broken(t) : \/ p \in {Dimensions, Geometry}
                           \/ p \in Missing(t)
                           \/ \E q \in Missing(t) : p \in Below(q)
  <2>1. \A p \in Broken(t) : \/ p \in {Dimensions, Geometry}
                             \/ p \in Missing(t)
                             \/ p \in BelowMissing(t)
    BY <1>1
  <2>2. QED
    BY <2>1 DEF BelowMissing
<1>3. \A p \in Broken(t) \ {Dimensions, Geometry} : t.part[p] = "absent"
  <2>1. \A q \in Missing(t) : q \in Parts /\ t.part[q] = "absent"
    BY DEF Missing, Broken
  <2>2. QED
    BY <1>2, <2>1 DEF FormsFit
<1>4. {Root, Unknown} \cap {Dimensions, Geometry} = {}
  BY DEF Root, Unknown, Dimensions, Geometry
<1>5. t.part[Root] = "ok" /\ t.part[Unknown] = "ok"
  <2>1. \A p \in {Root, Unknown} : p \in Parts /\ t.part[p] \in {"ok", "content"}
    BY SomeParts DEF FormsFit
  <2>2. QED
    BY <1>3, <1>4, <2>1 DEF Broken
<1>6. QED
  BY <1>1, <1>2, <1>3, <1>5

\* The first step repairs all that is not there.
LEMMA OldIsRepaired ==
  ASSUME NEW t, FormsFit(t), Old(t)
  PROVE  /\ ~Throws(t) /\ t.part[<<"project">>] # "type"
         /\ Broken(t) \subseteq Repaired(t) \cup {Dimensions, Geometry}
         /\ Repaired(t) \cap {Dimensions, Geometry} = {}
         /\ <<"project">> \in Repaired(t)
<1>1. /\ (ReadAsText \cup Rewritten \cup {<<"venue">>, <<"scene">>})
            \cap {Dimensions, Geometry} = {}
  BY DEF ReadAsText, Rewritten, Dimensions, Geometry
<1>2. ReadAsText \cup Rewritten \cup {<<"venue">>, <<"scene">>} \subseteq Parts
  BY DEF Parts
<1>3. <<"project">> \in Rewritten
  BY DEF Rewritten
<1>4. \A p \in ReadAsText \cup Rewritten \cup {<<"venue">>, <<"scene">>} :
        t.part[p] \in {"ok", "absent"}
  BY <1>1, <1>2, OldIsWhole DEF Broken
<1>5. ~Throws(t) /\ t.part[<<"project">>] # "type"
  BY <1>3, <1>4 DEF Throws
<1>6. ASSUME NEW q \in Missing(t)
      PROVE  \/ q \in Rewritten \cap Broken(t)
             \/ q \in {r \in {<<"venue">>, <<"scene">>} : t.part[r] = "absent"}
  <2>1. q \in Parts /\ Len(q) = 1 /\ t.part[q] = "absent" /\ q \in Broken(t)
    BY DEF Missing, Broken
  <2>2. q # Unknown
    BY <2>1, OldIsWhole
  <2>3. QED
    BY <2>1, <2>2, KeysAreRepaired
<1>7. ASSUME NEW p \in Broken(t), p \notin {Dimensions, Geometry} PROVE p \in Repaired(t)
  <2>1. CASE p \in Missing(t)
    BY <1>6, <1>7, <2>1 DEF Repaired
  <2>2. CASE \E q \in Missing(t) : p \in Below(q)
    BY <1>6, <1>7, <2>2 DEF Repaired
  <2>3. QED
    BY <1>7, <2>1, <2>2, OldIsWhole
<1>8. Repaired(t) \cap {Dimensions, Geometry} = {}
  BY DEF Repaired
<1>9. <<"project">> \in Repaired(t)
  BY <1>1, <1>3 DEF Repaired
<1>10. QED
  BY <1>5, <1>7, <1>8, <1>9

\* The steps one after the other.
LEMMA TwoSteps ==
  ASSUME NEW t, Fits(t), t.part[Root] = "ok", ~Throws(t),
         FromV0(t).part[<<"project">>] # "type", t.version = 0
  PROVE  Migrated(t, 0, Version) = FromV1(FromV0(t))
<1>1. PICK after : Migrates(after, t, 0, Version - 0) /\ Migrated(t, 0, Version) = after[Version - 0]
  BY MigratedUnrolls DEF Migratable, Version
<1>2. /\ after[0] = t /\ after[1] = Stepped(t, 0) /\ after[2] = Stepped(after[1], 1)
      /\ Migrated(t, 0, Version) = after[2]
  BY <1>1 DEF Migrates, Version
<1>3. /\ FromV0(t).version = 1 /\ FromV0(t) # Refused
  BY FirstStep
<1>4. after[1] = FromV0(t)
  BY <1>2, FitsIsText DEF Stepped, MigrateStep, Step
<1>5. after[2] = FromV1(FromV0(t))
  BY <1>2, <1>3, <1>4 DEF Stepped, MigrateStep, Step
<1>6. QED
  BY <1>2, <1>5

LEMMA OneStep ==
  ASSUME NEW t, Fits(t), t.part[Root] = "ok", t.version = 1
  PROVE  Migrated(t, 1, Version) = FromV1(t)
<1>1. PICK after : Migrates(after, t, 1, Version - 1) /\ Migrated(t, 1, Version) = after[Version - 1]
  BY MigratedUnrolls DEF Migratable, Version
<1>2. after[0] = t /\ after[1] = Stepped(t, 1) /\ Migrated(t, 1, Version) = after[1]
  BY <1>1 DEF Migrates, Version
<1>3. QED
  BY <1>2, FitsIsText DEF Stepped, MigrateStep, Step

\* A text of the present version of which nothing is broken is read as it is.
LEMMA WholeIsRead ==
  ASSUME NEW t, NEW u, Fits(u), u.version = Version, \A p \in Parts : u.part[p] = "ok",
         EdgesValid(t), SameLists(u.body, t.body), t.version \in 0 .. Version - 1,
         u = Migrated(t, t.version, Version)
  PROVE  Opened(t) = u /\ u # Refused
<1>1. Broken(u) = {}
  BY DEF Broken
<1>2. EdgesValid(u)
  BY DEF EdgesValid, SameLists
<1>3. Valid(u) /\ Decodes(u)
  BY <1>1, <1>2, SomeParts DEF Valid, HeadValid, RoomValid, NodesValid, MixersValid,
     ListsValid, Sound, Decodes
<1>4. QED
  BY <1>3, FitsIsText DEF Opened

LEMMA OldOpens ==
  ASSUME NEW t, Fits(t), FormsFit(t), Old(t)
  PROVE  Opened(t) # Refused /\ KeptIn(Opened(t).body, t)
<1>1. CASE t.version = 1
  <2> DEFINE u == FromV1(t)
  <2>1. /\ Fits(u) /\ u.version = 2
        /\ u.part[Dimensions] = "ok" /\ u.part[Geometry] = "ok"
        /\ \A p \in Parts : t.part[p] = "ok" => u.part[p] = "ok"
        /\ SameLists(u.body, t.body) /\ u.body.name = t.body.name
        /\ t.part[Dimensions] = "ok" => u.body.room = t.body.room
        /\ IF t.part[Geometry] = "ok"
           THEN u.body.center = t.body.center /\ u.body.listening = t.body.listening
           ELSE {u.body.center, u.body.listening} \subseteq 0 .. u.body.room
    BY OldIsRepaired, SecondStep
  <2>2. u = Migrated(t, t.version, Version)
    BY <1>1, OldIsWhole, OneStep
  <2> HIDE DEF u
  <2>3. \A p \in Parts : u.part[p] = "ok"
    BY <1>1, <2>1, OldIsWhole DEF Broken
  <2>4. Opened(t) = u /\ u # Refused
    BY <1>1, <2>1, <2>2, <2>3, OldIsWhole, WholeIsRead DEF Version
  <2>5. KeptIn(u.body, t)
    BY <2>1 DEF KeptIn, SameLists
  <2>6. QED
    BY <2>4, <2>5
<1>2. CASE t.version = 0
  <2> DEFINE u == FromV0(t)
             w == FromV1(u)
  <2>1. /\ Fits(u) /\ u.version = 1
        /\ \A p \in Parts : u.part[p] = IF p \in Repaired(t) THEN "ok" ELSE t.part[p]
        /\ SameLists(u.body, t.body) /\ SameRoom(u.body, t.body)
        /\ \A x \in Named : t.part[<<x, "name">>] = "ok" => u.body.name[x] = t.body.name[x]
    BY OldIsRepaired, FirstStep
  <2>2. u.part[<<"project">>] # "type"
    <3>1. <<"project">> \in Repaired(t) /\ <<"project">> \in Parts
      BY OldIsRepaired DEF Parts, Rewritten
    <3>2. QED
      BY <2>1, <3>1
  <2>3. w = Migrated(t, t.version, Version)
    BY <1>2, <2>2, OldIsWhole, OldIsRepaired, TwoSteps
  <2> HIDE DEF u
  <2>4. /\ Fits(w) /\ w.version = 2
        /\ w.part[Dimensions] = "ok" /\ w.part[Geometry] = "ok"
        /\ \A p \in Parts : u.part[p] = "ok" => w.part[p] = "ok"
        /\ SameLists(w.body, u.body) /\ w.body.name = u.body.name
        /\ u.part[Dimensions] = "ok" => w.body.room = u.body.room
        /\ IF u.part[Geometry] = "ok"
           THEN w.body.center = u.body.center /\ w.body.listening = u.body.listening
           ELSE {w.body.center, w.body.listening} \subseteq 0 .. w.body.room
    BY <2>1, <2>2, SecondStep
  <2> HIDE DEF w
  <2>5. u.part[Dimensions] = t.part[Dimensions] /\ u.part[Geometry] = t.part[Geometry]
    BY <2>1, OldIsRepaired, SomeParts
  <2>6. \A p \in Parts : w.part[p] = "ok"
    <3>1. ASSUME NEW p \in Parts, p \notin {Dimensions, Geometry} PROVE u.part[p] = "ok"
      BY <2>1, <3>1, OldIsRepaired DEF Broken
    <3>2. QED
      BY <2>4, <3>1
  <2>7. SameLists(w.body, t.body)
    BY <2>1, <2>4 DEF SameLists
  <2>8. Opened(t) = w /\ w # Refused
    BY <1>2, <2>3, <2>4, <2>6, <2>7, OldIsWhole, WholeIsRead DEF Version
  <2>9. /\ t.part[Dimensions] = "ok" => w.body.room = t.body.room
        /\ IF t.part[Geometry] = "ok"
           THEN w.body.center = t.body.center /\ w.body.listening = t.body.listening
           ELSE {w.body.center, w.body.listening} \subseteq 0 .. w.body.room
    BY <2>1, <2>4, <2>5 DEF SameRoom
  <2>10. KeptIn(w.body, t)
    BY <2>1, <2>4, <2>7, <2>9 DEF KeptIn, SameLists
  <2>11. QED
    BY <2>8, <2>10
<1>3. QED
  BY <1>1, <1>2, OldIsWhole

-----------------------------------------------------------------------------
(***************************************************************************)
(* The theorems.                                                           *)
(***************************************************************************)

\* The document in hand can always be written and read again, the text in hand has
\* what its sound parts say, and the problems of a project are among those that it
\* was read with, or that the text it was read from had.
THEOREM DocumentInvariant == Spec => []IInv
<1>1. QED
  BY InitInd, NextInd, PTL DEF Spec

\* Every variable of a document has a value its C++ counterpart can have, whatever
\* texts come in.
THEOREM DocumentTypeOK == Spec => []TypeOK
<1>1. IInv => TypeOK
  BY EdgesOfDoc DEF IInv, Control, DocSane, TypeOK, Graph!TypeOK, Graph!Absent, Absent
<1>2. QED
  BY <1>1, DocumentInvariant, PTL

\* No sequence of edits, saves and migrations makes the health check or the graph's
\* validation report an error, or geometry outside the room, that the project was not
\* read with, and none is read with a broken schema or a cycle.  The other warnings are
\* not meant: edits do bring nodes that no source reaches.
THEOREM DocumentNoNewProblem == Spec => []NoNewProblem
<1>1. IInv => NoNewProblem
  BY DocIsSane, ProblemsAreOf, SaneProblems DEF IInv, NoNewProblem, Readable
<1>2. QED
  BY <1>1, DocumentInvariant, PTL

\* Every text that is written, by sf_project_to_json or a save, can be read again and
\* is the same project, while it is within the 8 MiB that are accepted for reading.
THEOREM DocumentSavedReopens == Spec => []SavedReopens
<1>1. IInv => SavedReopens
  <2> SUFFICES ASSUME IInv, origin = "saved" PROVE ReadsBack(text, saved.doc)
    BY DEF SavedReopens, ReadsBack
  <2>1. text = Encoded(saved.doc) /\ Sane(saved.doc)
    BY DEF IInv, TextFits
  <2>2. QED
    BY <2>1, SaneReadsBack
<1>2. QED
  BY <1>1, DocumentInvariant, PTL

\* A text that has been migrated to the present version is left alone by every
\* further migration.
THEOREM DocumentMigrationSettles == Spec => []MigrationSettles
<1>1. IInv => MigrationSettles
  BY MigrationsSettle DEF IInv, TextFits, MigrationSettles
<1>2. QED
  BY <1>1, DocumentInvariant, PTL

\* Every text of an older version that only lacks what its version may lack is read,
\* and what it had is in the project.
THEOREM DocumentOldVersionsOpen == Spec => []OldVersionsOpen
<1>1. IInv => OldVersionsOpen
  BY ForeignAssumption, OldOpens DEF IInv, TextFits, OldVersionsOpen
<1>2. QED
  BY <1>1, DocumentInvariant, PTL
=============================================================================
