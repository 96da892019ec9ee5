------------------------- MODULE ProjectFileProofs -------------------------
(***************************************************************************)
(* Proofs about ProjectFile, for every set of handles and every bound: the *)
(* type invariant, what a save and a power failure leave on the disk, and  *)
(* when a document of an old version is not lost.                          *)
(***************************************************************************)
EXTENDS ProjectFile, TLAPS

Saving  == pc \in {"write", "rename", "renamed"}
Opening == pc \in {"backup", "copy", "migrate"}
OnDisk  == {"safe", "missing"}

\* What a call in progress works on.
CallInv ==
  /\ Saving => data \in Files /\ data.state = "safe" /\ data.version = Current
  /\ pc = "rename" => /\ tmp.state # "missing" /\ tmp.version = Current
                      /\ tmp.origin = data.origin
                      /\ complete /\ ~lossy => tmp = data
  /\ Opening => data = path /\ path.state \notin {"missing", "torn"}
  /\ pc \in {"backup", "copy"} => data.version \in OldVersions

\* What the name of the document may stand for on the disk.
DiskInv ==
  /\ path \in older
  /\ ~lossy => /\ \A f \in older : f.state \in OnDisk /\ f \in saved
               /\ pc = "renamed" => path = data
               /\ pc # "renamed" => path = acked \/ undone

\* The backup of the document the behaviour began with is there, or was not made or
\* was torn.
BackedUp ==
  \/ unsaved \/ unkept
  \/ bak[original.version] \in {original, [original EXCEPT !.state = "unsynced"]}

Descends(p) == p.origin # NoOrigin

\* Where a document of an old version is.  A backup is not there while it is being
\* made, but then the document still is.
OriginInv ==
  /\ original.origin = NoOrigin /\ original.state \in OnDisk
  /\ \A f \in older : f.version \in OldVersions => f = original
  /\ path.version \in OldVersions => older = {original}
  /\ \A f \in older : Descends(f) => f.origin = original.version /\ BackedUp
  /\ \A h \in Handles :
       Descends(mem[h]) => /\ mem[h].origin = original.version
                           /\ BackedUp \/ pc = "copy"
  /\ Saving /\ Descends(data) => data.origin = original.version /\ BackedUp
  /\ pc = "migrate" /\ data.version \in OldVersions => BackedUp

IndInv == TypeOK /\ CallInv /\ DiskInv /\ OriginInv

-----------------------------------------------------------------------------
(***************************************************************************)
(* Files.                                                                  *)
(***************************************************************************)

\* Another state of the bytes makes another file with the same contents.
LEMMA FileState ==
  ASSUME NEW f \in Files, f.state # "missing", NEW s \in {"torn", "unsynced", "safe"}
  PROVE  LET g == [f EXCEPT !.state = s]
         IN  g \in Files /\ g.state = s /\ g.version = f.version /\ g.origin = f.origin
  BY DEF Files, Missing

\* A file that is there has a version; one that is not has none.
LEMMA FileFields ==
  ASSUME NEW f \in Files
  PROVE  /\ f.state = "missing" => f = Missing
         /\ f.state # "missing" => f.version \in Versions /\ f.doc \in Nat
         /\ f.origin \in OldVersions \cup {NoOrigin}
         /\ f.state \in {"torn", "unsynced", "safe", "missing"}
         /\ f.version \in OldVersions => f.state # "missing"
  BY DEF Files, Missing, OldVersions, Versions, NoOrigin, Current

LEMMA MissingFile == Missing \in Files /\ Missing.state = "missing" /\ ~Descends(Missing)
  BY DEF Files, Missing, Descends

\* A power failure leaves a file whose bytes are on the disk as it is.
LEMMA FileAfterPowerLoss ==
  ASSUME NEW f \in Files, NEW g \in AfterPowerLoss(f)
  PROVE  g \in Files /\ g.version = f.version /\ g.origin = f.origin
         /\ (f.state \in OnDisk => g = f)
<1>1. CASE f.state = "unsynced"
  <2>1. \A s \in {"torn", "safe"} :
          LET t == [f EXCEPT !.state = s]
          IN  t \in Files /\ t.version = f.version /\ t.origin = f.origin
    BY <1>1, FileState
  <2> QED BY <1>1, <2>1 DEF AfterPowerLoss, Torn, OnDisk
<1>2. CASE f.state # "unsynced"
  BY <1>2 DEF AfterPowerLoss
<1> QED BY <1>1, <1>2

\* A power failure leaves a good copy good, or tears it.
LEMMA BackupAfterPowerLoss ==
  ASSUME NEW o \in Files, o.state \in OnDisk, o.version \in OldVersions,
         NEW g, NEW f \in {o, [o EXCEPT !.state = "unsynced"]}, g \in AfterPowerLoss(f)
  PROVE  g \in {o, [o EXCEPT !.state = "unsynced"]} \/ (f.state = "unsynced" /\ g.state = "torn")
<1>1. o.state = "safe"
  BY FileFields DEF OnDisk
<1>2. CASE f = o
  BY <1>1, <1>2 DEF AfterPowerLoss
<1>3. CASE f = [o EXCEPT !.state = "unsynced"]
  <2>1. [f EXCEPT !.state = "safe"] = o /\ f.state = "unsynced" /\ Torn(f).state = "torn"
    BY <1>1, <1>3 DEF Files, Missing, Torn
  <2> QED BY <2>1 DEF AfterPowerLoss
<1> QED BY <1>2, <1>3

\* What a save means to write.
LEMMA NewFile ==
  ASSUME NEW d \in Nat, NEW o \in OldVersions \cup {NoOrigin}
  PROVE  LET f == [version |-> Current, doc |-> d, origin |-> o, state |-> "safe"]
         IN  f \in Files /\ f.state = "safe" /\ f.version = Current /\ f.origin = o
  BY DEF Files, Versions, Current

-----------------------------------------------------------------------------
(***************************************************************************)
(* The invariant.                                                          *)
(***************************************************************************)

LEMMA FileInit == Init => IndInv
<1> SUFFICES ASSUME Init PROVE IndInv
  OBVIOUS
<1> USE DEF Init, disk, call, history
<1>1. path \in Files /\ path.origin = NoOrigin /\ path.state \in OnDisk
  BY DEF Files, Missing, OnDisk
<1>2. TypeOK
  BY <1>1, MissingFile DEF TypeOK, Closed, Projects
<1>3. CallInv /\ DiskInv
  BY <1>1 DEF CallInv, DiskInv, Saving, Opening
<1>4. OriginInv
  BY <1>1 DEF OriginInv, Saving, Descends, Closed
<1> QED BY <1>2, <1>3, <1>4 DEF IndInv

LEMMA FileTypeStep == IndInv /\ [Next]_vars => TypeOK'
<1> SUFFICES ASSUME IndInv, [Next]_vars PROVE TypeOK'
  OBVIOUS
<1> USE DEF IndInv, TypeOK
<1> USE DEF disk, call, history, saves, backups
<1>1. CASE \E h \in Handles : Create(h) \/ Destroy(h)
  BY <1>1 DEF Create, Destroy, Closed, Projects
<1>2. CASE \E h \in Handles : SaveBegin(h)
  <2> PICK h \in Handles : SaveBegin(h)
    BY <1>2
  <2>1. mem' \in [Handles -> Projects] /\ docs' \in Nat
    BY DEF SaveBegin, Projects
  <2>2. mem[h].origin \in OldVersions \cup {NoOrigin}
    BY DEF Projects
  <2>3. CASE pc' = "write"
    <3>1. data' = [version |-> Current, doc |-> docs', origin |-> mem[h].origin,
                   state |-> "safe"] /\ tmp' = Torn(data')
      BY <2>3 DEF SaveBegin, Idle
    <3>2. data' \in Files /\ data'.state = "safe"
      BY <2>1, <2>2, <3>1, NewFile
    <3>3. tmp' \in Files
      BY <3>1, <3>2, FileState DEF Torn
    <3> QED BY <2>1, <3>2, <3>3 DEF SaveBegin
  <2>4. CASE pc' # "write"
    BY <2>1, <2>4 DEF SaveBegin
  <2> QED BY <2>3, <2>4
<1>3. CASE SaveWrite
  <2>1. Torn(data) \in Files /\ [data EXCEPT !.state = "unsynced"] \in Files
    BY <1>3, FileState DEF SaveWrite, CallInv, Saving, Torn
  <2> QED BY <1>3, <2>1 DEF SaveWrite
<1>4. CASE SaveFails
  BY <1>4, MissingFile DEF SaveFails
<1>5. CASE SaveRename
  BY <1>5, MissingFile DEF SaveRename
<1>6. CASE SaveReturn
  BY <1>6 DEF SaveReturn
<1>7. CASE \E h \in Handles : OpenRead(h)
  BY <1>7 DEF OpenRead
<1>8. CASE OpenBackup
  <2>1. Torn(path) \in Files
    BY <1>8, FileState DEF OpenBackup, CallInv, Opening, Torn
  <2> QED BY <1>8, <2>1 DEF OpenBackup
<1>9. CASE OpenCopy
  <2>1. [path EXCEPT !.state = "unsynced"] \in Files
    BY <1>9, FileState DEF OpenCopy, CallInv, Opening
  <2> QED BY <1>9, <2>1 DEF OpenCopy
<1>10. CASE OpenMigrate
  <2>1. data.doc \in Nat /\ data.origin \in OldVersions \cup {NoOrigin}
    BY <1>10, FileFields DEF OpenMigrate, CallInv, Opening
  <2> QED BY <1>10, <2>1 DEF OpenMigrate, Projects
<1>11. CASE Crash
  <2>1. acked' \in Files /\ undone' \in BOOLEAN
    BY <1>11 DEF Crash
  <2> QED BY <1>11, <2>1 DEF Crash, Ends, Closed, Projects
<1>12. CASE PowerLoss
  <2>1. path' \in Files /\ tmp' \in Files
    BY <1>12, FileAfterPowerLoss, MissingFile DEF PowerLoss
  <2>2. bak' \in [OldVersions -> Files]
    BY <1>12, FileAfterPowerLoss DEF PowerLoss
  <2> QED BY <1>12, <2>1, <2>2 DEF PowerLoss, Ends, Closed, Projects
<1>13. CASE UNCHANGED vars
  BY <1>13 DEF vars
<1> QED BY <1>1, <1>2, <1>3, <1>4, <1>5, <1>6, <1>7, <1>8, <1>9, <1>10, <1>11, <1>12,
           <1>13 DEF Next, Save, Open

LEMMA FileCallStep == IndInv /\ [Next]_vars => CallInv'
<1> SUFFICES ASSUME IndInv, [Next]_vars PROVE CallInv'
  OBVIOUS
<1> USE DEF CallInv, Saving, Opening
<1> USE DEF disk, call, history, saves, backups
<1>0. CallInv /\ data \in Files /\ path \in Files
  BY DEF IndInv, TypeOK
<1>1. CASE \E h \in Handles : Create(h) \/ Destroy(h)
  BY <1>0, <1>1 DEF Create, Destroy, Idle
<1>2. CASE \E h \in Handles : SaveBegin(h)
  <2> PICK h \in Handles : SaveBegin(h)
    BY <1>2
  <2>1. CASE pc' = "write"
    <3>1. data' = [version |-> Current, doc |-> docs', origin |-> mem[h].origin,
                   state |-> "safe"]
      BY <2>1 DEF SaveBegin, Idle
    <3>2. docs' \in Nat /\ mem[h].origin \in OldVersions \cup {NoOrigin}
      BY DEF SaveBegin, IndInv, TypeOK, Projects
    <3> QED BY <2>1, <3>1, <3>2, NewFile
  <2>2. CASE pc' # "write"
    BY <2>2 DEF SaveBegin, Idle
  <2> QED BY <2>1, <2>2
<1>3. CASE SaveWrite
  <2>1. Torn(data).state = "torn" /\ Torn(data).version = data.version
        /\ Torn(data).origin = data.origin
    BY <1>0, <1>3, FileState DEF SaveWrite, Torn
  <2>2. LET u == [data EXCEPT !.state = "unsynced"]
        IN  u.state = "unsynced" /\ u.version = data.version /\ u.origin = data.origin
    BY <1>0, <1>3, FileState DEF SaveWrite
  <2>3. lossy \in BOOLEAN
    BY DEF IndInv, TypeOK
  <2> QED BY <1>0, <1>3, <2>1, <2>2, <2>3 DEF SaveWrite
<1>4. CASE SaveFails
  BY <1>4 DEF SaveFails
<1>5. CASE SaveRename
  BY <1>0, <1>5 DEF SaveRename
<1>6. CASE SaveReturn
  BY <1>6 DEF SaveReturn
<1>7. CASE \E h \in Handles : OpenRead(h)
  BY <1>7 DEF OpenRead
<1>8. CASE OpenBackup
  BY <1>0, <1>8 DEF OpenBackup
<1>9. CASE OpenCopy
  BY <1>0, <1>9 DEF OpenCopy
<1>10. CASE OpenMigrate
  BY <1>10 DEF OpenMigrate
<1>11. CASE Crash \/ PowerLoss
  BY <1>11 DEF Crash, PowerLoss, Ends
<1>12. CASE UNCHANGED vars
  BY <1>0, <1>12 DEF vars
<1> QED BY <1>1, <1>2, <1>3, <1>4, <1>5, <1>6, <1>7, <1>8, <1>9, <1>10, <1>11, <1>12
        DEF Next, Save, Open

LEMMA FileDiskStep == IndInv /\ [Next]_vars => DiskInv'
<1> SUFFICES ASSUME IndInv, [Next]_vars PROVE DiskInv'
  OBVIOUS
<1> USE DEF DiskInv
<1> USE DEF disk, call, history, saves, backups
<1>0. DiskInv /\ CallInv /\ older \subseteq Files /\ path \in Files
  BY DEF IndInv, TypeOK
<1>1. CASE \E h \in Handles : Create(h) \/ Destroy(h)
  BY <1>0, <1>1 DEF Create, Destroy
<1>2. CASE \E h \in Handles : SaveBegin(h)
  BY <1>0, <1>2 DEF SaveBegin, Idle
<1>3. CASE SaveWrite
  BY <1>0, <1>3 DEF SaveWrite
<1>4. CASE SaveFails
  BY <1>0, <1>4 DEF SaveFails
<1>5. CASE SaveRename
  <2>1. ~lossy => tmp = data /\ data.state \in OnDisk
    BY <1>0, <1>5 DEF SaveRename, CallInv, Saving, OnDisk
  <2> QED BY <1>0, <1>5, <2>1 DEF SaveRename
<1>6. CASE SaveReturn
  BY <1>0, <1>6 DEF SaveReturn
<1>7. CASE \E h \in Handles : OpenRead(h)
  BY <1>0, <1>7 DEF OpenRead, Idle
<1>8. CASE OpenBackup
  BY <1>0, <1>8 DEF OpenBackup
<1>9. CASE OpenCopy
  BY <1>0, <1>9 DEF OpenCopy
<1>10. CASE OpenMigrate
  BY <1>0, <1>10 DEF OpenMigrate
<1>11. CASE Crash
  BY <1>0, <1>11 DEF Crash, Ends
<1>12. CASE PowerLoss
  <2>1. PICK f \in older : path' \in AfterPowerLoss(f)
    BY <1>12 DEF PowerLoss
  <2>2. ~lossy => path' = f
    BY <1>0, <2>1, FileAfterPowerLoss
  <2> QED BY <1>0, <1>12, <2>1, <2>2 DEF PowerLoss, Ends
<1>13. CASE UNCHANGED vars
  BY <1>0, <1>13 DEF vars
<1> QED BY <1>1, <1>2, <1>3, <1>4, <1>5, <1>6, <1>7, <1>8, <1>9, <1>10, <1>11, <1>12,
           <1>13 DEF Next, Save, Open

LEMMA FileOriginStep == IndInv /\ [Next]_vars => OriginInv'
<1> SUFFICES ASSUME IndInv, [Next]_vars PROVE OriginInv'
  OBVIOUS
<1> USE DEF OriginInv, BackedUp, Descends
<1> USE DEF disk, call, history, saves, backups
<1>0. OriginInv /\ CallInv /\ DiskInv /\ TypeOK
  BY DEF IndInv
<1>1. CASE \E h \in Handles : Create(h) \/ Destroy(h)
  BY <1>0, <1>1 DEF Create, Destroy, Idle, Saving, Closed, TypeOK
<1>2. CASE \E h \in Handles : SaveBegin(h)
  <2> PICK h \in Handles : SaveBegin(h)
    BY <1>2
  <2>1. mem[h].origin # NoOrigin =>
          mem[h].origin = original.version /\ BackedUp
    BY <1>0 DEF SaveBegin, Idle
  <2>2. \A g \in Handles : mem'[g].origin = mem[g].origin
    BY <1>0 DEF SaveBegin, TypeOK, Projects
  <2>3. Saving' => data'.origin = mem[h].origin
    BY DEF SaveBegin, Idle, Saving
  <2> QED BY <1>0, <2>1, <2>2, <2>3 DEF SaveBegin, Idle
<1>3. CASE SaveWrite
  BY <1>0, <1>3 DEF SaveWrite, Saving
<1>4. CASE SaveFails
  BY <1>0, <1>4 DEF SaveFails, Saving
<1>5. CASE SaveRename
  <2>1. tmp.version \notin OldVersions /\ tmp.origin = data.origin
    BY <1>0, <1>5 DEF SaveRename, CallInv, OldVersions, Current
  <2> QED BY <1>0, <1>5, <2>1 DEF SaveRename, Saving
<1>6. CASE SaveReturn
  BY <1>0, <1>6 DEF SaveReturn, Saving
<1>7. CASE \E h \in Handles : OpenRead(h)
  BY <1>0, <1>7 DEF OpenRead, Idle, Saving
<1>8. CASE OpenBackup
  <2>1. path.version \in OldVersions
    BY <1>0, <1>8 DEF OpenBackup, CallInv, Opening
  <2>2. \A f \in older : ~Descends(f)
    BY <1>0, <2>1
  <2> QED BY <1>0, <1>8, <2>2 DEF OpenBackup, Saving
<1>9. CASE OpenCopy
  <2>1. path.version \in OldVersions /\ path = original /\ data = path
    BY <1>0, <1>9 DEF OpenCopy, CallInv, Opening, DiskInv
  <2>2. BackedUp'
    BY <1>0, <1>9, <2>1 DEF OpenCopy, TypeOK
  <2> QED BY <1>0, <1>9, <2>2 DEF OpenCopy, Saving
<1>10. CASE OpenMigrate
  <2>1. path \in older /\ data = path
    BY <1>0, <1>10 DEF OpenMigrate, CallInv, Opening, DiskInv
  <2>2. data.version \in OldVersions =>
          data.version = original.version /\ BackedUp
    BY <1>0, <1>10, <2>1 DEF OpenMigrate
  <2>3. data.origin # NoOrigin =>
          data.origin = original.version /\ BackedUp
    BY <1>0, <2>1
  <2>4. \A h \in Handles : Descends(mem'[h]) =>
          mem'[h].origin = original.version /\ BackedUp
    BY <1>0, <1>10, <2>2, <2>3 DEF OpenMigrate, TypeOK
  <2> QED BY <1>0, <1>10, <2>4 DEF OpenMigrate, Saving
<1>11. CASE Crash
  BY <1>0, <1>11 DEF Crash, Ends, Closed, Saving
<1>12. CASE PowerLoss
  <2>1. PICK f \in older : path' \in AfterPowerLoss(f)
    BY <1>12 DEF PowerLoss
  <2>2. f \in Files
    BY <1>0, <2>1 DEF TypeOK
  <2>3. path'.version = f.version /\ path'.origin = f.origin
        /\ (f.state \in OnDisk => path' = f)
    BY <2>1, <2>2, FileAfterPowerLoss
  <2>4. path'.version \in OldVersions => path' = original
    BY <1>0, <2>1, <2>3
  <2>6. original.version \in OldVersions /\ BackedUp => BackedUp'
    <3> SUFFICES ASSUME original.version \in OldVersions, BackedUp,
                        ~unsaved, ~unkept'
                 PROVE  BackedUp'
      BY <1>12 DEF PowerLoss, Ends
    <3> DEFINE v == original.version
    <3>1. ~unkept /\ bak[v] \in {original, [original EXCEPT !.state = "unsynced"]}
      BY <1>12 DEF PowerLoss, BackedUp
    <3>2. bak'[v] \in AfterPowerLoss(bak[v])
      BY <1>12 DEF PowerLoss
    <3>3. ~(bak[v].state = "unsynced" /\ bak'[v].state = "torn")
      BY <1>12 DEF PowerLoss
    <3>4. original \in Files /\ original.state \in OnDisk
      BY <1>0 DEF TypeOK
    <3>5. bak'[v] \in {original, [original EXCEPT !.state = "unsynced"]}
      BY <3>1, <3>2, <3>3, <3>4, BackupAfterPowerLoss
    <3> QED BY <1>12, <3>5 DEF PowerLoss, Ends
  <2>7. Descends(path') => path'.origin \in OldVersions
    BY <1>0, <2>1, <2>2, <2>3, FileFields
  <2>5. Descends(path') => path'.origin = original.version /\ BackedUp'
    BY <1>0, <2>1, <2>3, <2>6, <2>7
  <2> QED BY <1>0, <1>12, <2>4, <2>5 DEF PowerLoss, Ends, Closed, Saving
<1>13. CASE UNCHANGED vars
  BY <1>0, <1>13 DEF vars, Saving
<1> QED BY <1>1, <1>2, <1>3, <1>4, <1>5, <1>6, <1>7, <1>8, <1>9, <1>10, <1>11, <1>12,
           <1>13 DEF Next, Save, Open

LEMMA FileInvariant == Spec => []IndInv
<1>1. IndInv /\ [Next]_vars => IndInv'
  BY FileTypeStep, FileCallStep, FileDiskStep, FileOriginStep DEF IndInv
<1> QED BY FileInit, <1>1, PTL DEF Spec

-----------------------------------------------------------------------------
(***************************************************************************)
(* The theorems.                                                           *)
(***************************************************************************)

\* Every variable has its type in every state.
THEOREM FileTypeOK == Spec => []TypeOK
<1>1. IndInv => TypeOK
  BY DEF IndInv
<1> QED BY FileInvariant, <1>1, PTL

\* Whatever a save does, and wherever a crash or a power failure cuts it off, the
\* document on the disk is whole and one that was there or that some save wrote, and
\* the last one of those unless a power failure has taken that one back; as long as no
\* flush fails unnoticed.
THEOREM FileKeepsLastSave == Spec => []FileIsLastSaved
<1>1. IndInv => FileIsLastSaved
  BY DEF IndInv, DiskInv, FileIsLastSaved, IsLastSaved, Whole, OnDisk
<1> QED BY FileInvariant, <1>1, PTL

\* While a project or the file descends from a document of an old version, that
\* document is in the file or in its backup, unless the last copy failed or a power
\* failure tore it.
THEOREM FileKeepsOriginal == Spec => []OriginalIsKept
<1>1. IndInv => OriginalIsKept
  <2> SUFFICES ASSUME IndInv,
                      NEW p \in {mem[h] : h \in Handles} \cup {path},
                      p.origin # NoOrigin, ~unsaved, ~unkept
               PROVE  \/ path = original
                      \/ bak[p.origin] \in {original, [original EXCEPT !.state = "unsynced"]}
    BY DEF OriginalIsKept
  <2>1. p.origin = original.version /\ (BackedUp \/ pc = "copy")
    BY DEF IndInv, OriginInv, DiskInv, Descends
  <2>2. pc = "copy" => path = original
    BY DEF IndInv, OriginInv, DiskInv, CallInv, Opening
  <2> QED BY <2>1, <2>2 DEF BackedUp
<1> QED BY FileInvariant, <1>1, PTL
=============================================================================
