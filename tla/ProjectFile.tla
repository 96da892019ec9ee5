---------------------------- MODULE ProjectFile ----------------------------
(***************************************************************************)
(* Projects and the document file they are opened from and saved to:       *)
(* sf_project_save_to_path with write_file_atomic, and                     *)
(* sf_project_open_from_path with its backup and migration                 *)
(* (native/src/core/project.cpp).  Every call into the file system may     *)
(* fail, and the process or the power may go at any moment.                *)
(*                                                                         *)
(* Calls do not overlap: the app makes them under one mutex.  A call that  *)
(* is refused before it changes anything makes no step.                    *)
(***************************************************************************)
EXTENDS Integers

CONSTANTS
  Handles,    \* project handles
  MaxDocs,    \* bound of the model: states of a document made in a behaviour
  MaxCrashes  \* bound of the model: crashes and power failures

ASSUME FileAssumption == MaxDocs \in Nat /\ MaxCrashes \in Nat

Current == 2                  \* SF_SCHEMA_VERSION
OldVersions == 0 .. Current - 1
Versions == 0 .. Current + 1  \* one from the future is refused
NoOrigin == -1
Missing == [version |-> NoOrigin, doc |-> 0, origin |-> NoOrigin, state |-> "missing"]

\* A file: the state of the document it has, the version that was migrated to
\* make it, and whether its bytes are there and have reached the disk.
Files ==
  [version : Versions, doc : Nat, origin : OldVersions \cup {NoOrigin},
   state : {"torn", "unsynced", "safe"}] \cup {Missing}

Closed == [doc |-> 0, origin |-> NoOrigin]
Projects == [doc : Nat, origin : OldVersions \cup {NoOrigin}]

VARIABLES
  path, tmp, bak,  \* the document, its .tmp, and its .bak.v<from> by version
  older,           \* what the name of the document may stand for on the disk
  mem,             \* SfProject::doc by handle, Closed for no project
  docs,            \* states of a document made so far
  pc, serving,     \* the call in progress: its place and its handle
  data,            \* open: what was read; save: the file it means to write
  complete,        \* save: fwrite took every byte
  original,        \* history: the document the behaviour began with
  saved,           \* history: the file at the start, and what saves put in its place
  acked,           \* history: the last of them, in a call that said SF_OK or was
                   \* cut off before it could
  undone,          \* history: a power failure has taken acked back
  lossy,           \* history: fflush, fsync or fclose failed
  unsaved,         \* history: the last backup could not be made
  unkept,          \* history: it was made, and a power failure tore it
  crashes

disk    == <<path, tmp, bak, older>>
call    == <<pc, serving, data, complete>>
saves   == <<saved, acked, undone, lossy>>
backups == <<original, unsaved, unkept>>
history == <<saves, backups, crashes>>
vars == <<disk, mem, docs, call, history>>

Torn(f) == [f EXCEPT !.state = "torn"]

Init ==
  /\ \/ path = Missing
     \/ \E v \in Versions :
          path = [version |-> v, doc |-> 1, origin |-> NoOrigin, state |-> "safe"]
  /\ tmp = Missing /\ bak = [v \in OldVersions |-> Missing] /\ older = {path}
  /\ mem = [h \in Handles |-> Closed] /\ docs = 1
  /\ pc = "idle" /\ serving \in Handles /\ data = Missing /\ complete = FALSE
  /\ original = path /\ acked = path /\ saved = {path} /\ undone = FALSE
  /\ lossy = FALSE /\ unsaved = FALSE /\ unkept = FALSE /\ crashes = 0

Idle == pc = "idle"

\* sf_project_create.
Create(h) ==
  /\ Idle /\ mem[h] = Closed /\ docs < MaxDocs
  /\ docs' = docs + 1
  /\ mem' = [mem EXCEPT ![h] = [doc |-> docs', origin |-> NoOrigin]]
  /\ UNCHANGED <<disk, call, history>>

\* sf_project_destroy.
Destroy(h) ==
  /\ Idle /\ mem[h] # Closed
  /\ mem' = [mem EXCEPT ![h] = Closed]
  /\ UNCHANGED <<disk, docs, call, history>>

(***************************************************************************)
(* sf_project_save_to_path                                                 *)
(***************************************************************************)

\* The audit entry and modifiedAt are set before anything can fail; then .tmp is
\* opened, which empties what a crash left there.
SaveBegin(h) ==
  /\ Idle /\ mem[h] # Closed /\ docs < MaxDocs
  /\ docs' = docs + 1
  /\ mem' = [mem EXCEPT ![h].doc = docs']
  /\ \/ /\ data' = [version |-> Current, doc |-> docs', origin |-> mem[h].origin,
                    state |-> "safe"]
        /\ tmp' = Torn(data')
        /\ pc' = "write" /\ serving' = h
     \/ UNCHANGED <<data, tmp, pc, serving>>
  /\ UNCHANGED <<path, bak, older, complete, history>>

\* fwrite, fflush, fsync and fclose.  Only the count of fwrite is looked at, and
\* what stdio has buffered is in it.
SaveWrite ==
  /\ pc = "write"
  /\ \/ tmp' = data /\ complete' = TRUE /\ UNCHANGED lossy
     \/ tmp' = Torn(data) /\ complete' = FALSE /\ UNCHANGED lossy
     \/ /\ tmp' \in {Torn(data), [data EXCEPT !.state = "unsynced"]}
        /\ complete' = TRUE /\ lossy' = TRUE
  /\ pc' = "rename"
  /\ UNCHANGED <<path, bak, older, mem, docs, serving, data, saved, acked, undone,
                 backups, crashes>>

\* Mutant: a rename that fails is reported as SF_OK.
SaveFailsQuietly ==
  /\ pc = "rename"
  /\ tmp' = Missing
  /\ acked' = IF complete THEN data ELSE acked
  /\ pc' = "idle"
  /\ UNCHANGED <<path, bak, older, mem, docs, serving, data, complete, saved, undone,
                 lossy, backups, crashes>>

\* A short write, or a rename that fails: .tmp is removed and SF_E_IO returned.
SaveFails ==
  /\ pc = "rename"
  /\ tmp' = Missing
  /\ pc' = "idle"
  /\ UNCHANGED <<path, bak, older, mem, docs, serving, data, complete, history>>

SaveRename ==
  /\ pc = "rename" /\ complete
  /\ path' = tmp /\ older' = older \cup {tmp}
  /\ tmp' = Missing
  /\ saved' = saved \cup {data}
  /\ pc' = "renamed"
  /\ UNCHANGED <<bak, mem, docs, serving, data, complete, acked, undone, lossy, backups,
                 crashes>>

SaveReturn ==
  /\ pc = "renamed"
  /\ acked' = data /\ undone' = FALSE
  /\ pc' = "idle"
  /\ UNCHANGED <<disk, mem, docs, serving, data, complete, saved, lossy, backups,
                 crashes>>

(***************************************************************************)
(* sf_project_open_from_path                                               *)
(***************************************************************************)

\* Mutant: a document of the first version only is backed up.
OpenReadOldest(h) ==
  /\ Idle /\ mem[h] = Closed
  /\ path.state \notin {"missing", "torn"} /\ path.version <= Current
  /\ data' = path /\ serving' = h
  /\ pc' = IF path.version = 0 THEN "backup" ELSE "migrate"
  /\ UNCHANGED <<disk, mem, docs, complete, history>>

\* What is missing, cannot be parsed, or is from the future is refused.
OpenRead(h) ==
  /\ Idle /\ mem[h] = Closed
  /\ path.state \notin {"missing", "torn"} /\ path.version <= Current
  /\ data' = path /\ serving' = h
  /\ pc' = IF path.version \in OldVersions THEN "backup" ELSE "migrate"
  /\ UNCHANGED <<disk, mem, docs, complete, history>>

\* copy_file: the backup is truncated, or cannot be opened.
OpenBackup ==
  /\ pc = "backup"
  /\ \/ /\ bak' = [bak EXCEPT ![data.version] = Torn(path)]
        /\ pc' = "copy"
        /\ UNCHANGED unsaved
     \/ /\ unsaved' = TRUE
        /\ pc' = "migrate"
        /\ UNCHANGED bak
  /\ UNCHANGED <<path, tmp, older, mem, docs, serving, data, complete, saves,
                 original, unkept, crashes>>

\* The copy is made or comes out short; nothing looks at which, nothing syncs it.
OpenCopy ==
  /\ pc = "copy"
  /\ \/ /\ bak' = [bak EXCEPT ![data.version] = [path EXCEPT !.state = "unsynced"]]
        /\ unsaved' = FALSE /\ unkept' = FALSE
     \/ unsaved' = TRUE /\ UNCHANGED <<bak, unkept>>
  /\ pc' = "migrate"
  /\ UNCHANGED <<path, tmp, older, mem, docs, serving, data, complete, saves,
                 original, crashes>>

\* Mutant: a current document is taken through the migration, too.
OpenMigrateAgain ==
  /\ pc = "migrate"
  /\ mem' \in {mem, [mem EXCEPT ![serving] = [doc |-> data.doc, origin |-> data.version]]}
  /\ pc' = "idle"
  /\ UNCHANGED <<disk, docs, serving, data, complete, history>>

\* Migrated, validated and decoded into a project, or refused.
OpenMigrate ==
  /\ pc = "migrate"
  /\ mem' \in {mem, [mem EXCEPT ![serving] =
                       [doc |-> data.doc,
                        origin |-> IF data.version \in OldVersions
                                   THEN data.version ELSE data.origin]]}
  /\ pc' = "idle"
  /\ UNCHANGED <<disk, docs, serving, data, complete, history>>

(***************************************************************************)
(* The world outside the calls.                                            *)
(***************************************************************************)

Ends ==
  /\ crashes < MaxCrashes
  /\ crashes' = crashes + 1
  /\ mem' = [h \in Handles |-> Closed]
  /\ pc' = "idle"
  /\ UNCHANGED <<docs, serving, data, complete, saved, lossy, original, unsaved>>

\* The process is killed: what it wrote is there.
Crash ==
  /\ Ends
  /\ IF pc = "renamed" THEN acked' = data /\ undone' = FALSE
     ELSE UNCHANGED <<acked, undone>>
  /\ UNCHANGED <<disk, unkept>>

AfterPowerLoss(f) ==
  IF f.state = "unsynced" THEN {[f EXCEPT !.state = "safe"], Torn(f)} ELSE {f}

\* What was not synced may be torn, and a rename may not have reached the disk, as
\* no directory is synced: the save that said SF_OK may be gone.
PowerLoss ==
  /\ Ends
  /\ \E f \in older : path' \in AfterPowerLoss(f)
  /\ older' = {path'}
  /\ acked' = IF pc = "renamed" /\ path' = data THEN data ELSE acked
  /\ undone' = (path' # acked')
  /\ tmp' \in {Missing} \cup AfterPowerLoss(tmp)
  /\ bak' \in {b \in [OldVersions -> UNION {AfterPowerLoss(bak[v]) : v \in OldVersions}] :
                 \A v \in OldVersions : b[v] \in AfterPowerLoss(bak[v])}
  /\ unkept' = (unkept \/ \E v \in OldVersions :
                            bak[v].state = "unsynced" /\ bak'[v].state = "torn")

Save == (\E h \in Handles : SaveBegin(h)) \/ SaveWrite \/ SaveFails \/ SaveRename \/ SaveReturn
Open == (\E h \in Handles : OpenRead(h)) \/ OpenBackup \/ OpenCopy \/ OpenMigrate

Next ==
  \/ \E h \in Handles : Create(h) \/ Destroy(h)
  \/ Save \/ Open
  \/ Crash \/ PowerLoss

Spec == Init /\ [][Next]_vars

-----------------------------------------------------------------------------
(***************************************************************************)
(* Properties.                                                             *)
(***************************************************************************)

\* Every variable has a value its C++ counterpart or the file system can have.
TypeOK ==
  /\ path \in Files /\ tmp \in Files /\ older \subseteq Files
  /\ bak \in [OldVersions -> Files]
  /\ mem \in [Handles -> Projects] /\ docs \in Nat
  /\ pc \in {"idle", "write", "rename", "renamed", "backup", "copy", "migrate"}
  /\ serving \in Handles /\ data \in Files /\ complete \in BOOLEAN
  /\ saved \subseteq Files /\ acked \in Files /\ undone \in BOOLEAN
  /\ lossy \in BOOLEAN /\ original \in Files
  /\ unsaved \in BOOLEAN /\ unkept \in BOOLEAN /\ crashes \in Nat

Whole(f) == f.state # "torn"

IsLastSaved == path = acked \/ (pc = "renamed" /\ path = data)

\* The document on the disk is at every moment, and after a crash or a power failure
\* at any step of a save, a whole one that some save wrote or that was there before.
\* Unless a power failure has taken that one back and no save was made since, it is
\* the one of the last save that said SF_OK, or of one that was cut off behind its
\* rename: a save that reports an error, or ends before its rename, leaves it as it
\* was, and a crash of the process loses no save.  All this while no flush fails
\* unnoticed.
FileIsLastSaved ==
  ~lossy => /\ Whole(path) /\ path \in saved
            /\ IsLastSaved \/ undone

\* A document of an old version is not lost by opening and saving it: while a
\* project or the file descends from it, it is in the file or in the backup of its
\* version, unless the last copy that was made of it failed, or succeeded and was
\* torn by a power failure, since copy_file syncs nothing.
OriginalIsKept ==
  \A p \in {mem[h] : h \in Handles} \cup {path} :
    p.origin # NoOrigin /\ ~unsaved /\ ~unkept =>
      path = original \/ bak[p.origin] \in {original, [original EXCEPT !.state = "unsynced"]}

\* A save leaves a whole document, whatever fails: "Atomic save" (PLAN_G0.md:381).
SaveIsAtomic == Whole(path)

\* "Durable, atomic persistence lives in the native core" (FileStorageRepository.kt:3):
\* what a save that said SF_OK has written is there until another is made.  It is
\* not, as the rename is not synced (project.cpp:72).
SaveIsDurable == ~lossy => IsLastSaved

\* "On migrate, write *.sfproj.bak.v<from> alongside original before overwrite"
\* (PLAN_G0.md:384): once the copy has succeeded, a save that overwrites the original
\* leaves it in the backup.  A power failure may have it torn, as copy_file does not
\* sync it (project.cpp:85).
BackupOutlivesOverwrite ==
  path.origin # NoOrigin /\ ~unsaved =>
    bak[path.origin] \in {original, [original EXCEPT !.state = "unsynced"]}
=============================================================================
