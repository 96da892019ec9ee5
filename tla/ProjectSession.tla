--------------------------- MODULE ProjectSession ---------------------------
(***************************************************************************)
(* The open project in the app: ProjectViewModel, which owns the native    *)
(* handle and shows a UiState, and the view models of the graph editors    *)
(* (SignalGraphViewModel and its two siblings), each with its own mirror   *)
(* of the handle, which the main thread takes from the UiState.            *)
(*                                                                         *)
(* An operation is a coroutine of an I/O dispatcher: it is launched by the *)
(* main thread, takes nativeMutex in any order among its like, and has the *)
(* mutex until it ends.  At the end the main thread clears the view models *)
(* one after the other, ProjectViewModel first, and does nothing else      *)
(* meanwhile.  Clearing a view model cancels its coroutines, which ends    *)
(* those that have not begun or are suspended at the mutex.  One that a    *)
(* thread is running up to there goes on: withLock takes a mutex that is   *)
(* free without a look at the cancellation, and only suspending ends it.   *)
(***************************************************************************)
EXTENDS Naturals, FiniteSets

CONSTANTS
  Editors,       \* the view models of the graph editors
  MaxHandles,    \* bound of the model: native projects
  MaxJobs        \* bound of the model: coroutines that the main thread launches

ASSUME SessionAssumption ==
  /\ "project" \notin Editors
  /\ MaxHandles \in Nat /\ MaxJobs \in Nat

Handles == 1 .. MaxHandles
Jobs == 1 .. MaxJobs

VARIABLES
  handle,     \* ProjectViewModel.handle, 0 for none
  state,      \* its UiState: the handle in a Ready and the document it shows
  native,     \* per handle: "none" so far, "alive" or "freed"
  doc,        \* per handle: the number of edits in the document
  lock,       \* the coroutine with nativeMutex, 0 for none
  job,        \* per coroutine: what it does, for whom and how far it is
  mirror,     \* per editor: its handle
  bound,      \* the editors that are bound to the project
  scopes,     \* the view models that are not cleared
  closed      \* whether ProjectViewModel.close() has come to its end

projectVars == <<handle, state, native, doc>>
editorVars == <<mirror, bound>>
vars == <<projectVars, lock, job, editorVars, scopes, closed>>

Loading == [kind |-> "loading", handle |-> 0, shown |-> 0]
Error == [Loading EXCEPT !.kind = "error"]
Ready(h, edits) == [kind |-> "ready", handle |-> h, shown |-> edits]

Unused == [op |-> "none", by |-> "project", pc |-> "unused"]
Done == [Unused EXCEPT !.pc = "done"]

Init ==
  /\ handle = 0 /\ state = Loading
  /\ native = [h \in Handles |-> "none"]
  /\ doc = [h \in Handles |-> 0]
  /\ lock = 0 /\ job = [j \in Jobs |-> Unused]
  /\ mirror = [e \in Editors |-> 0] /\ bound = {}
  /\ scopes = Editors \cup {"project"} /\ closed = FALSE

MainIsFree == "project" \in scopes

(***************************************************************************)
(* The main thread.                                                        *)
(***************************************************************************)

OwnOps == {"create", "open", "edit", "venue", "save"}

\* The user starts an operation; an editor that is not bound starts none.
Launch(op, by) ==
  /\ MainIsFree
  /\ IF op = "commit" THEN by \in bound ELSE by = "project"
  /\ \E j \in Jobs :
       /\ job[j] = Unused /\ \A i \in 1 .. j - 1 : job[i] # Unused
       /\ job' = [job EXCEPT ![j] = [op |-> op, by |-> by, pc |-> "waiting"]]
  /\ UNCHANGED <<projectVars, lock, editorVars, scopes, closed>>

Bind(e) ==
  /\ MainIsFree /\ e \notin bound
  /\ state.kind = "ready"
  /\ bound' = bound \cup {e}
  /\ mirror' = [mirror EXCEPT ![e] = state.handle]
  /\ UNCHANGED <<projectVars, lock, job, scopes, closed>>

\* Mutant: an error leaves the mirror as it is.
CollectReady(e) ==
  /\ MainIsFree /\ e \in bound
  /\ state.kind = "ready"
  /\ mirror[e] # state.handle
  /\ mirror' = [mirror EXCEPT ![e] = state.handle]
  /\ UNCHANGED <<projectVars, lock, job, bound, scopes, closed>>

\* The collector of the editor sees the newest state, not every one.
Collect(e) ==
  /\ MainIsFree /\ e \in bound
  /\ mirror[e] # state.handle
  /\ mirror' = [mirror EXCEPT ![e] = state.handle]
  /\ UNCHANGED <<projectVars, lock, job, bound, scopes, closed>>

\* Any of those that wait may be running, and is then not ended.
Cancel(by) ==
  /\ scopes' = scopes \ {by}
  /\ \E running \in SUBSET {j \in Jobs : job[j].pc = "waiting" /\ job[j].by = by} :
       job' = [j \in Jobs |-> IF job[j].pc = "waiting" /\ job[j].by = by /\ j \notin running
                              THEN Done ELSE job[j]]

ClearProject ==
  /\ MainIsFree
  /\ Cancel("project")
  /\ UNCHANGED <<projectVars, lock, editorVars, closed>>

\* Mutant: the handle outlives its project.
CloseKeepsHandle ==
  /\ ~MainIsFree /\ ~closed /\ lock = 0
  /\ closed' = TRUE
  /\ native' = [h \in Handles |-> IF h = handle THEN "freed" ELSE native[h]]
  /\ UNCHANGED <<handle, state, doc, lock, job, editorVars, scopes>>

\* close(), called from onCleared: waits for the mutex on the main thread.
Close ==
  /\ ~MainIsFree /\ ~closed /\ lock = 0
  /\ closed' = TRUE
  /\ native' = [h \in Handles |-> IF h = handle THEN "freed" ELSE native[h]]
  /\ handle' = 0
  /\ state' = IF handle = 0 THEN state ELSE Loading
  /\ UNCHANGED <<doc, lock, job, editorVars, scopes>>

ClearEditor(e) ==
  /\ closed /\ e \in scopes
  /\ Cancel(e)
  /\ UNCHANGED <<projectVars, lock, editorVars, closed>>

(***************************************************************************)
(* A coroutine takes the mutex, does its work and gives the mutex back.    *)
(***************************************************************************)

IsCancelled(j) == job[j].by \notin scopes
FileOps == {"open", "save"}

Enter(j) ==
  /\ job[j].pc = "waiting" /\ lock = 0
  /\ ~(IsCancelled(j) /\ job[j].op \in FileOps)
  /\ lock' = j
  /\ job' = [job EXCEPT ![j].pc = "inside"]
  /\ state' = IF job[j].op \in {"create", "open"} THEN Loading ELSE state
  /\ UNCHANGED <<handle, native, doc, editorVars, scopes, closed>>

\* A cancelled coroutine that finds the mutex taken suspends and so ends.
GiveUp(j) ==
  /\ job[j].pc = "waiting" /\ lock # 0 /\ IsCancelled(j)
  /\ job' = [job EXCEPT ![j] = Done]
  /\ UNCHANGED <<projectVars, lock, editorVars, scopes, closed>>

\* One that finds it free has it up to its file operation, which suspends.
EndAtFile(j) ==
  /\ job[j].pc = "waiting" /\ lock = 0 /\ IsCancelled(j)
  /\ \/ job[j].op = "open" /\ state' = Loading
     \/ job[j].op = "save" /\ state' = Error
     \/ job[j].op = "save" /\ handle # 0 /\ UNCHANGED state
  /\ job' = [job EXCEPT ![j] = Done]
  /\ UNCHANGED <<handle, native, doc, lock, editorVars, scopes, closed>>

Inside(j, op) == lock = j /\ job[j].op = op

Leave(j) ==
  /\ lock' = 0
  /\ job' = [job EXCEPT ![j] = Done]
  /\ UNCHANGED <<editorVars, scopes, closed>>

\* projectCreate or projectFromJson returns a project; the handle of the one that
\* was open is written over.
Adopt(j) ==
  /\ Inside(j, "create") \/ Inside(j, "open")
  /\ \E h \in Handles :
       /\ native[h] = "none" /\ \A g \in 1 .. h - 1 : native[g] # "none"
       /\ native' = [native EXCEPT ![h] = "alive"]
       /\ handle' = h /\ state' = Ready(h, 0)
  /\ UNCHANGED doc
  /\ Leave(j)

\* It returns none, or the file cannot be read or written: handle stays.
Fail(j) ==
  /\ \/ Inside(j, "create") \/ Inside(j, "open")
     \/ Inside(j, "save")
  /\ state' = Error
  /\ UNCHANGED <<handle, native, doc>>
  /\ Leave(j)

\* Cancelled while it has the mutex, it ends at its file operation, or went past it.
Abort(j) ==
  /\ Inside(j, "open") \/ Inside(j, "save")
  /\ "project" \notin scopes
  /\ UNCHANGED projectVars
  /\ Leave(j)

Calls(op) == IF op = "venue" THEN 2 ELSE 1     \* renameVenue, setVenueDimensions

\* Mutant: what is shown stays when a call fails.
EditQuietly(j) ==
  /\ Inside(j, "edit") \/ Inside(j, "venue")
  /\ IF handle = 0 THEN UNCHANGED <<state, doc>>
     ELSE \E done \in 0 .. Calls(job[j].op) :
            /\ doc' = [doc EXCEPT ![handle] = @ + done]
            /\ state' = IF done = Calls(job[j].op) THEN Ready(handle, doc'[handle])
                        ELSE state
  /\ UNCHANGED <<handle, native>>
  /\ Leave(j)

\* The first call that fails ends the edit; those before it stand.
Edit(j) ==
  /\ Inside(j, "edit") \/ Inside(j, "venue")
  /\ IF handle = 0 THEN UNCHANGED <<state, doc>>
     ELSE \E done \in 0 .. Calls(job[j].op) :
            /\ doc' = [doc EXCEPT ![handle] = @ + done]
            /\ state' = IF done = Calls(job[j].op) THEN Ready(handle, doc'[handle])
                        ELSE Error
  /\ UNCHANGED <<handle, native>>
  /\ Leave(j)

\* The state is put together from the one before, which may have been an error and
\* then gives the handle 0.
Save(j) ==
  /\ Inside(j, "save")
  /\ state' = IF handle = 0 THEN Error
              ELSE IF state.kind = "ready" THEN state ELSE Ready(0, 0)
  /\ UNCHANGED <<handle, native, doc>>
  /\ Leave(j)

\* The edit of an editor, on the handle of its mirror.  When it is done and the
\* mutex given back, refreshState launches a coroutine of the project's scope.  A
\* mirror that is cleared between the check and the call makes the call fail.
Commit(j) ==
  /\ Inside(j, "commit")
  /\ LET h == mirror[job[j].by]
     IN  \/ UNCHANGED doc /\ Leave(j)      \* no handle, or the native call fails
         \/ /\ h # 0
            /\ doc' = [doc EXCEPT ![h] = @ + 1]
            /\ lock' = 0
            /\ job' = [job EXCEPT ![j] =
                         IF "project" \notin scopes THEN Done
                         ELSE [op |-> "refresh", by |-> "project", pc |-> "waiting"]]
            /\ UNCHANGED <<editorVars, scopes, closed>>
  /\ UNCHANGED <<handle, state, native>>

Refresh(j) ==
  /\ Inside(j, "refresh")
  /\ state' = IF handle = 0 THEN state ELSE Ready(handle, doc[handle])
  /\ UNCHANGED <<handle, native, doc>>
  /\ Leave(j)

Work(j) == \/ Enter(j) \/ GiveUp(j) \/ EndAtFile(j) \/ Adopt(j) \/ Fail(j) \/ Abort(j)
           \/ Edit(j) \/ Save(j) \/ Commit(j) \/ Refresh(j)

Next ==
  \/ \E op \in OwnOps : Launch(op, "project")
  \/ \E e \in Editors : Launch("commit", e) \/ Bind(e) \/ Collect(e) \/ ClearEditor(e)
  \/ ClearProject \/ Close
  \/ \E j \in Jobs : Work(j)

\* Coroutines that can run do, and so does the main thread: it collects, binds and,
\* once it has begun to clear, goes on.  Nothing makes the user start anything.
Fairness ==
  /\ \A j \in Jobs : WF_vars(Work(j))
  /\ \A e \in Editors : WF_vars(Collect(e)) /\ WF_vars(ClearEditor(e))
  /\ WF_vars(Close)

Spec == Init /\ [][Next]_vars /\ Fairness

-----------------------------------------------------------------------------
(***************************************************************************)
(* Properties.                                                             *)
(***************************************************************************)

\* The values of the variables.
TypeOK ==
  /\ handle \in Handles \cup {0}
  /\ state \in [kind : {"loading", "ready", "error"}, handle : Handles \cup {0},
                shown : Nat]
  /\ native \in [Handles -> {"none", "alive", "freed"}]
  /\ doc \in [Handles -> Nat]
  /\ lock \in Jobs \cup {0}
  /\ job \in [Jobs -> [op : OwnOps \cup {"commit", "refresh", "none"},
                       by : Editors \cup {"project"},
                       pc : {"unused", "waiting", "inside", "done"}]]
  /\ mirror \in [Editors -> Handles \cup {0}] /\ bound \subseteq Editors
  /\ scopes \subseteq Editors \cup {"project"} /\ closed \in BOOLEAN

\* The handle of ProjectViewModel is that of a project that is alive, and so is the
\* one in the state it shows, which is no other project's: after opening over an
\* open project, after failed edits and saves, after closing, and when coroutines
\* that were cancelled too late work on beside the closing or behind it.
OwnerIsLive ==
  /\ handle # 0 => native[handle] = "alive"
  /\ state.handle \in {0, handle}

\* When nothing is in flight, a screen that shows the project shows the document as
\* it is, all the edits of the editors and what is done of an edit in two calls
\* included.
QuietScreenIsTrue ==
  /\ MainIsFree /\ state.handle # 0
  /\ \A j \in Jobs : job[j].pc \in {"unused", "done"}
  => state.shown = doc[handle]

\* The editors come to have the handle of the state, and the closing comes to its
\* end although it waits for the mutex on the main thread.
EditorsCatchUp ==
  /\ \A e \in Editors : <>[](MainIsFree /\ e \in bound => mirror[e] = state.handle)
  /\ ~MainIsFree ~> closed

\* "Live project handle mirrored from ProjectViewModel.state"
\* (SignalGraphViewModel.kt:29), and the mutex is waited for "so no commit is in
\* flight during destroy" (:99): a commit edits the project that is open.
CommitIsOnOpenProject ==
  \A j \in Jobs : Inside(j, "commit") => mirror[job[j].by] \in {0, handle}

\* "close() joins in-flight work" (RELEASE_NOTES_G1.md:101), and "onCleared() ->
\* sf_project_destroy() -> free" (PLAN_G0.md:513): behind it no project is open.  One
\* is, when a create that was running up to the mutex takes it behind close().
CloseLeavesNone == closed => handle = 0
=============================================================================
