------------------------ MODULE ProjectSessionProofs ------------------------
(***************************************************************************)
(* Proofs about ProjectSession, for any number of editors, coroutines and  *)
(* projects: the handle of the open project is never that of a freed one,  *)
(* also when a coroutine goes on behind the closing, and a screen at rest  *)
(* shows the document as it is.                                            *)
(***************************************************************************)
EXTENDS ProjectSession, TLAPS

\* Who a coroutine works for, and that the one with the mutex is inside.
WorkedFor ==
  \A j \in Jobs :
    /\ job[j].op \in OwnOps \cup {"refresh"} => job[j].by = "project"
    /\ job[j].op = "commit" => job[j].by \in Editors
    /\ lock = j => job[j].pc = "inside"

IInv == TypeOK /\ OwnerIsLive /\ WorkedFor

\* The start: no project, no coroutine.
LEMMA InitIInv == Init => IInv
<1> USE SessionAssumption DEF Init, Handles, Jobs, Unused
<1>1. Init => TypeOK
  <2>1. ASSUME Init
        PROVE  /\ job \in [Jobs -> [op : OwnOps \cup {"commit", "refresh", "none"},
                                    by : Editors \cup {"project"},
                                    pc : {"unused", "waiting", "inside", "done"}]]
               /\ state \in [kind : {"loading", "ready", "error"},
                             handle : Handles \cup {0}, shown : Nat]
    BY <2>1 DEF Loading
  <2> HIDE DEF Handles, Jobs
  <2>2. ASSUME Init
        PROVE  /\ native \in [Handles -> {"none", "alive", "freed"}]
               /\ doc \in [Handles -> Nat] /\ mirror \in [Editors -> Handles \cup {0}]
    BY <2>2
  <2>3. ASSUME Init
        PROVE  /\ handle \in Handles \cup {0} /\ lock \in Jobs \cup {0}
               /\ bound \subseteq Editors /\ scopes \subseteq Editors \cup {"project"}
               /\ closed \in BOOLEAN
    BY <2>3
  <2> HIDE DEF Init
  <2> QED BY <2>1, <2>2, <2>3 DEF TypeOK
<1>2. Init => OwnerIsLive
  BY DEF OwnerIsLive, Loading
<1>3. Init => WorkedFor
  BY DEF WorkedFor, OwnOps
<1> QED BY <1>1, <1>2, <1>3 DEF IInv

\* What the main thread does.
LEMMA MainIInv ==
  ASSUME IInv,
         \/ \E op \in OwnOps : Launch(op, "project")
         \/ \E e \in Editors : Launch("commit", e) \/ Bind(e) \/ Collect(e) \/ ClearEditor(e)
         \/ ClearProject \/ Close
  PROVE  IInv'
<1> USE SessionAssumption DEF Handles, Jobs
<1>1. ASSUME NEW op \in OwnOps \cup {"commit"}, NEW by \in Editors \cup {"project"},
             Launch(op, by)
      PROVE  IInv'
  <2>1. TypeOK'
    BY <1>1 DEF IInv, TypeOK, Launch, projectVars, editorVars, OwnOps
  <2>2. OwnerIsLive'
    BY <1>1 DEF IInv, OwnerIsLive, Launch, projectVars
  <2>3. by = "project" \/ op = "commit"
    BY <1>1 DEF Launch
  <2>4. WorkedFor'
    BY <1>1, <2>3 DEF IInv, WorkedFor, Launch, Unused, TypeOK, OwnOps
  <2> QED BY <2>1, <2>2, <2>4 DEF IInv
<1>2. ASSUME NEW e \in Editors, Bind(e) \/ Collect(e)
      PROVE  IInv'
  <2>1. state.handle \in Handles \cup {0}
    BY DEF IInv, TypeOK
  <2>2. TypeOK'
    BY <1>2, <2>1 DEF IInv, TypeOK, Bind, Collect, projectVars
  <2>3. OwnerIsLive'
    BY <1>2 DEF IInv, OwnerIsLive, Bind, Collect, projectVars
  <2>4. WorkedFor'
    BY <1>2 DEF IInv, WorkedFor, Bind, Collect
  <2> QED BY <2>2, <2>3, <2>4 DEF IInv
<1>3. ASSUME NEW by \in Editors \cup {"project"}, Cancel(by),
             UNCHANGED <<projectVars, lock, editorVars, closed>>
      PROVE  IInv'
  <2>1. PICK running \in SUBSET {j \in Jobs : job[j].pc = "waiting" /\ job[j].by = by} :
          job' = [j \in Jobs |-> IF job[j].pc = "waiting" /\ job[j].by = by /\ j \notin running
                                 THEN Done ELSE job[j]]
    BY <1>3 DEF Cancel
  <2>2. (TypeOK /\ OwnerIsLive)'
    BY <1>3, <2>1 DEF IInv, TypeOK, OwnerIsLive, projectVars, editorVars, Cancel, Done, Unused
  <2>3. WorkedFor'
    BY <1>3, <2>1 DEF IInv, TypeOK, WorkedFor, Done, Unused, OwnOps
  <2> QED BY <2>2, <2>3 DEF IInv
<1>4. CASE Close
  <2>1. (TypeOK /\ OwnerIsLive)'
    BY <1>4 DEF IInv, TypeOK, OwnerIsLive, Close, editorVars, Loading
  <2>2. WorkedFor'
    BY <1>4 DEF IInv, WorkedFor, Close
  <2> QED BY <2>1, <2>2 DEF IInv
<1> QED
  BY <1>1, <1>2, <1>3, <1>4 DEF ClearEditor, ClearProject

\* A coroutine that leaves the mutex, whatever it did to the project.
LEMMA LeaveIInv ==
  ASSUME IInv, NEW j \in Jobs, lock = j, Leave(j), (TypeOK /\ OwnerIsLive)'
  PROVE  IInv'
<1> USE SessionAssumption DEF Jobs
<1>1. WorkedFor'
  BY DEF IInv, TypeOK, WorkedFor, Leave, Done, Unused, OwnOps
<1> QED BY <1>1 DEF IInv

\* The document of one project changes, and the state with it.
LEMMA EditIInv ==
  ASSUME IInv, NEW j \in Jobs, Edit(j)
  PROVE  (TypeOK /\ OwnerIsLive)'
<1> USE SessionAssumption DEF Handles, Jobs
<1>1. CASE handle = 0
  BY <1>1 DEF IInv, TypeOK, OwnerIsLive, Edit, Leave, Done, Unused, editorVars
<1>2. CASE handle # 0
  <2>1. PICK done \in 0 .. Calls(job[j].op) :
             /\ doc' = [doc EXCEPT ![handle] = @ + done]
             /\ state' = IF done = Calls(job[j].op) THEN Ready(handle, doc'[handle])
                         ELSE Error
    BY <1>2 DEF Edit
  <2>2. done \in Nat
    BY DEF Calls
  <2>3. doc' \in [Handles -> Nat]
    BY <2>1, <2>2, <1>2 DEF IInv, TypeOK
  <2>4. /\ state' \in [kind : {"loading", "ready", "error"}, handle : Handles \cup {0},
                       shown : Nat]
        /\ state'.handle \in {0, handle}
    BY <2>1, <2>3, <1>2 DEF IInv, TypeOK, Ready, Error, Loading
  <2> QED
    BY <2>3, <2>4 DEF IInv, TypeOK, OwnerIsLive, Edit, Leave, Done, Unused, editorVars
<1> QED BY <1>1, <1>2

\* What a coroutine does.
LEMMA WorkIInv ==
  ASSUME IInv, NEW j \in Jobs, Work(j)
  PROVE  IInv'
<1> USE SessionAssumption DEF Handles, Jobs
<1>1. CASE Enter(j)
  <2>1. state' \in {state, Loading}
    BY <1>1 DEF Enter
  <2>2. (TypeOK /\ OwnerIsLive)'
    <3>1. TypeOK'
      <4>1. job' \in [Jobs -> [op : OwnOps \cup {"commit", "refresh", "none"},
                              by : Editors \cup {"project"},
                              pc : {"unused", "waiting", "inside", "done"}]]
        <5> HIDE DEF Handles, Jobs
        <5>1. job \in [Jobs -> [op : OwnOps \cup {"commit", "refresh", "none"},
                               by : Editors \cup {"project"},
                               pc : {"unused", "waiting", "inside", "done"}]]
          BY DEF IInv, TypeOK
        <5>2. job' = [job EXCEPT ![j] = [job[j] EXCEPT !.pc = "inside"]]
          BY <1>1 DEF Enter
        <5> QED BY <5>1, <5>2
      <4>2. state' \in [kind : {"loading", "ready", "error"}, handle : Handles \cup {0},
                        shown : Nat]
        BY <2>1 DEF IInv, TypeOK, Loading
      <4> QED BY <1>1, <4>1, <4>2 DEF IInv, TypeOK, Enter, editorVars
    <3>2. OwnerIsLive'
      BY <1>1, <2>1 DEF IInv, OwnerIsLive, Enter, Loading
    <3> QED BY <3>1, <3>2
  <2>3. WorkedFor'
    BY <1>1 DEF IInv, TypeOK, WorkedFor, Enter, OwnOps
  <2> QED BY <2>2, <2>3 DEF IInv
<1>2. CASE Adopt(j)
  <2>2. (TypeOK /\ OwnerIsLive)'
    BY <1>2
       DEF IInv, TypeOK, OwnerIsLive, Adopt, Leave, Done, Unused, editorVars, Ready
  <2> QED BY <1>2, <2>2, LeaveIInv DEF Adopt, Inside
<1>3. CASE Fail(j) \/ Abort(j) \/ Save(j)
  <2>1. state' \in {state, Error, Ready(0, 0)}
    BY <1>3 DEF Fail, Abort, Save, projectVars
  <2>2. lock = j /\ Leave(j) /\ UNCHANGED <<handle, native, doc>>
    BY <1>3 DEF Fail, Abort, Save, projectVars, Inside
  <2>3. TypeOK'
    <3>1. state' \in [kind : {"loading", "ready", "error"}, handle : Handles \cup {0},
                      shown : Nat]
      BY <2>1 DEF IInv, TypeOK, Loading, Error, Ready
    <3> QED BY <2>2, <3>1 DEF IInv, TypeOK, Leave, Done, Unused, editorVars
  <2>4. OwnerIsLive'
    BY <2>1, <2>2 DEF IInv, OwnerIsLive, Leave, Loading, Error, Ready
  <2> QED BY <2>2, <2>3, <2>4, LeaveIInv
<1>4. CASE Edit(j)
  <2>1. lock = j /\ Leave(j)
    BY <1>4 DEF Edit, Inside
  <2> QED BY <1>4, <2>1, EditIInv, LeaveIInv
<1>5. CASE Refresh(j)
  <2>1. (TypeOK /\ OwnerIsLive)'
    BY <1>5 DEF IInv, TypeOK, OwnerIsLive, Refresh, Leave, Done, Unused, editorVars, Ready
  <2> QED BY <1>5, <2>1, LeaveIInv DEF Refresh, Inside
<1>6. CASE Commit(j)
  <2>1. OwnerIsLive'
    BY <1>6 DEF IInv, OwnerIsLive, Commit, Leave
  <2>2. CASE UNCHANGED doc /\ Leave(j)
    <3>1. TypeOK'
      BY <1>6, <2>2 DEF IInv, TypeOK, Commit, Leave, Done, Unused, editorVars
    <3> QED BY <1>6, <2>1, <2>2, <3>1, LeaveIInv DEF Commit, Inside
  <2>3. ASSUME NEW h \in Handles, doc' = [doc EXCEPT ![h] = @ + 1], lock' = 0,
               job' = [job EXCEPT ![j] =
                         IF "project" \notin scopes THEN Done
                         ELSE [op |-> "refresh", by |-> "project", pc |-> "waiting"]],
               UNCHANGED <<editorVars, scopes, closed>>
        PROVE  IInv'
    <3>1. doc' \in [Handles -> Nat]
      BY <2>3 DEF IInv, TypeOK
    <3>2. TypeOK'
      BY <1>6, <2>3, <3>1 DEF IInv, TypeOK, Commit, Done, Unused, editorVars
    <3>3. WorkedFor'
      BY <1>6, <2>3
         DEF IInv, TypeOK, WorkedFor, Commit, Inside, Done, Unused, OwnOps
    <3> QED BY <2>1, <3>2, <3>3 DEF IInv
  <2>4. mirror[job[j].by] \in Handles \cup {0}
    BY <1>6 DEF IInv, TypeOK, WorkedFor, Commit, Inside
  <2> QED BY <1>6, <2>2, <2>3, <2>4 DEF Commit
<1>7. CASE GiveUp(j) \/ EndAtFile(j)
  <2>1. /\ state' \in {state, Loading, Error} /\ job' = [job EXCEPT ![j] = Done]
        /\ UNCHANGED <<handle, native, doc, lock, editorVars, scopes, closed>>
    BY <1>7 DEF GiveUp, EndAtFile, projectVars
  <2>2. TypeOK'
    <3>1. state' \in [kind : {"loading", "ready", "error"}, handle : Handles \cup {0},
                      shown : Nat]
      BY <2>1 DEF IInv, TypeOK, Loading, Error
    <3> QED BY <2>1, <3>1 DEF IInv, TypeOK, Done, Unused, editorVars
  <2>3. OwnerIsLive'
    BY <2>1 DEF IInv, OwnerIsLive, Loading, Error
  <2>4. lock # j
    BY <1>7 DEF IInv, WorkedFor, GiveUp, EndAtFile
  <2>5. WorkedFor'
    BY <2>1, <2>4 DEF IInv, TypeOK, WorkedFor, Done, Unused, OwnOps
  <2> QED BY <2>2, <2>3, <2>5 DEF IInv
<1> QED BY <1>1, <1>2, <1>3, <1>4, <1>5, <1>6, <1>7 DEF Work

\* The invariant, for every run of the app.
THEOREM SessionIInv == Spec => []IInv
<1>1. IInv /\ [Next]_vars => IInv'
  <2>1. ASSUME IInv, Next PROVE IInv'
    BY <2>1, MainIInv, WorkIInv DEF Next
  <2>2. ASSUME IInv, UNCHANGED vars PROVE IInv'
    BY <2>2 DEF IInv, TypeOK, OwnerIsLive, WorkedFor,
                MainIsFree, vars, projectVars, editorVars
  <2> QED BY <2>1, <2>2
<1> QED BY <1>1, InitIInv, PTL DEF Spec

\* The handle of ProjectViewModel is that of a project that is alive, and the state it
\* shows has that handle or none, whatever a coroutine that was cancelled too late does
\* beside close() or behind it.
THEOREM SessionOwnerIsLive == Spec => []OwnerIsLive
<1>1. IInv => OwnerIsLive
  BY DEF IInv
<1> QED BY <1>1, SessionIInv, PTL

\* Type correctness.
THEOREM SessionTypeOK == Spec => []TypeOK
<1>1. IInv => TypeOK
  BY DEF IInv
<1> QED BY <1>1, SessionIInv, PTL

-----------------------------------------------------------------------------
(***************************************************************************)
(* What the screen shows.                                                  *)
(***************************************************************************)

\* A project that is not yet there has no edits, and no mirror names one.
NewIsBlank == \A h \in Handles : native[h] = "none" => doc[h] = 0
MirrorsNameProjects == \A e \in Editors : mirror[e] # 0 => native[mirror[e]] # "none"

\* A refresh that is on its way will show what the screen does not.
RefreshIsDue ==
  \E j \in Jobs : job[j].op = "refresh" /\ job[j].pc \in {"waiting", "inside"}

ScreenCatchesUp ==
  MainIsFree /\ state.handle # 0 => state.shown = doc[handle] \/ RefreshIsDue

ScreenInv == NewIsBlank /\ MirrorsNameProjects /\ ScreenCatchesUp

LEMMA ProjectsInd ==
  ASSUME IInv, NewIsBlank, MirrorsNameProjects, [Next]_vars
  PROVE  NewIsBlank' /\ MirrorsNameProjects'
<1> USE DEF Handles
<1>1. ASSUME NEW op, NEW by, Launch(op, by) PROVE NewIsBlank' /\ MirrorsNameProjects'
  BY <1>1 DEF Launch, NewIsBlank, MirrorsNameProjects, projectVars, editorVars
<1>2. ASSUME NEW e \in Editors, Bind(e) \/ Collect(e)
      PROVE  NewIsBlank' /\ MirrorsNameProjects'
  <2>1. state.handle # 0 => native[state.handle] # "none"
    BY DEF IInv, OwnerIsLive
  <2>2. QED
    BY <1>2, <2>1 DEF Bind, Collect, NewIsBlank, MirrorsNameProjects, projectVars, IInv,
       TypeOK
<1>3. ASSUME NEW e \in Editors, ClearEditor(e) PROVE NewIsBlank' /\ MirrorsNameProjects'
  BY <1>3 DEF ClearEditor, NewIsBlank, MirrorsNameProjects, projectVars, editorVars
<1>4. CASE ClearProject
  BY <1>4 DEF ClearProject, NewIsBlank, MirrorsNameProjects, projectVars, editorVars
<1>5. CASE Close
  BY <1>5 DEF Close, NewIsBlank, MirrorsNameProjects, editorVars, IInv, TypeOK
<1>6. ASSUME NEW j \in Jobs,
             \/ Enter(j) \/ GiveUp(j) \/ EndAtFile(j)
             \/ Fail(j) \/ Abort(j) \/ Save(j) \/ Refresh(j)
      PROVE  NewIsBlank' /\ MirrorsNameProjects'
  BY <1>6 DEF Enter, GiveUp, EndAtFile, Fail, Abort, Save, Refresh, Leave, NewIsBlank, MirrorsNameProjects,
     projectVars, editorVars
<1>7. ASSUME NEW j \in Jobs, Adopt(j) PROVE NewIsBlank' /\ MirrorsNameProjects'
  BY <1>7 DEF Adopt, Leave, NewIsBlank, MirrorsNameProjects, editorVars, IInv, TypeOK
<1>8. ASSUME NEW j \in Jobs, Edit(j) PROVE NewIsBlank' /\ MirrorsNameProjects'
  <2>1. /\ native' = native /\ mirror' = mirror
        /\ \A h \in Handles : doc'[h] = doc[h] \/ h = handle
    BY <1>8 DEF Edit, Leave, editorVars, IInv, TypeOK
  <2>2. QED
    BY <2>1 DEF NewIsBlank, MirrorsNameProjects, IInv, OwnerIsLive
<1>9. ASSUME NEW j \in Jobs, Commit(j) PROVE NewIsBlank' /\ MirrorsNameProjects'
  <2>1. job[j].by \in Editors
    BY <1>9 DEF Commit, Inside, IInv, WorkedFor
  <2>2. /\ native' = native /\ mirror' = mirror
        /\ \A h \in Handles : doc'[h] = doc[h] \/ (h = mirror[job[j].by] /\ h # 0)
    BY <1>9 DEF Commit, Leave, editorVars, IInv, TypeOK
  <2>3. QED
    BY <2>1, <2>2 DEF NewIsBlank, MirrorsNameProjects
<1>10. CASE UNCHANGED vars
  BY <1>10 DEF vars, NewIsBlank, MirrorsNameProjects, projectVars, editorVars
<1>11. QED
  BY <1>1, <1>2, <1>3, <1>4, <1>5, <1>6, <1>7, <1>8, <1>9, <1>10 DEF Next, Work

\* A refresh stays on its way until it is done.
LEMMA RefreshStays ==
  ASSUME IInv, RefreshIsDue, Next, ~\E j \in Jobs : Refresh(j), MainIsFree'
  PROVE  RefreshIsDue'
<1>1. PICK i \in Jobs : job[i].op = "refresh" /\ job[i].pc \in {"waiting", "inside"}
  BY DEF RefreshIsDue
<1>2. job'[i].op = "refresh" /\ job'[i].pc \in {"waiting", "inside"}
  <2>1. ASSUME NEW op, NEW by, Launch(op, by)
        PROVE  job'[i] = job[i]
    BY <1>1, <2>1 DEF Launch, Unused
  <2>2. ASSUME NEW e \in Editors, Bind(e) \/ Collect(e) \/ ClearEditor(e)
        PROVE  job'[i] = job[i]
    BY <1>1, <2>2, SessionAssumption
       DEF Bind, Collect, ClearEditor, Cancel, IInv, WorkedFor
  <2>3. ~ClearProject
    BY DEF ClearProject, Cancel, MainIsFree
  <2>4. CASE Close
    BY <1>1, <2>4 DEF Close
  <2>5. ASSUME NEW j \in Jobs, Enter(j)
        PROVE  job'[i].op = "refresh" /\ job'[i].pc \in {"waiting", "inside"}
    BY <1>1, <2>5 DEF Enter, IInv, TypeOK
  <2>6. ASSUME NEW j \in Jobs, Work(j), ~Enter(j) PROVE job'[i] = job[i]
    <3>1. job[j].op # "refresh"
      <4>1. CASE GiveUp(j)
        <5>1. job[j].by # "project"
          BY <4>1 DEF GiveUp, IsCancelled, MainIsFree
        <5>2. QED
          BY <5>1 DEF IInv, WorkedFor
      <4>2. CASE ~GiveUp(j)
        BY <2>6, <4>2 DEF Work, EndAtFile, Adopt, Fail, Abort, Edit, Save, Commit, Inside
      <4>3. QED
        BY <4>1, <4>2
    <3>2. \A k \in Jobs : k # j => job'[k] = job[k]
      <4>1. CASE Commit(j)
        BY <4>1 DEF Commit, Leave, IInv, TypeOK
      <4>2. CASE ~Commit(j)
        BY <2>6, <4>2 DEF Work, GiveUp, EndAtFile, Adopt, Fail, Abort, Edit, Save, Leave, IInv,
           TypeOK
      <4>3. QED
        BY <4>1, <4>2
    <3>3. QED
      BY <1>1, <3>1, <3>2
  <2>7. QED
    BY <1>1, <2>1, <2>2, <2>3, <2>4, <2>5, <2>6 DEF Next
<1>3. QED
  BY <1>2 DEF RefreshIsDue

LEMMA ScreenInd ==
  ASSUME IInv, ScreenInv, [Next]_vars PROVE ScreenCatchesUp'
<1> SUFFICES ASSUME MainIsFree', state'.handle # 0, ~RefreshIsDue'
             PROVE  state'.shown = doc'[handle']
  BY DEF ScreenCatchesUp
<1> USE DEF ScreenInv, Handles
<1>1. ASSUME NEW j \in Jobs, Adopt(j) PROVE state'.shown = doc'[handle']
  BY <1>1 DEF Adopt, Ready, NewIsBlank
<1>2. ASSUME NEW j \in Jobs, Refresh(j) PROVE state'.shown = doc'[handle']
  BY <1>2 DEF Refresh, Ready, IInv, OwnerIsLive
<1>3. ASSUME NEW j \in Jobs, Edit(j) PROVE state'.shown = doc'[handle']
  BY <1>3 DEF Edit, Ready, Error, Loading, IInv, OwnerIsLive
<1>4. ASSUME NEW j \in Jobs, Commit(j), doc'[handle] # doc[handle]
      PROVE  state'.shown = doc'[handle']
  <2>1. scopes' = scopes
    BY <1>4 DEF Commit, Leave
  <2>2. job' = [job EXCEPT ![j] = [op |-> "refresh", by |-> "project", pc |-> "waiting"]]
    BY <1>4, <2>1 DEF Commit, MainIsFree
  <2>3. job'[j].op = "refresh" /\ job'[j].pc = "waiting"
    BY <2>2 DEF IInv, TypeOK
  <2>4. QED
    BY <2>3 DEF RefreshIsDue
<1>5. ASSUME UNCHANGED handle, doc'[handle] = doc[handle],
             state' = state, MainIsFree, ~RefreshIsDue
      PROVE  state'.shown = doc'[handle']
  BY <1>5 DEF ScreenCatchesUp
<1>6. CASE UNCHANGED vars
  BY <1>5, <1>6 DEF vars, projectVars, MainIsFree, RefreshIsDue
<1>7. CASE Next
  <2>1. MainIsFree
    <3>1. scopes' \subseteq scopes
      BY <1>7 DEF Next, Work, Launch, Bind, Collect, ClearEditor, ClearProject, Cancel, Close,
         Enter, GiveUp, EndAtFile, Adopt, Fail, Abort, Edit, Save, Commit, Refresh, Leave
    <3>2. QED
      BY <3>1 DEF MainIsFree
  <2>2. ~RefreshIsDue \/ \E j \in Jobs : Refresh(j)
    BY <1>7, RefreshStays
  <2>3. ASSUME NEW op, NEW by, Launch(op, by) PROVE UNCHANGED <<handle, state, doc>>
    BY <2>3 DEF Launch, projectVars
  <2>4. ASSUME NEW e \in Editors, Bind(e) \/ Collect(e) \/ ClearEditor(e)
        PROVE  UNCHANGED <<handle, state, doc>>
    BY <2>4 DEF Bind, Collect, ClearEditor, projectVars
  <2>5. ~ClearProject /\ ~Close
    BY <2>1 DEF ClearProject, Cancel, Close, MainIsFree
  <2>6. ASSUME NEW j \in Jobs,
               Enter(j) \/ GiveUp(j) \/ EndAtFile(j) \/ Fail(j) \/ Abort(j) \/ Save(j)
        PROVE  UNCHANGED <<handle, state, doc>> \/ state'.handle = 0
    BY <2>6 DEF Enter, GiveUp, EndAtFile, Fail, Abort, Save, projectVars, Loading, Error, Ready
  <2>7. ASSUME NEW j \in Jobs, Commit(j) PROVE UNCHANGED <<handle, state>>
    BY <2>7 DEF Commit
  <2>8. QED
    BY <1>1, <1>2, <1>3, <1>4, <1>5, <2>1, <2>2, <2>3, <2>4, <2>5, <2>6, <2>7, <1>7
       DEF Next, Work
<1>8. QED
  BY <1>6, <1>7

LEMMA ScreenInit == Init => ScreenInv
BY DEF Init, ScreenInv, NewIsBlank, MirrorsNameProjects, ScreenCatchesUp, Loading

\* When no coroutine is on its way, what the screen shows of the open project is its
\* document, however edits, commits, saves and openings followed one another.
THEOREM SessionQuietScreenIsTrue == Spec => []QuietScreenIsTrue
<1>1. IInv /\ ScreenInv /\ [Next]_vars => ScreenInv'
  BY ProjectsInd, ScreenInd DEF ScreenInv
<1>2. Init => ScreenInv
  BY ScreenInit
<1>3. ScreenInv => QuietScreenIsTrue
  BY DEF ScreenInv, ScreenCatchesUp, RefreshIsDue, QuietScreenIsTrue
<1>4. QED
  BY <1>1, <1>2, <1>3, SessionIInv, PTL DEF Spec
=============================================================================
