------------------------- MODULE AudioEngineProofs -------------------------
(***************************************************************************)
(* Proofs about AudioEngine for any number of failed starts.  What the     *)
(* render lane promises needs a host that keeps the order of sf_audio_     *)
(* engine.h, start before the ticks: its theorems assume ~EagerTicks.      *)
(***************************************************************************)
EXTENDS AudioEngine, TLAPS

Starting == {"publish", "pacerFlag", "running"}
Rollback == {"rollbackRunner", "rollbackStore", "rollbackFlags", "rollbackState"}
RunnerLive == runner \in {"loop", "batch", "publish"}

\* A project that is freed has no engine, and no call is under way on one.
Attached ==
  /\ audioEngine <=> state # "none"
  /\ freed => state = "none" /\ cpc = "idle" /\ ~RunnerAlive

\* The state of the engine at each place of a call.
Places ==
  /\ cpc \in Starting => state = "CREATED"
  /\ cpc \in {"runner", "pacer"} \cup Rollback => state = "RUNNING"
  /\ cpc \in {"joinPacer", "joinRunner"} => state \notin {"none", "RUNNING"}
  /\ InDestroy => state \in {"CREATED", "STOPPED"}

\* One runner of the project is alive and runnerState says so; from the gate of start to
\* the start of its own runner none is.
Gate ==
  /\ RunnerAlive => Alive(runnerState)
  /\ ~(RunnerLive /\ sthread = "loop")
  /\ cpc \in Starting \cup {"runner"} => runnerState = "IDLE"

\* Where the engine has no thread of its own.
Threads ==
  /\ state \in {"none", "CREATED", "STOPPED"} => pacer = "none" /\ runner = "none"
  /\ InStart \/ cpc = "joinRunner" => pacer = "none"
  /\ cpc \in {"runner", "rollbackStore", "rollbackFlags", "rollbackState"} =>
       runner = "none"

\* Wherever there is a pacer, or one is about to be, the flag that ticks look at is set.
PacerFlag ==
  /\ pacer # "none" => pacerActive
  /\ cpc \in {"running", "runner", "pacer"} /\ pace => pacerActive
  /\ cpc = "pacer" => pace

\* A tick that is under way is between start and destroy, and it renders without a pacer.
TickLane ==
  /\ tick # "idle" => state # "none" /\ ~InDestroy
  /\ ~EagerTicks => (InStart => tick = "idle") /\ (tick = "render" => ~pacerActive)

IInv == TypeOK /\ Attached /\ Places /\ Gate /\ Threads /\ PacerFlag /\ TickLane

-----------------------------------------------------------------------------
(***************************************************************************)
(* Every step keeps the invariant.                                         *)
(***************************************************************************)

LEMMA InitInd == Init => IInv
<1> SUFFICES ASSUME Init PROVE IInv
  OBVIOUS
<1>1. TypeOK
  BY DEF Init, TypeOK
<1>2. Attached /\ Places /\ Gate
  BY DEF Init, InDestroy, Attached, Places, Starting, Rollback, Gate, RunnerAlive,
     RunnerLive
<1>3. Threads /\ PacerFlag /\ TickLane
  BY DEF Init, InStart, InDestroy, Threads, PacerFlag, TickLane
<1>4. QED
  BY <1>1, <1>2, <1>3 DEF IInv

LEMMA TypesInd ==
  ASSUME TypeOK, [Next]_vars PROVE TypeOK'
<1> USE DEF TypeOK, InStart, InDestroy, project, flags, plans, own, foreign, control
<1>1. CASE Create \/ (\E p \in BOOLEAN : Start(p))
  BY <1>1 DEF Create, Start
<1>2. CASE Stop \/ Join \/ Destroy
  <2>1. /\ runnerState' \in {"IDLE", "RUNNING", "STOPPING", "STOPPED"}
        /\ state' \in {"none", "CREATED", "RUNNING", "STOPPING", "STOPPED"}
        /\ pacerStop' \in BOOLEAN
    BY <1>2 DEF Stop, Join, Destroy, Stopping, StopRunner
  <2>2. QED
    BY <1>2, <2>1 DEF Stop, Join, Destroy
<1>3. CASE StartPublish \/ StartPacerFlag \/ StartRunning \/ StartRunner
  <2>1. CASE StartPublish \/ StartPacerFlag
    BY <2>1 DEF StartPublish, StartPacerFlag, Publish
  <2>2. CASE StartRunning \/ StartRunner
    BY <2>2 DEF StartRunning, StartRunner
  <2>3. QED
    BY <1>3, <2>1, <2>2
<1>4. CASE StartRunnerFails \/ StartPacer \/ StartPacerFails \/ RollbackRunner
  <2>1. CASE StartRunnerFails \/ StartPacer
    BY <2>1 DEF StartRunnerFails, StartPacer
  <2>2. CASE StartPacerFails \/ RollbackRunner
    BY <2>2 DEF StartPacerFails, RollbackRunner, StopRunner
  <2>3. QED
    BY <1>4, <2>1, <2>2
<1>5. CASE RollbackStore \/ RollbackFlags \/ RollbackState
  <2>1. CASE RollbackStore
    <3>1. hasPlan' \in BOOLEAN
      BY <2>1, Zenon DEF RollbackStore
    <3>2. store' \in Nat
      BY <2>1 DEF RollbackStore
    <3>3. QED
      BY <2>1, <3>1, <3>2 DEF RollbackStore
  <2>2. CASE RollbackFlags \/ RollbackState
    BY <2>2 DEF RollbackFlags, RollbackState
  <2>3. QED
    BY <1>5, <2>1, <2>2
<1>6. CASE JoinPacer \/ JoinRunner \/ DestroyJoin \/ DestroyRunner \/ DestroyEngine
  <2>1. CASE JoinPacer \/ JoinRunner
    BY <2>1 DEF JoinPacer, JoinRunner
  <2>2. CASE DestroyJoin \/ DestroyRunner
    BY <2>2 DEF DestroyJoin, DestroyRunner
  <2>3. CASE DestroyEngine
    <3>1. audioEngine' \in BOOLEAN /\ hasPlan' \in BOOLEAN /\ planValid' \in BOOLEAN
      BY <2>3, Zenon DEF DestroyEngine
    <3>2. /\ cpc' \in {"idle", "joinPacer", "joinRunner"}
          /\ state' \in {"none", "CREATED", "RUNNING", "STOPPING", "STOPPED"}
      BY <2>3, Zenon DEF DestroyEngine
    <3>3. QED
      BY <2>3, <3>1, <3>2 DEF DestroyEngine
  <2>4. QED
    BY <1>6, <2>1, <2>2, <2>3
<1>7. CASE StandaloneCreate \/ StandaloneStart \/ StandaloneStop
  <2> USE DEF hostFrame
  <2>1. CASE StandaloneCreate \/ StandaloneStart
    BY <2>1 DEF StandaloneCreate, StandaloneStart
  <2>2. CASE StandaloneStop
    BY <2>2 DEF StandaloneStop, StopRunner
  <2>3. QED
    BY <1>7, <2>1, <2>2
<1>8. CASE StandaloneDestroy \/ DestroyProject \/ StandaloneExit
  <2> USE DEF hostFrame
  <2>1. CASE StandaloneDestroy
    BY <2>1 DEF StandaloneDestroy
  <2>2. CASE DestroyProject
    BY <2>2 DEF DestroyProject
  <2>3. CASE StandaloneExit
    BY <2>3 DEF StandaloneExit
  <2>4. QED
    BY <1>8, <2>1, <2>2, <2>3
<1>9. CASE RunnerThread
  BY <1>9 DEF RunnerThread, RunnerBatch, RunnerPublish, RunnerPublished, RunnerBatchEnd,
     RunnerExit, Publish
<1>10. CASE PacerThread \/ TickThread
  BY <1>10 DEF PacerThread, PacerRender, PacerRendered, PacerExit, TickThread, TickState,
     TickPacer, TickRendered
<1>11. CASE UNCHANGED vars
  BY <1>11 DEF vars
<1>12. QED
  BY <1>1, <1>2, <1>3, <1>4, <1>5, <1>6, <1>7, <1>8, <1>9, <1>10, <1>11
     DEF Next, Control, StartStep, CallStep

\* The parts of the invariant that are about who has what.
Order == Attached /\ Places /\ Gate /\ Threads /\ PacerFlag /\ TickLane

LEMMA CallsInd ==
  ASSUME TypeOK, Order,
         Create \/ (\E p \in BOOLEAN : Start(p)) \/ Stop \/ Join \/ Destroy
  PROVE  Order'
<1> USE DEF TypeOK, InStart, InDestroy, Order, Attached, Places, Starting, Rollback, Gate,
            RunnerAlive, RunnerLive, Alive, Threads, PacerFlag, TickLane,
            project, flags, plans, own, foreign, control
<1>1. CASE Create
  BY <1>1 DEF Create
<1>2. ASSUME NEW p \in BOOLEAN, Start(p) PROVE Order'
  BY <1>2 DEF Start
<1>3. CASE Stop
  BY <1>3 DEF Stop, Stopping, StopRunner
<1>4. CASE Join
  BY <1>4 DEF Join, Stopping, StopRunner
<1>5. CASE Destroy
  BY <1>5 DEF Destroy, StopRunner
<1>6. QED
  BY <1>1, <1>2, <1>3, <1>4, <1>5

LEMMA StartInd ==
  ASSUME TypeOK, Order, StartStep PROVE Order'
<1> USE DEF TypeOK, InStart, InDestroy, Order, Attached, Places, Starting, Rollback, Gate,
            RunnerAlive, RunnerLive, Alive, Threads, PacerFlag, TickLane,
            project, flags, plans, own, foreign, control
<1>1. CASE StartPublish
  BY <1>1 DEF StartPublish, Publish
<1>2. CASE StartPacerFlag
  BY <1>2 DEF StartPacerFlag
<1>3. CASE StartRunning
  BY <1>3 DEF StartRunning
<1>4. CASE StartRunner
  BY <1>4 DEF StartRunner
<1>5. CASE StartRunnerFails
  BY <1>5 DEF StartRunnerFails
<1>6. CASE StartPacer
  BY <1>6 DEF StartPacer
<1>7. CASE StartPacerFails
  BY <1>7 DEF StartPacerFails, StopRunner
<1>8. CASE RollbackRunner
  BY <1>8 DEF RollbackRunner
<1>9. CASE RollbackStore
  BY <1>9 DEF RollbackStore
<1>10. CASE RollbackFlags
  BY <1>10 DEF RollbackFlags
<1>11. CASE RollbackState
  BY <1>11 DEF RollbackState
<1>12. QED
  BY <1>1, <1>2, <1>3, <1>4, <1>5, <1>6, <1>7, <1>8, <1>9, <1>10, <1>11 DEF StartStep

LEMMA LeaveInd ==
  ASSUME TypeOK, Order,
         JoinPacer \/ JoinRunner \/ DestroyJoin \/ DestroyRunner \/ DestroyEngine
  PROVE  Order'
<1> USE DEF TypeOK, InStart, InDestroy, Order, Attached, Places, Starting, Rollback, Gate,
            RunnerAlive, RunnerLive, Alive, Threads, PacerFlag, TickLane,
            project, flags, plans, own, foreign, control
<1>1. CASE JoinPacer
  BY <1>1 DEF JoinPacer
<1>2. CASE JoinRunner
  BY <1>2 DEF JoinRunner
<1>3. CASE DestroyJoin
  BY <1>3 DEF DestroyJoin
<1>4. CASE DestroyRunner
  BY <1>4 DEF DestroyRunner
<1>5. CASE DestroyEngine
  BY <1>5 DEF DestroyEngine
<1>6. QED
  BY <1>1, <1>2, <1>3, <1>4, <1>5

LEMMA HostInd ==
  ASSUME TypeOK, Order,
         \/ StandaloneCreate \/ StandaloneStart \/ StandaloneStop \/ StandaloneDestroy
         \/ DestroyProject \/ StandaloneExit
  PROVE  Order'
<1> USE DEF TypeOK, InStart, InDestroy, Order, Attached, Places, Starting, Rollback, Gate,
            RunnerAlive, RunnerLive, Alive, Threads, PacerFlag, TickLane, Host, hostFrame,
            project, flags, plans, own, foreign, control
<1>1. CASE StandaloneCreate
  BY <1>1 DEF StandaloneCreate
<1>2. CASE StandaloneStart
  BY <1>2 DEF StandaloneStart
<1>3. CASE StandaloneStop
  BY <1>3 DEF StandaloneStop, StopRunner
<1>4. CASE StandaloneDestroy
  BY <1>4 DEF StandaloneDestroy
<1>5. CASE DestroyProject
  BY <1>5 DEF DestroyProject
<1>6. CASE StandaloneExit
  BY <1>6 DEF StandaloneExit
<1>7. QED
  BY <1>1, <1>2, <1>3, <1>4, <1>5, <1>6

LEMMA ThreadsInd ==
  ASSUME TypeOK, Order, RunnerThread \/ PacerThread \/ TickThread PROVE Order'
<1> USE DEF TypeOK, InStart, InDestroy, Order, Attached, Places, Starting, Rollback, Gate,
            RunnerAlive, RunnerLive, Alive, Threads, PacerFlag, TickLane,
            project, flags, plans, own, foreign, control
<1>1. CASE RunnerBatch
  BY <1>1 DEF RunnerBatch
<1>2. CASE RunnerPublish
  BY <1>2 DEF RunnerPublish
<1>3. CASE RunnerPublished
  BY <1>3 DEF RunnerPublished, Publish
<1>4. CASE RunnerBatchEnd
  BY <1>4 DEF RunnerBatchEnd
<1>5. CASE RunnerExit
  BY <1>5 DEF RunnerExit
<1>6. CASE PacerThread
  BY <1>6 DEF PacerThread, PacerRender, PacerRendered, PacerExit
<1>7. CASE TickThread
  BY <1>7 DEF TickThread, TickState, TickPacer, TickRendered
<1>8. QED
  BY <1>1, <1>2, <1>3, <1>4, <1>5, <1>6, <1>7 DEF RunnerThread

LEMMA NextInd == IInv /\ [Next]_vars => IInv'
<1> SUFFICES ASSUME IInv, [Next]_vars PROVE IInv'
  OBVIOUS
<1>1. TypeOK /\ TypeOK' /\ Order
  BY TypesInd DEF IInv, Order
<1>2. Order'
  <2>1. CASE Next
    BY <1>1, <2>1, CallsInd, StartInd, LeaveInd, HostInd, ThreadsInd
       DEF Next, Control, CallStep
  <2>2. CASE UNCHANGED vars
    BY <1>1, <2>2 DEF vars, project, flags, plans, own, foreign, control, InStart, InDestroy,
       Order, Attached, Places, Gate, RunnerAlive, RunnerLive, Threads, PacerFlag, TickLane
  <2>3. QED
    BY <2>1, <2>2
<1>3. QED
  BY <1>1, <1>2 DEF IInv, Order

-----------------------------------------------------------------------------
(***************************************************************************)
(* The theorems.                                                           *)
(***************************************************************************)

\* The invariant of the engine, its threads and the project it is attached to.
THEOREM EngineInvariant == Spec => []IInv
BY InitInd, NextInd, PTL DEF Spec

\* Every field of the engine and every place of its calls and threads is one the code has.
THEOREM EngineTypeOK == Spec => []TypeOK
<1>1. IInv => TypeOK
  BY DEF IInv
<1>2. QED
  BY <1>1, EngineInvariant, PTL

\* Plan #0 is compiled from a document that no runner mutates, though neither the gate of
\* sf_audio_engine_start nor a standalone runner reserves runnerState.
THEOREM EngineReadsIdleDocument == Spec => []DocumentIsIdle
<1>1. IInv => DocumentIsIdle
  BY DEF IInv, Gate, Starting, DocumentIsIdle, Alive
<1>2. QED
  BY <1>1, EngineInvariant, PTL

\* sf_project_destroy frees no project with an engine, in whatever state, or a live runner.
THEOREM EngineProjectOutlivesUsers == Spec => []ProjectOutlivesUsers
<1>1. IInv => ProjectOutlivesUsers
  BY DEF IInv, Attached, ProjectOutlivesUsers
<1>2. QED
  BY <1>1, EngineInvariant, PTL

\* A tick never renders next to the pacer, whatever starts failed and were tried again, on
\* a host that ticks between start and destroy.
THEOREM EngineHasOneRenderLane == ~EagerTicks => (Spec => []OneRenderLane)
<1>1. ~EagerTicks /\ IInv => OneRenderLane
  BY DEF IInv, PacerFlag, TickLane, OneRenderLane
<1>2. SUFFICES ASSUME ~EagerTicks PROVE Spec => []OneRenderLane
  OBVIOUS
<1>3. IInv => OneRenderLane
  BY <1>1, <1>2
<1>4. QED
  BY <1>3, EngineInvariant, PTL

\* On such a host a rollback of sf_audio_engine_start replaces the plan store when no tick,
\* no pacer and no publication of the runner is in it.
THEOREM EngineStoreOutlivesUsers == ~EagerTicks => (Spec => StoreOutlivesUsers)
<1> DEFINE Unused ==
      store' # store => tick # "render" /\ pacer # "render" /\ runner # "publish"
<1>1. SUFFICES ASSUME ~EagerTicks PROVE Spec => [][Unused]_vars
  BY DEF StoreOutlivesUsers
<1>2. ASSUME IInv, [Next]_vars PROVE [Unused]_vars
  <2>1. CASE RollbackStore
    BY <1>1, <1>2, <2>1 DEF RollbackStore, IInv, TypeOK, Threads, TickLane, InStart
  <2>2. CASE ~RollbackStore
    <3>1. store' = store
      BY <1>2, <2>2 DEF Next, vars, Control, CallStep, StartStep, Create, Start, Stop, Join,
         Destroy, StartPublish, StartPacerFlag, StartRunning, StartRunner, StartRunnerFails,
         StartPacer, StartPacerFails, RollbackRunner, RollbackFlags, RollbackState, JoinPacer,
         JoinRunner, DestroyJoin, DestroyRunner, DestroyEngine, StandaloneCreate,
         StandaloneStart, StandaloneStop, StandaloneDestroy, DestroyProject, hostFrame,
         RunnerThread, RunnerBatch, RunnerPublish, RunnerPublished, RunnerBatchEnd, RunnerExit,
         StandaloneExit, PacerThread, PacerRender, PacerRendered, PacerExit, TickThread,
         TickState, TickPacer, TickRendered, project, flags, plans, own, foreign, control
    <3>2. QED
      BY <3>1
  <2>3. QED
    BY <2>1, <2>2
<1>3. QED
  BY <1>2, EngineInvariant, PTL DEF Spec
=============================================================================
