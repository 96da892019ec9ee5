---------------------------- MODULE AudioEngine ----------------------------
(***************************************************************************)
(* The life of an audio engine (native/src/audio/audio_engine.cpp) next to *)
(* everything that touches what it shares: its queue runner and its pacer  *)
(* thread, the host's tick thread, a standalone queue runner on the same   *)
(* project, and sf_project_destroy.  By contract one control thread makes  *)
(* the lifecycle calls; ticks come from another thread.                    *)
(*                                                                         *)
(* A call that others can see half done is a sequence of steps, named by   *)
(* cpc.  The drain loop of a runner is QueueRunner's and the plan store    *)
(* SnapshotStore's: here a runner's thread is in its loop or publishing,   *)
(* and the store is there, with a plan or without one.                     *)
(***************************************************************************)
EXTENDS Naturals

CONSTANTS
  EagerTicks,   \* the host ticks without waiting for start to return
  MaxRollbacks  \* bound of the model: failed starts per behaviour

ASSUME EngineAssumption == EagerTicks \in BOOLEAN /\ MaxRollbacks \in Nat

VARIABLES
  runnerState,   \* SfProject::runnerState, shared by every runner of the project
  audioEngine,   \* SfProject::audioEngine: an engine is attached
  freed,         \* sf_project_destroy has freed the project
  state,         \* the engine: "none" (no handle) or its SfEngineState
  pacerActive, pacerStop,   \* the flags pacer_active and pacer_stop
  planValid,     \* plan_valid
  store,         \* generation of the engine's PlanSnapshotStore object
  hasPlan,       \* the store has a published plan
  runner,        \* thread of the engine's own runner
  observer,      \* that runner has the engine's observer
  pacer,         \* the pacer's thread
  tick,          \* the host's tick thread
  standalone,    \* handle of a standalone runner: "none", "open"
  sthread,       \* and its thread
  cpc, pace      \* the control thread: place, and start's SF_AUDIO_ENGINE_PACE

project == <<runnerState, audioEngine, freed>>
flags   == <<state, pacerActive, pacerStop>>
plans   == <<planValid, store, hasPlan>>
own     == <<runner, observer>>
foreign == <<standalone, sthread>>
control == <<cpc, pace>>
vars == <<project, flags, plans, own, pacer, tick, foreign, control>>

Init ==
  /\ runnerState = "IDLE" /\ audioEngine = FALSE /\ freed = FALSE
  /\ state = "none" /\ pacerActive = FALSE /\ pacerStop = TRUE
  /\ planValid = FALSE /\ store = 0 /\ hasPlan = FALSE
  /\ runner = "none" /\ observer = FALSE
  /\ pacer = "none" /\ tick = "idle"
  /\ standalone = "none" /\ sthread = "none"
  /\ cpc = "idle" /\ pace = FALSE

Alive(s) == s \in {"RUNNING", "STOPPING"}

\* sf_queue_runner_stop on any runner of the project.
StopRunner == runnerState' = IF runnerState = "RUNNING" THEN "STOPPING" ELSE runnerState

\* store->publish: a plan or a compile failure, which keeps the plan there was.
Publish ==
  /\ planValid' \in BOOLEAN
  /\ hasPlan' = (hasPlan \/ planValid')

(***************************************************************************)
(* The control thread: create, destroy, start, stop and join of the engine *)
(***************************************************************************)

\* sf_audio_engine_create: the claim, then the internal runner.
Create ==
  /\ cpc = "idle" /\ ~freed /\ state = "none"
  /\ runnerState = "IDLE" /\ ~audioEngine
  /\ audioEngine' = TRUE
  /\ state' = "CREATED"
  /\ hasPlan' = FALSE /\ planValid' = FALSE
  /\ pacerActive' = FALSE /\ pacerStop' = TRUE
  /\ UNCHANGED <<runnerState, freed, store, own, pacer, tick, foreign, control>>

\* Mutant: the gate is left out, create having looked.
StartUngated(p) ==
  /\ cpc = "idle" /\ state = "CREATED"
  /\ EagerTicks \/ tick = "idle"
  /\ pace' = p
  /\ cpc' = "publish"
  /\ UNCHANGED <<project, flags, plans, own, pacer, tick, foreign>>

\* sf_audio_engine_start: the gate, before the document is read.
Start(p) ==
  /\ cpc = "idle" /\ state = "CREATED"
  /\ runnerState = "IDLE"
  /\ EagerTicks \/ tick = "idle"
  /\ pace' = p
  /\ cpc' = "publish"
  /\ UNCHANGED <<project, flags, plans, own, pacer, tick, foreign>>

\* Plan #0, compiled from the document the caller owns.
StartPublish ==
  /\ cpc = "publish"
  /\ Publish
  /\ cpc' = "pacerFlag"
  /\ UNCHANGED <<project, flags, store, own, pacer, tick, foreign, pace>>

StartPacerFlag ==
  /\ cpc = "pacerFlag"
  /\ pacerActive' = (pace \/ pacerActive)
  /\ cpc' = "running"
  /\ UNCHANGED <<project, state, pacerStop, plans, own, pacer, tick, foreign, pace>>

StartRunning ==
  /\ cpc = "running"
  /\ state' = "RUNNING"
  /\ cpc' = "runner"
  /\ UNCHANGED <<project, pacerActive, pacerStop, plans, own, pacer, tick, foreign, pace>>

\* Attach the observer and start the internal runner.
StartRunner ==
  /\ cpc = "runner"
  /\ observer' = TRUE
  /\ runnerState' = "RUNNING" /\ runner' = "loop"
  /\ cpc' = IF pace THEN "pacer" ELSE "idle"
  /\ UNCHANGED <<audioEngine, freed, flags, plans, pacer, tick, foreign, pace>>

\* Its thread cannot be spawned: runnerState is IDLE again, the observer detached.
StartRunnerFails ==
  /\ cpc = "runner" /\ store < MaxRollbacks
  /\ cpc' = "rollbackStore"
  /\ UNCHANGED <<project, flags, plans, own, pacer, tick, foreign, pace>>

\* pacer_stop is cleared, then the thread spawned.
StartPacer ==
  /\ cpc = "pacer"
  /\ pacerStop' = FALSE
  /\ pacer' = "check"
  /\ cpc' = "idle"
  /\ UNCHANGED <<project, state, pacerActive, plans, own, tick, foreign, pace>>

\* It cannot be: stop the runner, wait for it, and detach the observer.
StartPacerFails ==
  /\ cpc = "pacer" /\ store < MaxRollbacks
  /\ pacerActive' = FALSE
  /\ StopRunner
  /\ cpc' = "rollbackRunner"
  /\ UNCHANGED <<audioEngine, freed, state, pacerStop, plans, own, pacer, tick,
                 foreign, pace>>

\* Mutant: the store is replaced while the runner's thread winds down.
RollbackRunnerUnjoined ==
  /\ cpc = "rollbackRunner"
  /\ observer' = FALSE
  /\ cpc' = "rollbackStore"
  /\ UNCHANGED <<project, flags, plans, runner, pacer, tick, foreign, pace>>

RollbackRunner ==
  /\ cpc = "rollbackRunner"
  /\ runner = "exited"
  /\ runner' = "none"
  /\ observer' = FALSE
  /\ cpc' = "rollbackStore"
  /\ UNCHANGED <<project, flags, plans, pacer, tick, foreign, pace>>

\* A fresh store takes the place of the used one; without memory for it, the used
\* one is kept, its held slot released.
RollbackStore ==
  /\ cpc = "rollbackStore"
  /\ store' = store + 1
  /\ hasPlan' \in {FALSE, hasPlan}
  /\ cpc' = "rollbackFlags"
  /\ UNCHANGED <<project, flags, planValid, own, pacer, tick, foreign, pace>>

RollbackFlags ==
  /\ cpc = "rollbackFlags"
  /\ planValid' = FALSE
  /\ pacerActive' = FALSE
  /\ cpc' = "rollbackState"
  /\ UNCHANGED <<project, state, pacerStop, store, hasPlan, own, pacer, tick,
                 foreign, pace>>

RollbackState ==
  /\ cpc = "rollbackState"
  /\ state' = "CREATED"
  /\ cpc' = "idle"
  /\ UNCHANGED <<project, pacerActive, pacerStop, plans, own, pacer, tick, foreign, pace>>

StartStep ==
  \/ StartPublish \/ StartPacerFlag \/ StartRunning \/ StartRunner
  \/ StartRunnerFails \/ StartPacer \/ StartPacerFails \/ RollbackRunner
  \/ RollbackStore \/ RollbackFlags \/ RollbackState

\* Mutant: the pacer is not told.
StopPacing ==
  IF state = "RUNNING"
  THEN state' = "STOPPING" /\ StopRunner /\ UNCHANGED pacerStop
  ELSE UNCHANGED <<state, pacerStop, runnerState>>

\* sf_audio_engine_stop: an engine that does not run is left alone.
Stopping ==
  IF state = "RUNNING"
  THEN state' = "STOPPING" /\ pacerStop' = TRUE /\ StopRunner
  ELSE UNCHANGED <<state, pacerStop, runnerState>>

Stop ==
  /\ cpc = "idle" /\ state # "none"
  /\ Stopping
  /\ UNCHANGED <<audioEngine, freed, pacerActive, plans, own, pacer, tick, foreign,
                 control>>

\* sf_audio_engine_join implies stop; it waits for the pacer, then the runner.
Join ==
  /\ cpc = "idle" /\ state # "none"
  /\ Stopping
  /\ cpc' = "joinPacer"
  /\ UNCHANGED <<audioEngine, freed, pacerActive, plans, own, pacer, tick, foreign, pace>>

JoinPacer ==
  /\ cpc = "joinPacer" /\ pacer \in {"none", "exited"}
  /\ pacer' = "none"
  /\ cpc' = "joinRunner"
  /\ UNCHANGED <<project, flags, plans, own, tick, foreign, pace>>

\* Mutant: the engine is given a state of the runner.
JoinRunnerIdle ==
  /\ cpc = "joinRunner" /\ runner \in {"none", "exited"}
  /\ runner' = "none"
  /\ state' = "IDLE"
  /\ cpc' = "idle"
  /\ UNCHANGED <<project, pacerActive, pacerStop, plans, observer, pacer,
                 tick, foreign, pace>>

JoinRunner ==
  /\ cpc = "joinRunner" /\ runner \in {"none", "exited"}
  /\ runner' = "none"
  /\ state' = IF state \in {"RUNNING", "STOPPING"} THEN "STOPPED" ELSE state
  /\ cpc' = "idle"
  /\ UNCHANGED <<project, pacerActive, pacerStop, plans, observer, pacer,
                 tick, foreign, pace>>

\* sf_audio_engine_destroy, refused while the engine runs or stops; the caller has
\* no tick under way.  sf_queue_runner_stop is a call on the state of the project.
Destroy ==
  /\ cpc = "idle" /\ state \in {"CREATED", "STOPPED"} /\ tick = "idle"
  /\ pacerStop' = TRUE
  /\ StopRunner
  /\ cpc' = "destroyJoin"
  /\ UNCHANGED <<audioEngine, freed, state, pacerActive, plans, own, pacer, tick,
                 foreign, pace>>

\* Join the pacer and the runner, detach the observer.
DestroyJoin ==
  /\ cpc = "destroyJoin"
  /\ pacer \in {"none", "exited"} /\ runner \in {"none", "exited"}
  /\ pacer' = "none" /\ runner' = "none"
  /\ observer' = FALSE
  /\ cpc' = "destroyRunner"
  /\ UNCHANGED <<project, flags, plans, tick, foreign, pace>>

\* sf_queue_runner_destroy refuses while any runner of the project is alive; the
\* engine does not look at its result, so the handle may stay behind.
DestroyRunner ==
  /\ cpc = "destroyRunner"
  /\ cpc' = "destroyEngine"
  /\ UNCHANGED <<project, flags, plans, runner, observer, pacer, tick, foreign, pace>>

\* Free the store, give up the claim, free the engine.
DestroyEngine ==
  /\ cpc = "destroyEngine"
  /\ audioEngine' = FALSE
  /\ state' = "none"
  /\ hasPlan' = FALSE /\ planValid' = FALSE
  /\ cpc' = "idle"
  /\ UNCHANGED <<runnerState, freed, pacerActive, pacerStop, store, own, pacer, tick,
                 foreign, pace>>

CallStep ==
  \/ StartStep \/ JoinPacer \/ JoinRunner
  \/ DestroyJoin \/ DestroyRunner \/ DestroyEngine

(***************************************************************************)
(* The control thread: a standalone runner, and the project.               *)
(***************************************************************************)

Host == cpc = "idle" /\ ~freed
hostFrame == <<audioEngine, flags, plans, own, pacer, tick, control>>

StandaloneCreate ==
  /\ Host /\ standalone = "none" /\ runnerState = "IDLE"
  /\ standalone' = "open"
  /\ UNCHANGED <<runnerState, freed, sthread, hostFrame>>

StandaloneStart ==
  /\ Host /\ standalone = "open" /\ runnerState = "IDLE"
  /\ runnerState' = "RUNNING" /\ sthread' = "loop"
  /\ UNCHANGED <<freed, standalone, hostFrame>>

StandaloneStop ==
  /\ Host /\ standalone = "open" /\ runnerState = "RUNNING"
  /\ StopRunner
  /\ UNCHANGED <<freed, foreign, hostFrame>>

\* Joins a thread that has not been joined.
StandaloneDestroy ==
  /\ Host /\ standalone = "open" /\ ~Alive(runnerState)
  /\ standalone' = "none" /\ sthread' = "none"
  /\ UNCHANGED <<runnerState, freed, hostFrame>>

\* Mutant: an engine that is not running does not count.
DestroyProjectIdle ==
  /\ Host /\ ~Alive(runnerState)
  /\ freed' = TRUE
  /\ UNCHANGED <<runnerState, foreign, hostFrame>>

\* sf_project_destroy skips while an engine is attached or a runner alive.
DestroyProject ==
  /\ Host /\ ~audioEngine /\ ~Alive(runnerState)
  /\ freed' = TRUE
  /\ UNCHANGED <<runnerState, foreign, hostFrame>>

Control ==
  \/ Create \/ (\E p \in BOOLEAN : Start(p)) \/ Stop \/ Join \/ Destroy \/ CallStep
  \/ StandaloneCreate \/ StandaloneStart \/ StandaloneStop \/ StandaloneDestroy
  \/ DestroyProject

(***************************************************************************)
(* The threads.                                                            *)
(***************************************************************************)

\* The top of run_loop: not asked to stop, so a batch.
RunnerBatch ==
  /\ runner = "loop" /\ runnerState # "STOPPING"
  /\ runner' = "batch"
  /\ UNCHANGED <<project, flags, plans, observer, pacer, tick, foreign, control>>

\* The observer: the output is retargeted, or the batch was applied.
RunnerPublish ==
  /\ runner = "batch" /\ observer
  /\ runner' = "publish"
  /\ UNCHANGED <<project, flags, plans, observer, pacer, tick, foreign, control>>

RunnerPublished ==
  /\ runner = "publish"
  /\ Publish
  /\ runner' = "batch"
  /\ UNCHANGED <<project, flags, store, observer, pacer, tick, foreign, control>>

RunnerBatchEnd ==
  /\ runner = "batch"
  /\ runner' = "loop"
  /\ UNCHANGED <<project, flags, plans, observer, pacer, tick, foreign, control>>

\* Asked to stop, at a STOP command, or after an exception: the epilogue.
RunnerExit ==
  /\ runner = "batch" \/ (runner = "loop" /\ runnerState = "STOPPING")
  /\ runnerState' = "STOPPED"
  /\ runner' = "exited"
  /\ UNCHANGED <<audioEngine, freed, flags, plans, observer, pacer, tick,
                 foreign, control>>

StandaloneExit ==
  /\ sthread = "loop"
  /\ runnerState' = "STOPPED"
  /\ sthread' = "exited"
  /\ UNCHANGED <<audioEngine, freed, flags, plans, own, pacer, tick, standalone, control>>

PacerRender ==
  /\ pacer = "check" /\ ~pacerStop
  /\ pacer' = "render"
  /\ UNCHANGED <<project, flags, plans, own, tick, foreign, control>>

PacerRendered ==
  /\ pacer = "render"
  /\ pacer' = "check"
  /\ UNCHANGED <<project, flags, plans, own, tick, foreign, control>>

PacerExit ==
  /\ pacer = "check" /\ pacerStop
  /\ pacer' = "exited"
  /\ UNCHANGED <<project, flags, plans, own, tick, foreign, control>>

InStart == cpc \in {"publish", "pacerFlag", "running", "runner", "pacer", "rollbackRunner",
                    "rollbackStore", "rollbackFlags", "rollbackState"}
InDestroy == cpc \in {"destroyJoin", "destroyRunner", "destroyEngine"}

\* sf_audio_engine_tick: the state is looked at, then the pacer's flag.
TickState ==
  /\ tick = "idle" /\ state = "RUNNING" /\ ~InDestroy /\ (EagerTicks \/ ~InStart)
  /\ tick' = "checkPacer"
  /\ UNCHANGED <<project, flags, plans, own, pacer, foreign, control>>

\* Mutant: the flag is not looked at.
TickPacerUnchecked ==
  /\ tick = "checkPacer"
  /\ tick' = "render"
  /\ UNCHANGED <<project, flags, plans, own, pacer, foreign, control>>

TickPacer ==
  /\ tick = "checkPacer"
  /\ tick' = IF pacerActive THEN "idle" ELSE "render"
  /\ UNCHANGED <<project, flags, plans, own, pacer, foreign, control>>

TickRendered ==
  /\ tick = "render"
  /\ tick' = "idle"
  /\ UNCHANGED <<project, flags, plans, own, pacer, foreign, control>>

RunnerThread ==
  RunnerBatch \/ RunnerPublish \/ RunnerPublished \/ RunnerBatchEnd \/ RunnerExit
PacerThread == PacerRender \/ PacerRendered \/ PacerExit
TickThread == TickState \/ TickPacer \/ TickRendered

Next == Control \/ RunnerThread \/ StandaloneExit \/ PacerThread \/ TickThread

Spec == Init /\ [][Next]_vars

\* A call goes on when it can; a render and a publication end; a pacer and a runner
\* that were asked to leave do; and a batch, of at most kRunnerBatch commands, ends.
FairSpec ==
  /\ Spec
  /\ WF_vars(CallStep)
  /\ WF_vars(PacerThread) /\ WF_vars(TickPacer \/ TickRendered)
  /\ WF_vars(RunnerPublished) /\ WF_vars(RunnerExit) /\ SF_vars(RunnerBatchEnd)

-----------------------------------------------------------------------------
(***************************************************************************)
(* Properties.                                                             *)
(***************************************************************************)

\* Every variable has a value its C++ counterpart can have.
TypeOK ==
  /\ runnerState \in {"IDLE", "RUNNING", "STOPPING", "STOPPED"}
  /\ audioEngine \in BOOLEAN /\ freed \in BOOLEAN
  /\ state \in {"none", "CREATED", "RUNNING", "STOPPING", "STOPPED"}
  /\ pacerActive \in BOOLEAN /\ pacerStop \in BOOLEAN
  /\ planValid \in BOOLEAN /\ store \in Nat /\ hasPlan \in BOOLEAN
  /\ runner \in {"none", "loop", "batch", "publish", "exited"}
  /\ observer \in BOOLEAN
  /\ pacer \in {"none", "check", "render", "exited"}
  /\ tick \in {"idle", "checkPacer", "render"}
  /\ standalone \in {"none", "open"} /\ sthread \in {"none", "loop", "exited"}
  /\ (cpc \in {"idle", "joinPacer", "joinRunner"} \/ InStart \/ InDestroy)
  /\ pace \in BOOLEAN

RunnerAlive == runner \in {"loop", "batch", "publish"} \/ sthread = "loop"

\* The render lane, its scratch buffers and the plan it holds have one user: a tick
\* that got past both of its checks never renders next to the pacer, starts that
\* failed and were tried again included.
OneRenderLane == ~(tick = "render" /\ pacer = "render")

\* The store that a rollback replaces is nobody's: no tick, no pacer and no runner's
\* publication is under way in it.
StoreOutlivesUsers ==
  [][store' # store => tick # "render" /\ pacer # "render" /\ runner # "publish"]_vars

\* Plan #0 is compiled from a document no runner mutates, although create, the gate
\* of start and a standalone runner all look at runnerState and none reserves it.
DocumentIsIdle == cpc = "publish" => ~RunnerAlive

\* A freed project has neither an engine, started or not, nor a live runner.
ProjectOutlivesUsers == freed => state = "none" /\ ~RunnerAlive

\* Every lifecycle call returns, start's rollback and join included, whatever the
\* runner and the pacer are doing when it begins.
CallsReturn == cpc # "idle" ~> cpc = "idle"

\* A start that failed can be tried again: the engine is left "start()-retry-safe"
\* (audio_engine.cpp:482), for which the gate wants runnerState IDLE.
FailedStartCanBeRetried ==
  [][cpc = "rollbackState" /\ cpc' = "idle" => runnerState' = "IDLE"]_vars

\* A tick that sees RUNNING in PACE mode sees pacer_active: "a tick that observes
\* RUNNING necessarily observes pacer_active" (audio_engine.cpp:82-83).
TickSeesPacer == tick = "render" => ~pace
=============================================================================
