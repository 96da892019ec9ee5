---------------------------- MODULE QueueRunner ----------------------------
(***************************************************************************)
(* The queue runner of native/src/core/command_queue_thread.cpp: handles   *)
(* that share the runnerState of one project, the thread that drains the   *)
(* command queue in batches and applies them to the project's document,    *)
(* and the calls of the control thread, which by contract makes them one   *)
(* at a time (sf_command_queue.h, C8).  The queue is the FIFO that         *)
(* CommandRing implements.                                                 *)
(*                                                                         *)
(* The document is the sequence of the mutations made to it: the numbers   *)
(* of queued commands, and Direct for a call of a synchronous mutator.     *)
(* Whether the graph accepts a mutation is left open, and so is whether    *)
(* memory runs out: every place that can throw may throw.                  *)
(***************************************************************************)
EXTENDS Integers, Sequences

CONSTANTS
  Runners,      \* runner handles the host creates on the project
  Capacity,     \* commands the queue holds: 256 in the code
  Batch,        \* kRunnerBatch: 64 in the code
  MaxCommands,  \* bound of the model: commands enqueued per behaviour
  MaxDirect     \* bound of the model: synchronous mutations per behaviour

ASSUME RunnerAssumption ==
  /\ Capacity \in Nat \ {0} /\ Batch \in Nat \ {0}
  /\ MaxCommands \in Nat /\ MaxDirect \in Nat

\* SF_CMD_STOP, _EVALUATE_MIXER, _SET_OUTPUT, and everything apply_batch applies.
Kinds == {"stop", "evaluate", "setOutput", "mutation"}
Direct == 0
NoRunner == "none"

VARIABLES
  queued, accepted, taken,  \* the command queue, see CommandFifo
  runnerState,   \* SfProject::runnerState, one for all handles of the project
  doc,           \* SfProject::doc: the mutations made so far, in order
  freed,         \* sf_project_destroy has freed the project
  handle,        \* per runner: "none", "open" or "freed"
  observer,      \* per runner: an engine's observer is attached
  report,        \* per runner: mutations the last report saw, -1 for no report
  tpc,           \* per runner: its thread's place in run_loop and runner_main
  local,         \* per runner: run_loop's batch, fetched, applied, rc and stop_requested
  cpc, joining,  \* the control thread: its place, the runner it joins
  output,        \* engine: out_node_id, as the number of the command that set it
  plan,          \* engine: document length and output of the last plan published
  planValid,     \* engine: plan_valid
  missed,        \* history: an exception skipped a publication since the last one
  clean          \* history: no command was rejected and nothing was thrown

queue  == <<queued, accepted, taken>>
engine == <<output, plan, planValid, missed>>
control == <<cpc, joining>>
vars == <<queue, runnerState, doc, freed, handle, observer, report, tpc, local,
          control, engine, clean>>

Queue == INSTANCE CommandFifo WITH Commands <- Kinds

NoLocals ==
  [batch |-> <<>>, fetched |-> 0, applied |-> 0, failed |-> FALSE, stop |-> FALSE]

Init ==
  /\ Queue!Init
  /\ runnerState = "IDLE" /\ doc = <<>> /\ freed = FALSE
  /\ handle = [r \in Runners |-> "none"]
  /\ observer = [r \in Runners |-> FALSE]
  /\ report = [r \in Runners |-> -1]
  /\ tpc = [r \in Runners |-> "none"]
  /\ local = [r \in Runners |-> NoLocals]
  /\ cpc = "idle" /\ joining = NoRunner
  /\ output = 0 /\ plan = [doc |-> 0, output |-> 0] /\ planValid = FALSE
  /\ missed = FALSE /\ clean = TRUE

\* Mutant: a runner that was asked to stop is taken for gone.
AliveUnlessStopping(s) == s = "RUNNING"

\* runner_thread_alive: the thread may still touch the document.
Alive(s) == s \in {"RUNNING", "STOPPING"}

\* The plan store compiles the document and the output, or fails and keeps the
\* plan it has (see SnapshotStore).
PublishPlan(out) ==
  \/ /\ plan' = [doc |-> Len(doc), output |-> out]
     /\ planValid' = TRUE
     /\ missed' = FALSE
  \/ /\ planValid' = FALSE
     /\ UNCHANGED <<plan, missed>>

(***************************************************************************)
(* The producer.                                                           *)
(***************************************************************************)

Enqueue(kind) ==
  /\ accepted < MaxCommands
  /\ Queue!Accept(kind)
  /\ UNCHANGED <<runnerState, doc, freed, handle, observer, report, tpc, local,
                 control, engine, clean>>

(***************************************************************************)
(* The control thread.  It makes no call on a project or a handle that it  *)
(* has freed.                                                              *)
(***************************************************************************)

Ready(r) == cpc = "idle" /\ ~freed /\ handle[r] = "open"

\* sf_queue_runner_create: the state is looked at, not reserved.
Create(r) ==
  /\ cpc = "idle" /\ ~freed /\ handle[r] = "none"
  /\ runnerState = "IDLE"
  /\ handle' = [handle EXCEPT ![r] = "open"]
  /\ UNCHANGED <<queue, runnerState, doc, freed, observer, report, tpc, local,
                 control, engine, clean>>

\* sf_queue_runner_start, standalone or (obs) inside sf_audio_engine_start, which
\* publishes plan #0 of the idle document and attaches its observer first.  When
\* the thread cannot be spawned the state is IDLE again: no step.
Start(r, obs) ==
  /\ Ready(r)
  /\ runnerState = "IDLE"
  /\ runnerState' = "RUNNING"
  /\ tpc' = [tpc EXCEPT ![r] = "top"]
  /\ observer' = [observer EXCEPT ![r] = obs]
  /\ IF obs THEN PublishPlan(output) /\ UNCHANGED output ELSE UNCHANGED engine
  /\ UNCHANGED <<queue, doc, freed, handle, report, local, control, clean>>

\* Mutant: stop settles the state itself.
StopSettles(r) ==
  /\ Ready(r)
  /\ runnerState = "RUNNING"
  /\ runnerState' = "STOPPED"
  /\ UNCHANGED <<queue, doc, freed, handle, observer, report, tpc, local, control,
                 engine, clean>>

\* sf_queue_runner_stop: RUNNING -> STOPPING whoever runs, else a no-op.
Stop(r) ==
  /\ Ready(r)
  /\ runnerState = "RUNNING"
  /\ runnerState' = "STOPPING"
  /\ UNCHANGED <<queue, doc, freed, handle, observer, report, tpc, local, control,
                 engine, clean>>

\* sf_queue_runner_join: the caller waits for the thread, if there is one.
JoinBegin(r) ==
  /\ Ready(r) /\ tpc[r] # "none"
  /\ cpc' = "join" /\ joining' = r
  /\ UNCHANGED <<queue, runnerState, doc, freed, handle, observer, report, tpc,
                 local, engine, clean>>

JoinReturn ==
  /\ cpc = "join" /\ tpc[joining] = "exited"
  /\ tpc' = [tpc EXCEPT ![joining] = "none"]
  /\ cpc' = "idle" /\ joining' = NoRunner
  /\ UNCHANGED <<queue, runnerState, doc, freed, handle, observer, report, local,
                 engine, clean>>

\* sf_queue_runner_destroy: refused while a thread is alive on the project, else
\* an unjoined thread is joined and the handle freed.
Destroy(r) ==
  /\ Ready(r) /\ ~Alive(runnerState) /\ tpc[r] \in {"none", "exited"}
  /\ handle' = [handle EXCEPT ![r] = "freed"]
  /\ tpc' = IF tpc[r] = "exited" THEN [tpc EXCEPT ![r] = "none"] ELSE tpc
  /\ UNCHANGED <<queue, runnerState, doc, freed, observer, report, local, control,
                 engine, clean>>

\* sf_project_destroy, refused while a thread is alive.
DestroyProject ==
  /\ cpc = "idle" /\ ~freed /\ ~Alive(runnerState)
  /\ freed' = TRUE
  /\ UNCHANGED <<queue, runnerState, doc, handle, observer, report, tpc, local,
                 control, engine, clean>>

\* Synchronous mutations so far, for the bound MaxDirect.
DirectCalls == Len(SelectSeq(doc, LAMBDA m : m = Direct))

\* A synchronous mutator (sf_graph_apply_batch, sf_graph_*, sf_project_*): one load
\* of the state, then the mutation.
DirectBegin ==
  /\ cpc = "idle" /\ ~freed /\ ~Alive(runnerState)
  /\ DirectCalls < MaxDirect
  /\ cpc' = "mutate"
  /\ UNCHANGED <<queue, runnerState, doc, freed, handle, observer, report, tpc,
                 local, joining, engine, clean>>

DirectMutate ==
  /\ cpc = "mutate"
  /\ doc' = Append(doc, Direct)
  /\ cpc' = "idle"
  /\ UNCHANGED <<queue, runnerState, freed, handle, observer, report, tpc, local,
                 joining, engine, clean>>

Control ==
  \/ \E r \in Runners :
        \/ Create(r) \/ Stop(r) \/ JoinBegin(r) \/ Destroy(r)
        \/ \E obs \in BOOLEAN : Start(r, obs)
  \/ JoinReturn \/ DestroyProject \/ DirectBegin \/ DirectMutate

(***************************************************************************)
(* The runner's thread.                                                    *)
(***************************************************************************)

Goto(r, place) == tpc' = [tpc EXCEPT ![r] = place]
threadFrame == <<runnerState, freed, handle, observer, control>>

\* Mutant: a batch is started without a look at the state.
TopBlind(r) ==
  /\ tpc[r] = "top"
  /\ Goto(r, "fetch")
  /\ local' = [local EXCEPT ![r] = NoLocals]
  /\ UNCHANGED <<queue, doc, report, engine, clean, threadFrame>>

\* The head of run_loop: leave when asked to, or start a batch.
Top(r) ==
  /\ tpc[r] = "top"
  /\ IF runnerState = "STOPPING"
     THEN Goto(r, "epilogue") /\ UNCHANGED local
     ELSE Goto(r, "fetch") /\ local' = [local EXCEPT ![r] = NoLocals]
  /\ UNCHANGED <<queue, doc, report, engine, clean, threadFrame>>

\* Mutant: one command more than the buffer holds.
FetchingPastBatch(r) == tpc[r] = "fetch" /\ local[r].fetched <= Batch /\ queued # <<>>

Fetching(r) == tpc[r] = "fetch" /\ local[r].fetched < Batch /\ queued # <<>>
Fetched(r) == [local[r] EXCEPT !.fetched = @ + 1]

FetchMutation(r) ==
  /\ Fetching(r) /\ Head(queued).cmd = "mutation"
  /\ Queue!Take
  /\ local' = [local EXCEPT
                 ![r] = [Fetched(r) EXCEPT !.batch = Append(@, Head(queued).seq)]]
  /\ UNCHANGED <<doc, report, tpc, engine, clean, threadFrame>>

\* Mutant: the loop goes on filling the batch behind a STOP.
FetchStopGoesOn(r) ==
  /\ Fetching(r) /\ Head(queued).cmd = "stop"
  /\ Queue!Take
  /\ local' = [local EXCEPT ![r] = [Fetched(r) EXCEPT !.stop = TRUE]]
  /\ UNCHANGED <<doc, report, tpc, engine, clean, threadFrame>>

\* The STOP barrier: what is behind it stays queued.
FetchStop(r) ==
  /\ Fetching(r) /\ Head(queued).cmd = "stop"
  /\ Queue!Take
  /\ local' = [local EXCEPT ![r] = [Fetched(r) EXCEPT !.stop = TRUE]]
  /\ Goto(r, "apply")
  /\ UNCHANGED <<doc, report, engine, clean, threadFrame>>

\* The mixer of the document as it is, without the mutations of this batch.
FetchEvaluate(r) ==
  /\ Fetching(r) /\ Head(queued).cmd = "evaluate"
  /\ Queue!Take
  /\ local' = [local EXCEPT ![r] = Fetched(r)]
  /\ report' = [report EXCEPT ![r] = Len(doc)]
  /\ UNCHANGED <<doc, tpc, engine, clean, threadFrame>>

\* Observer's set_output, called at once; an exception inside is fenced, and
\* without an observer nothing happens.
FetchSetOutput(r) ==
  /\ Fetching(r) /\ Head(queued).cmd = "setOutput"
  /\ Queue!Take
  /\ local' = [local EXCEPT ![r] = Fetched(r)]
  /\ \/ observer[r] /\ output' = Head(queued).seq /\ PublishPlan(output')
     \/ UNCHANGED engine
  /\ UNCHANGED <<doc, report, tpc, clean, threadFrame>>

\* Outside the fences an exception ends the thread, before what the command does
\* or (in the line that logs it) after: the batch is lost.
FetchCrash(r) ==
  /\ Fetching(r) /\ Head(queued).cmd \in {"evaluate", "setOutput"}
  /\ Queue!Take
  /\ Goto(r, "epilogue")
  /\ clean' = FALSE
  /\ \/ UNCHANGED <<report, engine>>
     \/ /\ Head(queued).cmd = "evaluate"
        /\ report' = [report EXCEPT ![r] = Len(doc)]
        /\ UNCHANGED engine
     \/ /\ Head(queued).cmd = "setOutput" /\ observer[r]
        /\ output' = Head(queued).seq /\ PublishPlan(output')
        /\ UNCHANGED report
  /\ UNCHANGED <<doc, local, threadFrame>>

FetchEnd(r) ==
  /\ tpc[r] = "fetch"
  /\ local[r].fetched = Batch \/ queued = <<>>
  /\ Goto(r, "apply")
  /\ UNCHANGED <<queue, doc, report, local, engine, clean, threadFrame>>

Fetch(r) ==
  \/ FetchMutation(r) \/ FetchStop(r) \/ FetchEvaluate(r) \/ FetchSetOutput(r)
  \/ FetchCrash(r) \/ FetchEnd(r)

Applying(r) == tpc[r] = "apply" /\ local[r].batch # <<>>

\* Mutant: the batch is applied from its end.
ApplyLast(r) ==
  /\ Applying(r)
  /\ doc' = Append(doc, local[r].batch[Len(local[r].batch)])
  /\ local' = [local EXCEPT ![r].batch = SubSeq(@, 1, Len(@) - 1), ![r].applied = @ + 1]
  /\ UNCHANGED <<queue, report, tpc, engine, clean, threadFrame>>

\* apply_batch_impl: the next command of the batch is applied.
ApplyOne(r) ==
  /\ Applying(r)
  /\ doc' = Append(doc, Head(local[r].batch))
  /\ local' = [local EXCEPT ![r].batch = Tail(@), ![r].applied = @ + 1]
  /\ UNCHANGED <<queue, report, tpc, engine, clean, threadFrame>>

\* Mutant: a failed batch reports no progress.
ApplyRejectUncounted(r) ==
  /\ Applying(r)
  /\ local' = [local EXCEPT ![r].batch = <<>>, ![r].applied = 0, ![r].failed = TRUE]
  /\ clean' = FALSE
  /\ UNCHANGED <<queue, doc, report, tpc, engine, threadFrame>>

\* It is rejected: the rest of the batch is dropped, and the number of commands
\* applied is reported.
ApplyReject(r) ==
  /\ Applying(r)
  /\ local' = [local EXCEPT ![r].batch = <<>>, ![r].failed = TRUE]
  /\ clean' = FALSE
  /\ UNCHANGED <<queue, doc, report, tpc, engine, threadFrame>>

\* An exception, before or after the mutation itself: the rest of the batch is
\* dropped, and the number of commands applied is reported as 0.
ApplyThrow(r) ==
  /\ Applying(r)
  /\ doc' \in {doc, Append(doc, Head(local[r].batch))}
  /\ local' = [local EXCEPT ![r].batch = <<>>, ![r].applied = 0, ![r].failed = TRUE]
  /\ clean' = FALSE
  /\ missed' = (missed \/ local[r].applied > 0 \/ doc' # doc)
  /\ UNCHANGED <<queue, report, tpc, output, plan, planValid, threadFrame>>

Apply(r) == ApplyOne(r) \/ ApplyReject(r) \/ ApplyThrow(r)

\* Mutant: after an empty batch the queue is not looked at again.
EndBatchIdle(r) ==
  Goto(r, IF local[r].stop THEN "epilogue"
          ELSE IF local[r].fetched = 0 THEN "apply" ELSE "top")

\* After the batch: leave behind a STOP, else start over.
EndBatch(r) == Goto(r, IF local[r].stop THEN "epilogue" ELSE "top")
BatchApplied(r) == tpc[r] = "apply" /\ local[r].batch = <<>>

\* Observer's publish, after a batch said to have applied something.
PublishBatch(r) ==
  /\ BatchApplied(r)
  /\ local[r].applied > 0 /\ observer[r]
  /\ PublishPlan(output)
  /\ EndBatch(r)
  /\ UNCHANGED <<queue, doc, report, local, output, clean, threadFrame>>

SkipPublish(r) ==
  /\ BatchApplied(r)
  /\ local[r].applied = 0 \/ ~observer[r]
  /\ EndBatch(r)
  /\ UNCHANGED <<queue, doc, report, local, engine, clean, threadFrame>>

\* Building the log line of a failed batch throws: the thread ends unpublished.
LogCrash(r) ==
  /\ BatchApplied(r) /\ local[r].failed
  /\ Goto(r, "epilogue")
  /\ missed' = (missed \/ local[r].applied > 0)
  /\ UNCHANGED <<queue, doc, report, local, output, plan, planValid, clean, threadFrame>>

\* runner_main's last store; the thread touches nothing any more.
Epilogue(r) ==
  /\ tpc[r] = "epilogue"
  /\ runnerState' = "STOPPED"
  /\ Goto(r, "exited")
  /\ local' = [local EXCEPT ![r] = NoLocals]
  /\ UNCHANGED <<queue, doc, freed, handle, observer, report, control, engine, clean>>

Thread(r) ==
  \/ Top(r) \/ Fetch(r) \/ Apply(r) \/ PublishBatch(r) \/ SkipPublish(r)
  \/ LogCrash(r) \/ Epilogue(r)

Next ==
  \/ \E kind \in Kinds : Enqueue(kind)
  \/ Control
  \/ \E r \in Runners : Thread(r)

Spec == Init /\ [][Next]_vars

\* The operating system runs the runner's thread, and lets a join return.
FairSpec == Spec /\ WF_vars(JoinReturn) /\ \A r \in Runners : WF_vars(Thread(r))

-----------------------------------------------------------------------------
(***************************************************************************)
(* Properties.                                                             *)
(***************************************************************************)

InLoop == {"top", "fetch", "apply", "epilogue"}

\* Every variable has a value its C++ counterpart can have.
TypeOK ==
  /\ queued \in Seq([seq : Nat, cmd : Kinds]) /\ accepted \in Nat
  /\ taken \in Seq([seq : Nat, cmd : Kinds])
  /\ runnerState \in {"IDLE", "RUNNING", "STOPPING", "STOPPED"}
  /\ doc \in Seq(Nat) /\ freed \in BOOLEAN
  /\ handle \in [Runners -> {"none", "open", "freed"}]
  /\ observer \in [Runners -> BOOLEAN]
  /\ report \in [Runners -> Nat \cup {-1}]
  /\ tpc \in [Runners -> InLoop \cup {"none", "exited"}]
  /\ local \in [Runners -> [batch : Seq(Nat), fetched : 0 .. Batch, applied : Nat,
                            failed : BOOLEAN, stop : BOOLEAN]]
  /\ cpc \in {"idle", "join", "mutate"} /\ joining \in Runners \cup {NoRunner}
  /\ output \in Nat /\ plan \in [doc : Nat, output : Nat] /\ planValid \in BOOLEAN
  /\ missed \in BOOLEAN /\ clean \in BOOLEAN

\* The document has one mutating thread: no synchronous call that got past the
\* guard overlaps a runner's loop, and no two runners of the project run
\* (C3, C7), although create reserves nothing and stop returns at once.
SoleOwner ==
  /\ cpc = "mutate" => \A r \in Runners : tpc[r] \notin InLoop
  /\ \A r, s \in Runners : tpc[r] \in InLoop /\ tpc[s] \in InLoop => r = s

\* A thread in its loop has its project and its handle (SEC-G3-2): neither destroy
\* frees under it, whichever handle it is called on.
NoUseAfterFree ==
  \A r \in Runners : tpc[r] \in InLoop => handle[r] = "open" /\ ~freed

\* Nothing behind a STOP is taken from the queue, by this runner or a later one
\* (ORC-2).
StopBarrier == \A i \in 1 .. Len(taken) : taken[i].cmd = "stop" => i = Len(taken)

QueuedMutations == {doc[i] : i \in DOMAIN doc} \ {Direct}
TakenMutations ==
  {taken[i].seq : i \in {k \in DOMAIN taken : taken[k].cmd = "mutation"}}

\* Queued mutations are applied in the order they were queued (the queue numbers them
\* as it takes them in), none twice; and while none is rejected and nothing is thrown,
\* none that was taken is lost, however the runner is stopped.
AppliedInOrder ==
  /\ \A i, j \in 1 .. Len(doc) :
        i < j /\ doc[i] # Direct /\ doc[j] # Direct => doc[i] < doc[j]
  /\ clean /\ (\A r \in Runners : tpc[r] \notin {"fetch", "apply"})
       => QueuedMutations = TakenMutations

Current == plan = [doc |-> Len(doc), output |-> output]
BetweenBatches(r) == tpc[r] \in {"top", "fetch", "epilogue"} /\ observer[r]

\* Between two batches the engine's plan is of the document and the output as they
\* are, partly applied batches and live retargets included, unless the compile
\* failed or an exception got in the way of the publication.
PlanCurrent ==
  \A r \in Runners : BetweenBatches(r) /\ planValid /\ ~missed => Current

\* The same without the exception: the plan is published after every batch "that
\* applied >= 1 mutation" (command_queue_thread.cpp:190), which apply_batch
\* reports with "*applied = number applied so far" (sf_command_queue.h:84).
PlanFollowsDocument == \A r \in Runners : BetweenBatches(r) /\ planValid => Current

\* A stop, as a call or as a command that was taken, ends the session whatever the
\* producer goes on queueing, so that the join after it returns.
StopIsAnswered ==
  (runnerState = "STOPPING" \/ \E i \in 1 .. Len(taken) : taken[i].cmd = "stop")
    ~> runnerState = "STOPPED"

\* What is queued while a runner runs is taken, or the session ends.
EnqueuedIsTaken ==
  \A n \in 1 .. MaxCommands :
    (Alive(runnerState) /\ accepted >= n) ~> (Len(taken) >= n \/ ~Alive(runnerState))
=============================================================================
