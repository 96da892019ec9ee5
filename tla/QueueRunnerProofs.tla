------------------------ MODULE QueueRunnerProofs ------------------------
(***************************************************************************)
(* Proofs about QueueRunner for any number of runners on the project, any  *)
(* capacity and batch size and any number of commands.                     *)
(***************************************************************************)
EXTENDS QueueRunner, SequenceTheorems, TLAPS

Busy == {"fetch", "apply"}

\* A thread in its loop has the project to itself; one that left has settled the state.
Ownership ==
  /\ cpc = "join" => joining \in Runners
  /\ runnerState = "IDLE" => \A r \in Runners : tpc[r] = "none"
  /\ \A r \in Runners : tpc[r] \in InLoop =>
       Alive(runnerState) /\ handle[r] = "open" /\ ~freed /\ cpc # "mutate"
  /\ \A r, s \in Runners : tpc[r] \in InLoop /\ tpc[s] \in InLoop => r = s

\* The queue numbers its commands as it takes them in.
Numbered ==
  /\ accepted = Len(taken) + Len(queued)
  /\ \A i \in 1 .. Len(taken) : taken[i].seq = i
  /\ \A i \in 1 .. Len(queued) : queued[i].seq = Len(taken) + i

\* A STOP that was taken is the last command taken, and its thread is on its way out.
Barrier ==
  \A i \in 1 .. Len(taken) : taken[i].cmd = "stop" =>
    /\ i = Len(taken) /\ runnerState # "IDLE"
    /\ \A r \in Runners : tpc[r] \in InLoop =>
         tpc[r] = "epilogue" \/ (tpc[r] = "apply" /\ local[r].stop)

\* The mutations of the batch a thread is filling or applying.
Elements(seq) == {seq[i] : i \in 1 .. Len(seq)}
BatchOf(r) == Elements(local[r].batch)
BatchMutations == UNION {BatchOf(r) : r \in {s \in Runners : tpc[s] \in Busy}}

\* The document, then the batch, then the queue: numbers only grow from left to right.
Ordered ==
  /\ \A i \in 1 .. Len(doc) : doc[i] <= Len(taken)
  /\ \A i, j \in 1 .. Len(doc) :
       i < j /\ doc[i] # Direct /\ doc[j] # Direct => doc[i] < doc[j]
  /\ \A r \in Runners : tpc[r] \in Busy =>
       LET batch == local[r].batch
       IN  /\ \A i \in 1 .. Len(batch) : 0 < batch[i] /\ batch[i] <= Len(taken)
           /\ \A i, j \in 1 .. Len(batch) : i < j => batch[i] < batch[j]
           /\ \A i \in 1 .. Len(doc), j \in 1 .. Len(batch) : doc[i] < batch[j]

\* What was taken is in the document or in the batch.
NothingLost == clean => TakenMutations = QueuedMutations \cup BatchMutations

\* The plan is behind the document only while a batch that changed it is being applied.
PlanFollows ==
  \A r \in Runners :
    /\ tpc[r] = "fetch" => local[r].applied = 0
    /\ /\ tpc[r] \in InLoop /\ observer[r] /\ planValid /\ ~missed
       /\ tpc[r] = "apply" => local[r].applied = 0
       => Current

IInv == TypeOK /\ Ownership /\ Numbered /\ Barrier /\ Ordered /\ NothingLost /\ PlanFollows

-----------------------------------------------------------------------------
(***************************************************************************)
(* What the steps of the queue do to it.                                   *)
(***************************************************************************)

QueuedCommand == [seq : Nat, cmd : Kinds]
Locals == [batch : Seq(Nat), fetched : 0 .. Batch, applied : Nat,
           failed : BOOLEAN, stop : BOOLEAN]

LEMMA HeadIsFirst ==
  ASSUME NEW S, NEW s \in Seq(S), s # <<>>
  PROVE  /\ Head(s) = s[1] /\ Head(s) \in S /\ Len(s) \in Nat \ {0}
         /\ Tail(s) \in Seq(S) /\ Len(Tail(s)) = Len(s) - 1
         /\ \A i \in 1 .. Len(s) - 1 : Tail(s)[i] = s[i + 1]
<1>1. Len(s) \in Nat \ {0}
  BY EmptySeq
<1>2. QED
  BY <1>1, HeadTailProperties

LEMMA TakeFacts ==
  ASSUME TypeOK, Queue!Take
  PROVE  /\ Len(queued) \in Nat \ {0} /\ Len(taken) \in Nat
         /\ Head(queued) = queued[1] /\ Head(queued) \in QueuedCommand
         /\ queued' \in Seq(QueuedCommand) /\ Len(queued') = Len(queued) - 1
         /\ \A i \in 1 .. Len(queued) - 1 : queued'[i] = queued[i + 1]
         /\ taken' \in Seq(QueuedCommand) /\ Len(taken') = Len(taken) + 1
         /\ \A i \in 1 .. Len(taken) : taken'[i] = taken[i]
         /\ taken'[Len(taken) + 1] = queued[1]
         /\ accepted' = accepted
<1>1. queued \in Seq(QueuedCommand) /\ taken \in Seq(QueuedCommand) /\ queued # <<>>
  BY DEF TypeOK, QueuedCommand, Queue!Take
<1>2. /\ Head(queued) = queued[1] /\ Head(queued) \in QueuedCommand
      /\ Len(queued) \in Nat \ {0} /\ Tail(queued) \in Seq(QueuedCommand)
      /\ Len(Tail(queued)) = Len(queued) - 1
      /\ \A i \in 1 .. Len(queued) - 1 : Tail(queued)[i] = queued[i + 1]
  BY <1>1, HeadIsFirst
<1>3. taken' = Append(taken, Head(queued)) /\ queued' = Tail(queued) /\ accepted' = accepted
  BY DEF Queue!Take
<1>4. QED
  BY <1>1, <1>2, <1>3, AppendProperties, LenProperties

LEMMA AcceptFacts ==
  ASSUME TypeOK, NEW kind \in Kinds, Queue!Accept(kind)
  PROVE  /\ Len(queued) \in Nat
         /\ queued' \in Seq(QueuedCommand) /\ Len(queued') = Len(queued) + 1
         /\ \A i \in 1 .. Len(queued) : queued'[i] = queued[i]
         /\ queued'[Len(queued) + 1].seq = accepted + 1
         /\ accepted' = accepted + 1 /\ taken' = taken
<1> DEFINE new == [seq |-> accepted + 1, cmd |-> kind]
<1>1. queued \in Seq(QueuedCommand) /\ new \in QueuedCommand
  BY DEF TypeOK, QueuedCommand
<1>2. queued' = Append(queued, new) /\ accepted' = accepted + 1 /\ taken' = taken
  BY DEF Queue!Accept
<1>3. new.seq = accepted + 1
  OBVIOUS
<1> HIDE DEF new
<1>4. QED
  BY <1>1, <1>2, <1>3, AppendProperties, LenProperties

-----------------------------------------------------------------------------
(***************************************************************************)
(* Types.                                                                  *)
(***************************************************************************)

LEMMA PublishPlanTypes ==
  ASSUME TypeOK, NEW out \in Nat, PublishPlan(out)
  PROVE  /\ plan' \in [doc : Nat, output : Nat]
         /\ planValid' \in BOOLEAN /\ missed' \in BOOLEAN
<1>1. Len(doc) \in Nat
  BY LenProperties DEF TypeOK
<1>2. plan' \in [doc : Nat, output : Nat]
  BY <1>1 DEF TypeOK, PublishPlan
<1>3. planValid' \in BOOLEAN /\ missed' \in BOOLEAN
  BY DEF TypeOK, PublishPlan
<1>4. QED
  BY <1>2, <1>3

LEMMA ControlTypes ==
  ASSUME TypeOK, Ownership, Control PROVE TypeOK'
<1> USE DEF control, queue, engine
<1>1. ASSUME NEW r \in Runners, Create(r) \/ Stop(r) \/ JoinBegin(r) \/ Destroy(r)
      PROVE  TypeOK'
  BY <1>1 DEF TypeOK, Create, Stop, JoinBegin, Destroy, Ready
<1>2. ASSUME NEW r \in Runners, NEW obs \in BOOLEAN, Start(r, obs) PROVE TypeOK'
  <2>1. /\ plan' \in [doc : Nat, output : Nat] /\ planValid' \in BOOLEAN
        /\ missed' \in BOOLEAN /\ output' \in Nat
    BY <1>2, PublishPlanTypes DEF Start, TypeOK
  <2>2. QED
    BY <1>2, <2>1 DEF TypeOK, Start, Ready, InLoop
<1>3. CASE JoinReturn \/ DestroyProject \/ DirectBegin
  BY <1>3 DEF TypeOK, JoinReturn, DestroyProject, DirectBegin
<1>4. CASE DirectMutate
  <2>1. doc' \in Seq(Nat)
    BY <1>4, AppendProperties DEF DirectMutate, TypeOK, Direct
  <2>2. QED
    BY <1>4, <2>1 DEF TypeOK, DirectMutate
<1>5. QED
  BY <1>1, <1>2, <1>3, <1>4 DEF Control

LEMMA FetchTypes ==
  ASSUME TypeOK, NEW r \in Runners, Fetch(r) PROVE TypeOK'
<1> USE DEF threadFrame, control, queue, engine, Goto
<1>1. CASE FetchEnd(r)
  BY <1>1 DEF TypeOK, FetchEnd, InLoop
<1>2. CASE ~FetchEnd(r)
  <2> USE <1>2 DEF Fetch, FetchMutation, FetchStop, FetchEvaluate, FetchSetOutput,
                   FetchCrash
  <2>1. Queue!Take /\ local[r].fetched < Batch
    BY DEF Fetching
  <2>2. /\ Head(queued) \in QueuedCommand /\ queued' \in Seq(QueuedCommand)
        /\ taken' \in Seq(QueuedCommand) /\ accepted' \in Nat
    BY <2>1, TakeFacts DEF TypeOK
  <2>3. Fetched(r) \in Locals /\ Fetched(r).batch \in Seq(Nat)
    <3>1. local[r] \in Locals
      BY DEF TypeOK, Locals
    <3>2. local[r].fetched + 1 \in 0 .. Batch
      BY <2>1, <3>1, RunnerAssumption DEF Locals
    <3>3. QED
      BY <3>1, <3>2 DEF Fetched, Locals
  <2>4. CASE FetchMutation(r)
    <3>1. Append(Fetched(r).batch, Head(queued).seq) \in Seq(Nat)
      BY <2>2, <2>3, AppendProperties DEF QueuedCommand
    <3>2. local' \in [Runners -> Locals]
      BY <2>3, <2>4, <3>1 DEF TypeOK, Locals
    <3>3. QED
      BY <2>2, <2>4, <3>2 DEF TypeOK, QueuedCommand, Locals
  <2>5. CASE FetchStop(r)
    BY <2>2, <2>3, <2>5 DEF TypeOK, QueuedCommand, InLoop, Locals
  <2>6. CASE FetchEvaluate(r)
    BY <2>2, <2>3, <2>6, LenProperties DEF TypeOK, QueuedCommand, Locals
  <2>7. CASE FetchSetOutput(r)
    <3>1. /\ plan' \in [doc : Nat, output : Nat] /\ planValid' \in BOOLEAN
          /\ missed' \in BOOLEAN /\ output' \in Nat
      BY <2>2, <2>7, PublishPlanTypes DEF TypeOK, QueuedCommand
    <3>2. QED
      BY <2>2, <2>3, <2>7, <3>1 DEF TypeOK, QueuedCommand, Locals
  <2>8. CASE FetchCrash(r)
    <3>1. /\ plan' \in [doc : Nat, output : Nat] /\ planValid' \in BOOLEAN
          /\ missed' \in BOOLEAN /\ output' \in Nat
      <4>1. CASE UNCHANGED engine
        BY <4>1 DEF TypeOK
      <4>2. CASE output' = Head(queued).seq /\ PublishPlan(output')
        BY <2>2, <2>8, <4>2, PublishPlanTypes DEF TypeOK, QueuedCommand
      <4>3. QED
        BY <2>8, <4>1, <4>2
    <3>2. report' = report \/ report' = [report EXCEPT ![r] = Len(doc)]
      BY <2>8
    <3>3. report' \in [Runners -> Nat \cup {-1}]
      <4>1. Len(doc) \in Nat
        BY LenProperties DEF TypeOK
      <4>2. QED
        BY <3>2, <4>1 DEF TypeOK
    <3>4. QED
      BY <2>2, <2>8, <3>1, <3>3 DEF TypeOK, QueuedCommand, InLoop
  <2>9. QED
    BY <2>4, <2>5, <2>6, <2>7, <2>8
<1>3. QED
  BY <1>1, <1>2

LEMMA ApplyTypes ==
  ASSUME TypeOK, NEW r \in Runners, Apply(r) PROVE TypeOK'
<1> USE DEF threadFrame, control, queue, engine, Goto
<1>1. local[r].batch \in Seq(Nat) /\ local[r].batch # <<>> /\ local[r].applied \in Nat
  BY DEF Apply, ApplyOne, ApplyReject, ApplyThrow, Applying, TypeOK
<1>2. /\ Head(local[r].batch) \in Nat /\ Tail(local[r].batch) \in Seq(Nat)
      /\ Append(doc, Head(local[r].batch)) \in Seq(Nat) /\ <<>> \in Seq(Nat)
  <2>1. Head(local[r].batch) \in Nat /\ Tail(local[r].batch) \in Seq(Nat)
    BY <1>1, HeadIsFirst
  <2>2. QED
    BY <2>1, AppendProperties, EmptySeq DEF TypeOK
<1>3. local \in [Runners -> Locals]
  BY DEF TypeOK, Locals
<1>4. local' \in [Runners -> Locals]
  <2>1. CASE ApplyOne(r)
    <3>1. local' = [local EXCEPT ![r] = [local[r] EXCEPT !.batch = Tail(local[r].batch),
                                                       !.applied = local[r].applied + 1]]
      BY <1>3, <2>1 DEF ApplyOne, Locals
    <3>2. local[r].applied + 1 \in Nat
      BY <1>1
    <3>3. QED
      BY <1>2, <1>3, <3>1, <3>2 DEF Locals
  <2>2. CASE ApplyReject(r)
    BY <1>2, <1>3, <2>2 DEF ApplyReject, Locals
  <2>3. CASE ApplyThrow(r)
    BY <1>2, <1>3, <2>3 DEF ApplyThrow, Locals
  <2>4. QED
    BY <2>1, <2>2, <2>3 DEF Apply
<1>5. doc' \in Seq(Nat) /\ clean' \in BOOLEAN /\ missed' \in BOOLEAN
  BY <1>2 DEF TypeOK, Apply, ApplyOne, ApplyReject, ApplyThrow
<1>6. QED
  BY <1>4, <1>5 DEF TypeOK, Locals, Apply, ApplyOne, ApplyReject, ApplyThrow

LEMMA TypesInd ==
  ASSUME TypeOK, Ownership, [Next]_vars PROVE TypeOK'
<1> USE DEF threadFrame, control, queue, engine, Goto
<1>1. ASSUME NEW kind \in Kinds, Enqueue(kind) PROVE TypeOK'
  <2>1. queued' \in Seq(QueuedCommand) /\ accepted' \in Nat /\ taken' = taken
    BY <1>1, AcceptFacts DEF Enqueue, TypeOK
  <2>2. QED
    BY <1>1, <2>1 DEF Enqueue, TypeOK, QueuedCommand
<1>2. CASE Control
  BY <1>2, ControlTypes
<1>3. ASSUME NEW r \in Runners, Thread(r) PROVE TypeOK'
  <2>1. CASE Top(r) \/ Epilogue(r)
    <3>1. NoLocals \in Locals
      BY EmptySeq, RunnerAssumption DEF NoLocals, Locals
    <3>2. local' \in [Runners -> Locals]
      BY <2>1, <3>1 DEF TypeOK, Locals, Top, Epilogue
    <3>3. tpc' \in [Runners -> InLoop \cup {"none", "exited"}]
      BY <2>1 DEF TypeOK, Top, Epilogue, InLoop
    <3>4. QED
      BY <2>1, <3>2, <3>3 DEF TypeOK, Locals, Top, Epilogue
  <2>2. CASE Fetch(r)
    BY <2>2, <1>3, FetchTypes
  <2>3. CASE Apply(r)
    BY <2>3, <1>3, ApplyTypes
  <2>4. CASE PublishBatch(r)
    BY <2>4, <1>3, PublishPlanTypes DEF TypeOK, PublishBatch, EndBatch, InLoop
  <2>5. CASE SkipPublish(r) \/ LogCrash(r)
    BY <2>5, <1>3 DEF TypeOK, SkipPublish, LogCrash, EndBatch, InLoop
  <2>6. QED
    BY <1>3, <2>1, <2>2, <2>3, <2>4, <2>5 DEF Thread
<1>4. CASE UNCHANGED vars
  BY <1>4 DEF TypeOK, vars
<1>5. QED
  BY <1>1, <1>2, <1>3, <1>4 DEF Next

-----------------------------------------------------------------------------
(***************************************************************************)
(* Ownership of the document.                                              *)
(***************************************************************************)

\* A step of a thread that stays in its loop leaves the control thread's side alone.
LEMMA ThreadMoves ==
  ASSUME TypeOK, NEW r \in Runners, Thread(r), ~Epilogue(r)
  PROVE  /\ UNCHANGED <<runnerState, freed, handle, observer, cpc, joining>>
         /\ tpc[r] \in InLoop /\ tpc'[r] \in InLoop
         /\ \A s \in Runners : s # r => tpc'[s] = tpc[s]
BY DEF TypeOK, Thread, Top, Fetch, FetchMutation, FetchStop, FetchEvaluate,
   FetchSetOutput,
   FetchCrash, FetchEnd, Fetching, Apply, ApplyOne, ApplyReject, ApplyThrow, Applying,
   PublishBatch, SkipPublish, LogCrash, BatchApplied, EndBatch, Goto, InLoop, threadFrame,
   control

LEMMA OwnershipInd ==
  ASSUME TypeOK, Ownership, [Next]_vars PROVE Ownership'
<1> USE DEF Ownership, Alive, control
<1>1. ASSUME NEW r \in Runners, Create(r) \/ Stop(r) \/ JoinBegin(r)
      PROVE  Ownership'
  BY <1>1 DEF Create, Stop, JoinBegin, Ready, TypeOK
<1>2. ASSUME NEW r \in Runners, NEW obs \in BOOLEAN, Start(r, obs) PROVE Ownership'
  BY <1>2 DEF Start, Ready, InLoop, TypeOK
<1>3. ASSUME NEW r \in Runners, Destroy(r) PROVE Ownership'
  BY <1>3 DEF Destroy, Ready, InLoop, TypeOK
<1>4. CASE JoinReturn
  BY <1>4 DEF JoinReturn, InLoop, TypeOK
<1>5. CASE DestroyProject \/ DirectBegin \/ DirectMutate
  BY <1>5 DEF DestroyProject, DirectBegin, DirectMutate
<1>6. ASSUME NEW r \in Runners, Thread(r), ~Epilogue(r) PROVE Ownership'
  BY <1>6, ThreadMoves DEF InLoop
<1>7. ASSUME NEW r \in Runners, Epilogue(r) PROVE Ownership'
  BY <1>7 DEF Epilogue, Goto, InLoop, TypeOK
<1>8. CASE UNCHANGED vars \/ \E kind \in Kinds : Enqueue(kind)
  BY <1>8 DEF vars, Enqueue
<1>9. QED
  BY <1>1, <1>2, <1>3, <1>4, <1>5, <1>6, <1>7, <1>8 DEF Next, Control

-----------------------------------------------------------------------------
(***************************************************************************)
(* The queue.                                                              *)
(***************************************************************************)

\* Every step takes from the queue, accepts into it or leaves it alone, and it takes
\* only for a thread that fills a batch.
LEMMA QueueSteps ==
  ASSUME [Next]_vars
  PROVE  \/ UNCHANGED <<queued, accepted, taken>>
         \/ \E kind \in Kinds : Enqueue(kind)
         \/ Queue!Take /\ \E r \in Runners : Fetch(r) /\ tpc[r] = "fetch"
<1>1. ASSUME Control PROVE UNCHANGED queue
  BY <1>1 DEF Control, Create, Stop, JoinBegin, JoinReturn, Destroy, Start,
     DestroyProject,
     DirectBegin, DirectMutate
<1>2. ASSUME NEW r \in Runners, Thread(r), ~Fetch(r) PROVE UNCHANGED queue
  BY <1>2 DEF Thread, Top, Apply, ApplyOne, ApplyReject, ApplyThrow, PublishBatch,
     SkipPublish,
     LogCrash, Epilogue
<1>3. ASSUME NEW r \in Runners, Fetch(r)
      PROVE  UNCHANGED queue \/ (Queue!Take /\ tpc[r] = "fetch")
  BY <1>3 DEF Fetch, FetchMutation, FetchStop, FetchEvaluate, FetchSetOutput, FetchCrash,
     FetchEnd, Fetching
<1>4. QED
  BY <1>1, <1>2, <1>3 DEF Next, vars, queue

LEMMA NumberedInd ==
  ASSUME TypeOK, Numbered, [Next]_vars PROVE Numbered'
<1>1. Len(queued) \in Nat /\ Len(taken) \in Nat
  BY LenProperties DEF TypeOK
<1>2. ASSUME NEW kind \in Kinds, Enqueue(kind) PROVE Numbered'
  <2> USE <1>2 DEF Enqueue
  <2>1. /\ Len(queued') = Len(queued) + 1 /\ accepted' = accepted + 1 /\ taken' = taken
        /\ \A i \in 1 .. Len(queued) : queued'[i] = queued[i]
        /\ queued'[Len(queued) + 1].seq = accepted + 1
    BY AcceptFacts
  <2>2. accepted' = Len(taken') + Len(queued')
    BY <1>1, <2>1 DEF Numbered
  <2>3. ASSUME NEW i \in 1 .. Len(queued') PROVE queued'[i].seq = Len(taken') + i
    <3>1. i \in 1 .. Len(queued) \/ i = Len(queued) + 1
      BY <1>1, <2>1
    <3>2. QED
      BY <1>1, <2>1, <3>1 DEF Numbered
  <2>4. QED
    BY <2>1, <2>2, <2>3 DEF Numbered
<1>3. ASSUME Queue!Take PROVE Numbered'
  <2>1. /\ Len(queued) \in Nat \ {0} /\ Len(queued') = Len(queued) - 1
        /\ \A i \in 1 .. Len(queued) - 1 : queued'[i] = queued[i + 1]
        /\ Len(taken') = Len(taken) + 1 /\ accepted' = accepted
        /\ \A i \in 1 .. Len(taken) : taken'[i] = taken[i]
        /\ taken'[Len(taken) + 1] = queued[1]
    BY <1>3, TakeFacts
  <2>2. accepted' = Len(taken') + Len(queued')
    BY <1>1, <2>1 DEF Numbered
  <2>3. ASSUME NEW i \in 1 .. Len(taken') PROVE taken'[i].seq = i
    <3>1. i \in 1 .. Len(taken) \/ i = Len(taken) + 1
      BY <1>1, <2>1
    <3>2. 1 \in 1 .. Len(queued)
      BY <2>1
    <3>3. QED
      BY <1>1, <2>1, <3>1, <3>2 DEF Numbered
  <2>4. ASSUME NEW i \in 1 .. Len(queued') PROVE queued'[i].seq = Len(taken') + i
    <3>1. i + 1 \in 1 .. Len(queued) /\ queued'[i] = queued[i + 1]
      BY <2>1
    <3>2. queued[i + 1].seq = Len(taken) + (i + 1)
      BY <3>1 DEF Numbered
    <3>3. QED
      BY <1>1, <2>1, <3>1, <3>2
  <2>5. QED
    BY <2>2, <2>3, <2>4 DEF Numbered
<1>4. ASSUME UNCHANGED <<queued, accepted, taken>> PROVE Numbered'
  BY <1>4 DEF Numbered
<1>5. QED
  BY <1>2, <1>3, <1>4, QueueSteps

\* A thread that takes a command was filling its batch.
LEMMA TakingIsFetching ==
  ASSUME TypeOK, NEW r \in Runners, Fetch(r)
  PROVE  tpc[r] = "fetch"
BY DEF Fetch, FetchMutation, FetchStop, FetchEvaluate, FetchSetOutput, FetchCrash,
   FetchEnd,
   Fetching

\* A step that applies its batch moves the head of it to the document or drops all of it.
LEMMA ApplyFrame ==
  ASSUME TypeOK, NEW r \in Runners, Apply(r)
  PROVE  /\ tpc' = tpc /\ tpc[r] = "apply" /\ taken' = taken
         /\ local[r].batch \in Seq(Nat) /\ local[r].batch # <<>>
         /\ local'[r].stop = local[r].stop
         /\ doc' = doc \/ doc' = Append(doc, Head(local[r].batch))
         /\ \/ local'[r].batch = <<>> /\ ~clean'
            \/ /\ local'[r].batch = Tail(local[r].batch)
               /\ doc' = Append(doc, Head(local[r].batch))
         /\ \A s \in Runners : s # r => local'[s] = local[s]
<1>1. local \in [Runners -> Locals]
  BY DEF TypeOK, Locals
<1>2. CASE ApplyOne(r)
  BY <1>1, <1>2 DEF ApplyOne, Applying, Locals, queue
<1>3. CASE ApplyReject(r)
  BY <1>1, <1>3 DEF ApplyReject, Applying, Locals, queue
<1>4. CASE ApplyThrow(r)
  BY <1>1, <1>4 DEF ApplyThrow, Applying, Locals, queue
<1>5. QED
  BY <1>2, <1>3, <1>4 DEF Apply

LEMMA BarrierInd ==
  ASSUME TypeOK, Ownership, Barrier, [Next]_vars PROVE Barrier'
<1>1. Len(taken) \in Nat
  BY LenProperties DEF TypeOK
<1>2. ASSUME NEW r \in Runners, Fetch(r), Queue!Take PROVE Barrier'
  <2>1. tpc[r] = "fetch"
    BY <1>2, TakingIsFetching
  <2>2. \A i \in 1 .. Len(taken) : taken[i].cmd # "stop"
    BY <2>1 DEF InLoop, Barrier
  <2>3. ASSUME NEW i \in 1 .. Len(taken'), taken'[i].cmd = "stop"
        PROVE  i = Len(taken') /\ Head(queued).cmd = "stop"
    <3>1. /\ Len(taken') = Len(taken) + 1 /\ taken'[Len(taken) + 1] = Head(queued)
          /\ \A k \in 1 .. Len(taken) : taken'[k] = taken[k]
      BY <1>2, TakeFacts
    <3>2. i \in 1 .. Len(taken) \/ i = Len(taken) + 1
      BY <1>1, <3>1
    <3>3. QED
      BY <2>2, <2>3, <3>1, <3>2
  <2>4. ASSUME Head(queued).cmd = "stop"
        PROVE  tpc'[r] = "apply" /\ local'[r].stop /\ runnerState' # "IDLE"
    <3>1. FetchStop(r)
      BY <1>2, <2>4 DEF Fetch, FetchMutation, FetchStop, FetchEvaluate, FetchSetOutput,
         FetchCrash, FetchEnd, Queue!Take, queue
    <3>2. QED
      BY <2>1, <3>1 DEF FetchStop, Goto, Fetched, Ownership, Alive, InLoop, TypeOK,
         threadFrame
  <2>5. \A s \in Runners : tpc'[s] \in InLoop => s = r
    BY <1>2, <2>1, ThreadMoves DEF Ownership, InLoop, Thread, Epilogue
  <2>6. QED
    BY <2>3, <2>4, <2>5 DEF Barrier
<1>3. ASSUME UNCHANGED taken PROVE Barrier'
  <2> SUFFICES ASSUME NEW i \in 1 .. Len(taken), taken[i].cmd = "stop"
               PROVE  /\ i = Len(taken) /\ runnerState' # "IDLE"
                      /\ \A r \in Runners : tpc'[r] \in InLoop =>
                           tpc'[r] = "epilogue" \/ (tpc'[r] = "apply" /\ local'[r].stop)
    BY <1>3 DEF Barrier
  <2>1. /\ i = Len(taken) /\ runnerState # "IDLE"
        /\ \A r \in Runners : tpc[r] \in InLoop =>
             tpc[r] = "epilogue" \/ (tpc[r] = "apply" /\ local[r].stop)
    BY DEF Barrier
  <2>2. ASSUME NEW r \in Runners, Thread(r), NEW s \in Runners, tpc'[s] \in InLoop
        PROVE  tpc'[s] = "epilogue" \/ (tpc'[s] = "apply" /\ local'[s].stop)
    <3>1. tpc[r] \notin {"top", "fetch"}
      BY <2>1 DEF InLoop
    <3>2. CASE Epilogue(r)
      BY <2>1, <2>2, <3>2 DEF Epilogue, Goto, InLoop, TypeOK
    <3>3. CASE Apply(r)
      BY <2>1, <2>2, <3>3, ApplyFrame DEF Apply
    <3>4. CASE PublishBatch(r) \/ SkipPublish(r) \/ LogCrash(r)
      BY <2>1, <2>2, <3>4 DEF PublishBatch, SkipPublish, LogCrash, BatchApplied,
         EndBatch, Goto,
         InLoop, TypeOK
    <3>5. QED
      BY <2>2, <3>1, <3>2, <3>3, <3>4, TakingIsFetching DEF Thread, Top
  <2>3. ASSUME NEW r \in Runners, Thread(r) PROVE runnerState' # "IDLE"
    BY <2>1, <2>3, ThreadMoves DEF Epilogue
  <2>4. ASSUME Control \/ \E kind \in Kinds : Enqueue(kind)
        PROVE  /\ runnerState' # "IDLE" /\ local' = local
               /\ \A s \in Runners : tpc'[s] \in InLoop => tpc'[s] = tpc[s]
    BY <2>1, <2>4 DEF Control, Create, Stop, JoinBegin, JoinReturn, Destroy, Start,
       DestroyProject,
       DirectBegin, DirectMutate, Enqueue, control, InLoop, TypeOK
  <2>5. QED
    BY <2>1, <2>2, <2>3, <2>4 DEF Next, vars
<1>4. QED
  BY <1>2, <1>3, QueueSteps DEF Enqueue, Queue!Accept

-----------------------------------------------------------------------------
(***************************************************************************)
(* The order of the document.                                              *)
(***************************************************************************)

LEMMA OneThread ==
  ASSUME TypeOK, Ownership, NEW r \in Runners, Thread(r)
  PROVE  \A s \in Runners : tpc'[s] \in InLoop => s = r /\ tpc[r] \in InLoop
<1>1. CASE Epilogue(r)
  BY <1>1 DEF Epilogue, Goto, Ownership, InLoop, TypeOK
<1>2. CASE ~Epilogue(r)
  BY <1>2, ThreadMoves DEF Ownership
<1>3. QED
  BY <1>1, <1>2

\* The batch of a thread in its loop, before and after a step that takes a command.
LEMMA FetchedBatch ==
  ASSUME TypeOK, Numbered, NEW r \in Runners, Fetch(r), Queue!Take
  PROVE  /\ doc' = doc /\ tpc[r] = "fetch" /\ local[r].batch \in Seq(Nat)
         /\ Head(queued).seq = Len(taken) + 1
         /\ \/ /\ local'[r].batch = Append(local[r].batch, Len(taken) + 1)
               /\ Head(queued).cmd = "mutation" /\ tpc' = tpc
            \/ /\ local'[r].batch = local[r].batch
               /\ Head(queued).cmd # "mutation"
<1>1. Head(queued).seq = Len(taken) + 1
  BY TakeFacts DEF Numbered
<1>2. local \in [Runners -> Locals]
  BY DEF TypeOK, Locals
<1>3. CASE FetchMutation(r)
  BY <1>1, <1>2, <1>3 DEF FetchMutation, Fetching, Fetched, Locals
<1>4. CASE FetchStop(r) \/ FetchEvaluate(r) \/ FetchSetOutput(r) \/ FetchCrash(r)
  BY <1>1, <1>2, <1>4 DEF FetchStop, FetchEvaluate, FetchSetOutput, FetchCrash, Fetching,
     Fetched, Locals
<1>5. ~FetchEnd(r)
  <2>1. Len(taken') = Len(taken) + 1 /\ Len(taken) \in Nat
    BY TakeFacts
  <2>2. QED
    BY <2>1 DEF FetchEnd, queue
<1>6. QED
  BY <1>3, <1>4, <1>5 DEF Fetch

\* Every step keeps the document and the batches, takes a command, starts a batch, or
\* is one of those that change the document or drop a batch.
LEMMA DocumentSteps ==
  ASSUME TypeOK, Ownership, [Next]_vars
  PROVE  \/ DirectMutate
         \/ \E r \in Runners : Fetch(r) /\ Queue!Take
         \/ \E r \in Runners : Apply(r)
         \/ \E r \in Runners : Top(r) /\ tpc'[r] = "fetch"
         \/ /\ doc' = doc /\ taken' = taken /\ clean' = clean
            /\ \A r \in Runners : tpc'[r] \in Busy =>
                 tpc[r] \in Busy /\ local'[r].batch = local[r].batch
            /\ \A r \in Runners : tpc[r] \in Busy =>
                 tpc'[r] \in Busy \/ local[r].batch = <<>>
<1>1. ASSUME NEW kind \in Kinds, Enqueue(kind)
      PROVE  UNCHANGED <<doc, taken, clean, tpc, local>>
  BY <1>1 DEF Enqueue, Queue!Accept
<1>2. ASSUME Control, ~DirectMutate
      PROVE  /\ UNCHANGED <<doc, taken, clean, local>>
             /\ \A r \in Runners : tpc'[r] # tpc[r] =>
                  tpc[r] \notin Busy /\ tpc'[r] \notin Busy
  BY <1>2 DEF Control, Create, Stop, JoinBegin, JoinReturn, Destroy, Start,
     DestroyProject,
     DirectBegin, TypeOK, Ownership, Busy, InLoop, queue
<1>3. ASSUME NEW r \in Runners, Thread(r), ~Fetch(r), ~Apply(r),
             ~(Top(r) /\ tpc'[r] = "fetch")
      PROVE  /\ doc' = doc /\ taken' = taken /\ clean' = clean
             /\ tpc'[r] \notin Busy
             /\ tpc[r] \in Busy => local[r].batch = <<>>
             /\ \A s \in Runners : s # r => tpc'[s] = tpc[s] /\ local'[s] = local[s]
  BY <1>3 DEF Thread, Top, PublishBatch, SkipPublish, LogCrash, BatchApplied, EndBatch,
     Epilogue,
     Goto, TypeOK, Busy, InLoop, queue
<1>4. ASSUME NEW r \in Runners, FetchEnd(r)
      PROVE  /\ doc' = doc /\ taken' = taken /\ clean' = clean /\ local' = local
             /\ tpc[r] \in Busy /\ tpc'[r] \in Busy
             /\ \A s \in Runners : s # r => tpc'[s] = tpc[s]
  BY <1>4 DEF FetchEnd, Goto, TypeOK, Busy, queue
<1>5. ASSUME NEW r \in Runners, Fetch(r), ~FetchEnd(r) PROVE Queue!Take
  BY <1>5 DEF Fetch, FetchMutation, FetchStop, FetchEvaluate, FetchSetOutput, FetchCrash
<1>6. QED
  BY <1>1, <1>2, <1>3, <1>4, <1>5 DEF Next, vars, queue

LEMMA OrderedInd ==
  ASSUME TypeOK, Ownership, Numbered, Ordered, [Next]_vars PROVE Ordered'
<1>1. Len(taken) \in Nat /\ Len(doc) \in Nat /\ doc \in Seq(Nat)
  BY LenProperties DEF TypeOK
<1>2. CASE DirectMutate
  <2>1. /\ taken' = taken /\ Len(doc') = Len(doc) + 1 /\ doc'[Len(doc) + 1] = Direct
        /\ \A i \in 1 .. Len(doc) : doc'[i] = doc[i]
    BY <1>1, <1>2, AppendProperties DEF DirectMutate, Direct, queue
  <2>2. \A r \in Runners : tpc'[r] \notin Busy
    BY <1>2 DEF DirectMutate, Ownership, InLoop, Busy
  <2>3. \A i \in 1 .. Len(doc') : i \in 1 .. Len(doc) \/ i = Len(doc) + 1
    BY <1>1, <2>1
  <2>4. QED
    <3>1. \A i \in 1 .. Len(doc') : doc'[i] <= Len(taken')
      BY <1>1, <2>1, <2>3 DEF Ordered, Direct
    <3>2. \A i, j \in 1 .. Len(doc') :
             i < j /\ doc'[i] # Direct /\ doc'[j] # Direct => doc'[i] < doc'[j]
      BY <1>1, <2>1, <2>3 DEF Ordered
    <3>3. QED
      BY <2>2, <3>1, <3>2 DEF Ordered
<1>3. ASSUME NEW r \in Runners, Fetch(r), Queue!Take PROVE Ordered'
  <2> DEFINE b == local[r].batch   c == local'[r].batch   n == Len(taken) + 1
  <2>1. /\ doc' = doc /\ tpc[r] \in Busy /\ b \in Seq(Nat) /\ Len(taken') = n
        /\ c = b \/ c = Append(b, n)
    BY <1>3, FetchedBatch, TakeFacts DEF Busy
  <2>2. /\ Len(b) \in Nat
        /\ \A i \in 1 .. Len(b) : 0 < b[i] /\ b[i] < n /\ b[i] \in Nat
        /\ \A i, j \in 1 .. Len(b) : i < j => b[i] < b[j]
        /\ \A i \in 1 .. Len(doc), j \in 1 .. Len(b) : doc[i] < b[j]
    BY <1>1, <2>1, LenProperties, ElementOfSeq DEF Ordered
  <2>3. \A i \in 1 .. Len(doc) : doc[i] < n /\ doc[i] \in Nat
    BY <1>1, ElementOfSeq DEF Ordered
  <2> HIDE DEF b, c, n
  <2>4. \A i \in 1 .. Len(c) :
          \/ i \in 1 .. Len(b) /\ c[i] = b[i]
          \/ c[i] = n /\ \A k \in 1 .. Len(c) : k <= i
    <3>1. CASE c = b
      BY <3>1, <2>2
    <3>2. CASE c = Append(b, n)
      <4>1. /\ Len(c) = Len(b) + 1 /\ c[Len(b) + 1] = n
            /\ \A i \in 1 .. Len(b) : c[i] = b[i]
        BY <3>2, <1>1, <2>1, AppendProperties DEF n
      <4>2. QED
        BY <4>1, <2>2
    <3>3. QED
      BY <2>1, <3>1, <3>2
  <2>5. n \in Nat /\ n > 0
    BY <1>1 DEF n
  <2>6. /\ \A i \in 1 .. Len(c) : 0 < c[i] /\ c[i] <= n
        /\ \A i, j \in 1 .. Len(c) : i < j => c[i] < c[j]
        /\ \A i \in 1 .. Len(doc), j \in 1 .. Len(c) : doc[i] < c[j]
    <3>1. \A i \in 1 .. Len(c) : 0 < c[i] /\ c[i] <= n
      BY <2>2, <2>4, <2>5
    <3>2. ASSUME NEW i \in 1 .. Len(c), NEW j \in 1 .. Len(c), i < j
          PROVE  c[i] < c[j]
      <4>1. i \in 1 .. Len(b) /\ c[i] = b[i]
        BY <2>4, <3>2
      <4>2. QED
        BY <2>2, <2>4, <3>2, <4>1
    <3>3. \A i \in 1 .. Len(doc), j \in 1 .. Len(c) : doc[i] < c[j]
      BY <2>2, <2>3, <2>4
    <3>4. QED
      BY <3>1, <3>2, <3>3
  <2>7. \A s \in Runners : tpc'[s] \in Busy => s = r
    BY <1>3, OneThread DEF Busy, InLoop, Thread
  <2>8. /\ \A i \in 1 .. Len(doc') : doc'[i] <= Len(taken')
        /\ \A i, j \in 1 .. Len(doc') :
             i < j /\ doc'[i] # Direct /\ doc'[j] # Direct => doc'[i] < doc'[j]
    BY <2>1, <2>3, <2>5 DEF Ordered
  <2>9. QED
    BY <2>1, <2>6, <2>7, <2>8 DEF Ordered, c
<1>4. ASSUME NEW r \in Runners, Apply(r) PROVE Ordered'
  <2> DEFINE b == local[r].batch   c == local'[r].batch
  <2>1. /\ b \in Seq(Nat) /\ b # <<>> /\ tpc' = tpc /\ tpc[r] \in Busy /\ taken' = taken
        /\ doc' = doc \/ doc' = Append(doc, Head(b))
        /\ c = <<>> \/ (c = Tail(b) /\ doc' = Append(doc, Head(b)))
    BY <1>4, ApplyFrame DEF Busy
  <2>2. /\ \A i \in 1 .. Len(b) : 0 < b[i] /\ b[i] <= Len(taken) /\ b[i] \in Nat
        /\ \A i, j \in 1 .. Len(b) : i < j => b[i] < b[j]
        /\ \A i \in 1 .. Len(doc), j \in 1 .. Len(b) : doc[i] < b[j]
    BY <2>1, ElementOfSeq DEF Ordered
  <2>3. /\ Head(b) = b[1] /\ Len(b) \in Nat \ {0} /\ Len(Tail(b)) = Len(b) - 1
        /\ \A i \in 1 .. Len(b) - 1 : Tail(b)[i] = b[i + 1]
    BY <2>1, HeadIsFirst
  <2>4. Len(c) = 0 \/ (c = Tail(b) /\ doc' = Append(doc, Head(b)))
    BY <2>1, EmptySeq
  <2> HIDE DEF b, c
  <2>5. \A i \in 1 .. Len(doc') :
          \/ i \in 1 .. Len(doc) /\ doc'[i] = doc[i]
          \/ doc'[i] = b[1] /\ \A k \in 1 .. Len(doc') : k <= i
    <3>1. CASE doc' = doc
      BY <3>1
    <3>2. CASE doc' = Append(doc, Head(b))
      <4>1. /\ Len(doc') = Len(doc) + 1 /\ doc'[Len(doc) + 1] = b[1]
            /\ \A i \in 1 .. Len(doc) : doc'[i] = doc[i]
        BY <3>2, <1>1, <2>1, <2>2, <2>3, AppendProperties
      <4>2. QED
        BY <1>1, <4>1
    <3>3. QED
      BY <2>1, <3>1, <3>2
  <2>6. 1 \in 1 .. Len(b)
    BY <2>3
  <2>7. /\ \A i \in 1 .. Len(doc') : doc'[i] <= Len(taken')
        /\ \A i, j \in 1 .. Len(doc') :
             i < j /\ doc'[i] # Direct /\ doc'[j] # Direct => doc'[i] < doc'[j]
    <3>1. \A i \in 1 .. Len(doc') : doc'[i] <= Len(taken')
      BY <1>1, <2>1, <2>2, <2>5, <2>6 DEF Ordered
    <3>2. ASSUME NEW i \in 1 .. Len(doc'), NEW j \in 1 .. Len(doc'), i < j,
                 doc'[i] # Direct, doc'[j] # Direct
          PROVE  doc'[i] < doc'[j]
      <4>1. i \in 1 .. Len(doc) /\ doc'[i] = doc[i]
        BY <2>5, <3>2
      <4>2. QED
        BY <1>1, <2>2, <2>5, <2>6, <3>2, <4>1 DEF Ordered
    <3>3. QED
      BY <3>1, <3>2
  <2>8. /\ \A i \in 1 .. Len(c) : 0 < c[i] /\ c[i] <= Len(taken)
        /\ \A i, j \in 1 .. Len(c) : i < j => c[i] < c[j]
        /\ \A i \in 1 .. Len(doc'), j \in 1 .. Len(c) : doc'[i] < c[j]
    <3>1. \A i \in 1 .. Len(c) :
            c[i] = b[i + 1] /\ i + 1 \in 1 .. Len(b) /\ 1 < i + 1
      BY <2>3, <2>4
    <3>2. \A i \in 1 .. Len(c) : 0 < c[i] /\ c[i] <= Len(taken)
      BY <2>2, <3>1
    <3>3. ASSUME NEW i \in 1 .. Len(c), NEW j \in 1 .. Len(c), i < j
          PROVE  c[i] < c[j]
      <4>1. i + 1 < j + 1
        BY <3>3, <3>1
      <4>2. QED
        BY <2>2, <3>1, <4>1
    <3>4. ASSUME NEW i \in 1 .. Len(doc'), NEW j \in 1 .. Len(c) PROVE doc'[i] < c[j]
      BY <2>2, <2>5, <2>6, <3>1
    <3>5. QED
      BY <3>2, <3>3, <3>4
  <2>9. \A s \in Runners : tpc'[s] \in Busy => s = r
    BY <1>4, OneThread DEF Busy, InLoop, Thread
  <2>10. QED
    BY <2>1, <2>7, <2>8, <2>9 DEF Ordered, c
<1>5. ASSUME NEW r \in Runners, Top(r), tpc'[r] = "fetch" PROVE Ordered'
  <2>1. doc' = doc /\ taken' = taken /\ local'[r].batch = <<>>
    BY <1>5 DEF Top, Goto, NoLocals, TypeOK, queue
  <2>2. \A s \in Runners : tpc'[s] \in Busy => s = r
    BY <1>5, OneThread DEF Busy, InLoop, Thread
  <2>3. Len(<<>>) = 0
    OBVIOUS
  <2>4. QED
    BY <2>1, <2>2, <2>3 DEF Ordered
<1>6. ASSUME doc' = doc, taken' = taken,
             \A r \in Runners : tpc'[r] \in Busy =>
               tpc[r] \in Busy /\ local'[r].batch = local[r].batch
      PROVE  Ordered'
  BY <1>6 DEF Ordered
<1>7. QED
  BY <1>2, <1>3, <1>4, <1>5, <1>6, DocumentSteps

-----------------------------------------------------------------------------
(***************************************************************************)
(* Nothing that was taken is lost.                                         *)
(***************************************************************************)

LEMMA ElementsOfAppend ==
  ASSUME NEW S, NEW s \in Seq(S), NEW e \in S
  PROVE  Elements(Append(s, e)) = Elements(s) \cup {e}
<1>1. /\ Len(s) \in Nat /\ Len(Append(s, e)) = Len(s) + 1
      /\ \A i \in 1 .. Len(s) : Append(s, e)[i] = s[i]
      /\ Append(s, e)[Len(s) + 1] = e
  BY AppendProperties, LenProperties
<1>2. 1 .. Len(s) + 1 = (1 .. Len(s)) \cup {Len(s) + 1}
  BY <1>1
<1>3. QED
  BY <1>1, <1>2 DEF Elements

LEMMA ElementsOfTail ==
  ASSUME NEW S, NEW s \in Seq(S), s # <<>>
  PROVE  Elements(s) = {Head(s)} \cup Elements(Tail(s))
<1>1. /\ Head(s) = s[1] /\ Len(s) \in Nat \ {0} /\ Len(Tail(s)) = Len(s) - 1
      /\ \A i \in 1 .. Len(s) - 1 : Tail(s)[i] = s[i + 1]
  BY HeadIsFirst
<1>2. \A i \in 1 .. Len(s) : i = 1 \/ (i - 1 \in 1 .. Len(s) - 1 /\ s[i] = Tail(s)[i - 1])
  BY <1>1
<1>3. Elements(s) \subseteq {Head(s)} \cup Elements(Tail(s))
  BY <1>1, <1>2 DEF Elements
<1>4. \A i \in 1 .. Len(s) - 1 : i + 1 \in 1 .. Len(s)
  BY <1>1
<1>5. {Head(s)} \cup Elements(Tail(s)) \subseteq Elements(s)
  BY <1>1, <1>4 DEF Elements
<1>6. QED
  BY <1>3, <1>5

LEMMA QueuedIsElements ==
  TypeOK => QueuedMutations = Elements(doc) \ {Direct}
BY LenProperties DEF TypeOK, QueuedMutations, Elements

LEMMA QueuedIsElementsNext ==
  TypeOK' => QueuedMutations' = Elements(doc') \ {Direct}
BY LenProperties DEF TypeOK, QueuedMutations, Elements

LEMMA NothingLostInd ==
  ASSUME TypeOK, TypeOK', Ownership, Numbered, Ordered, NothingLost, [Next]_vars
  PROVE  NothingLost'
<1>1. /\ QueuedMutations = Elements(doc) \ {Direct}
      /\ QueuedMutations' = Elements(doc') \ {Direct}
  BY QueuedIsElements, QueuedIsElementsNext
<1>2. doc \in Seq(Nat) /\ Elements(<<>>) = {}
  BY EmptySeq DEF TypeOK, Elements
<1>3. CASE DirectMutate
  <2>1. Elements(doc') = Elements(doc) \cup {Direct}
    BY <1>2, <1>3, ElementsOfAppend DEF DirectMutate, Direct
  <2>2. UNCHANGED <<taken, clean, tpc, local>>
    BY <1>3 DEF DirectMutate, queue
  <2>3. TakenMutations' = TakenMutations /\ BatchMutations' = BatchMutations
    BY <2>2 DEF TakenMutations, BatchMutations, BatchOf
  <2>4. QED
    BY <1>1, <2>1, <2>2, <2>3 DEF NothingLost
<1>4. ASSUME NEW r \in Runners, Fetch(r), Queue!Take, clean' PROVE NothingLost'
  <2> DEFINE n == Len(taken) + 1   m == Head(queued).cmd = "mutation"
  <2>1. /\ doc' = doc /\ tpc[r] = "fetch" /\ local[r].batch \in Seq(Nat) /\ n \in Nat
        /\ taken'[n].seq = n /\ (taken'[n].cmd = "mutation" <=> m) /\ Len(taken') = n
        /\ \A i \in 1 .. Len(taken) : taken'[i] = taken[i]
        /\ DOMAIN taken' = 1 .. n /\ DOMAIN taken = 1 .. Len(taken) /\ Len(taken) \in Nat
    <3>1. /\ doc' = doc /\ tpc[r] = "fetch" /\ local[r].batch \in Seq(Nat)
          /\ Head(queued).seq = n
      BY <1>4, FetchedBatch
    <3>2. /\ Len(taken) \in Nat /\ Len(taken') = n /\ taken' \in Seq(QueuedCommand)
          /\ \A i \in 1 .. Len(taken) : taken'[i] = taken[i]
          /\ taken'[n] = Head(queued)
      BY <1>4, TakeFacts
    <3>3. taken \in Seq(QueuedCommand)
      BY DEF TypeOK, QueuedCommand
    <3>4. DOMAIN taken' = 1 .. n /\ DOMAIN taken = 1 .. Len(taken)
      BY <3>2, <3>3, LenProperties
    <3>5. n \in Nat
      BY <3>2
    <3>6. QED
      BY <3>1, <3>2, <3>4, <3>5
  <2>2. TakenMutations' = IF m THEN TakenMutations \cup {n} ELSE TakenMutations
    <3>1. DOMAIN taken' = DOMAIN taken \cup {n}
      BY <2>1
    <3> HIDE DEF n, m
    <3>2. {k \in DOMAIN taken' : taken'[k].cmd = "mutation"}
            = {k \in DOMAIN taken : taken[k].cmd = "mutation"} \cup (IF m THEN {n} ELSE {})
      BY <2>1, <3>1
    <3>3. QED
      BY <2>1, <3>2 DEF TakenMutations
  <2>3. /\ clean /\ tpc'[r] \in Busy
        /\ \A s \in Runners : tpc'[s] \in InLoop => s = r
        /\ \A s \in Runners : tpc[s] \in InLoop => s = r
    <3>1. clean /\ tpc'[r] \in Busy
      BY <1>4, <2>1 DEF Fetch, FetchMutation, FetchStop, FetchEvaluate, FetchSetOutput,
         FetchCrash, FetchEnd, Goto, TypeOK, Busy
    <3>2. QED
      BY <1>4, <2>1, <3>1, OneThread DEF Thread, Ownership, InLoop
  <2>4. BatchMutations = BatchOf(r) /\ BatchMutations' = BatchOf(r)'
    BY <2>1, <2>3 DEF BatchMutations, Busy, InLoop
  <2>5. BatchOf(r)' = IF m THEN BatchOf(r) \cup {n} ELSE BatchOf(r)
    <3>1. \/ local'[r].batch = Append(local[r].batch, n) /\ m
          \/ local'[r].batch = local[r].batch /\ ~m
      BY <1>4, FetchedBatch
    <3>2. Elements(Append(local[r].batch, n)) = Elements(local[r].batch) \cup {n}
      BY <2>1, ElementsOfAppend
    <3> HIDE DEF n, m
    <3>3. QED
      BY <3>1, <3>2 DEF BatchOf
  <2>6. QueuedMutations' = QueuedMutations
    BY <1>1, <2>1
  <2> HIDE DEF n, m
  <2>7. QED
    BY <2>2, <2>3, <2>4, <2>5, <2>6 DEF NothingLost
<1>5. ASSUME NEW r \in Runners, Apply(r), clean' PROVE NothingLost'
  <2> DEFINE b == local[r].batch
  <2>1. /\ b \in Seq(Nat) /\ b # <<>> /\ local'[r].batch = Tail(b)
        /\ doc' = Append(doc, Head(b)) /\ tpc' = tpc /\ tpc[r] = "apply" /\ taken' = taken
    BY <1>5, ApplyFrame
  <2>2. clean
    BY <1>5 DEF Apply, ApplyOne, ApplyReject, ApplyThrow
  <2>3. \A s \in Runners : tpc[s] \in Busy => s = r
    BY <1>5, <2>1, OneThread DEF Busy, InLoop, Thread
  <2>4. BatchMutations = Elements(b) /\ BatchMutations' = Elements(Tail(b))
    BY <2>1, <2>3 DEF BatchMutations, BatchOf, Busy
  <2>5. Head(b) \in Nat /\ Head(b) # Direct
    <3>1. Head(b) = b[1] /\ 1 \in 1 .. Len(b) /\ Head(b) \in Nat
      BY <2>1, HeadIsFirst
    <3>2. 0 < b[1]
      BY <2>1, <3>1 DEF Ordered, Busy
    <3>3. QED
      BY <3>1, <3>2 DEF Direct
  <2> HIDE DEF b
  <2>6. Elements(b) = {Head(b)} \cup Elements(Tail(b))
    BY <2>1, ElementsOfTail
  <2>7. Elements(doc') = Elements(doc) \cup {Head(b)}
    BY <1>2, <2>1, <2>5, ElementsOfAppend
  <2>8. TakenMutations' = TakenMutations
    BY <2>1 DEF TakenMutations
  <2>9. QED
    BY <1>1, <2>2, <2>4, <2>5, <2>6, <2>7, <2>8 DEF NothingLost
<1>6. ASSUME NEW r \in Runners, Top(r), tpc'[r] = "fetch" PROVE NothingLost'
  <2>1. /\ doc' = doc /\ taken' = taken /\ clean' = clean /\ local'[r].batch = <<>>
        /\ tpc[r] = "top" /\ \A s \in Runners : s # r => tpc'[s] = tpc[s]
    <3>1. local \in [Runners -> Locals]
      BY DEF TypeOK, Locals
    <3>2. /\ doc' = doc /\ taken' = taken /\ clean' = clean
          /\ tpc[r] = "top" /\ \A s \in Runners : s # r => tpc'[s] = tpc[s]
      BY <1>6 DEF Top, Goto, TypeOK, queue
    <3>3. local'[r].batch = <<>>
      BY <1>6, <3>1 DEF Top, Goto, NoLocals, TypeOK
    <3>4. QED
      BY <3>2, <3>3
  <2>2. \A s \in Runners : tpc'[s] \in InLoop => s = r
    BY <1>6, OneThread DEF Thread
  <2>3. \A s \in Runners : tpc[s] \notin Busy
    BY <2>1, <2>2 DEF Busy, InLoop
  <2>4. BatchMutations = {} /\ BatchMutations' = {}
    BY <1>2, <2>1, <2>2, <2>3 DEF BatchMutations, BatchOf, Busy, InLoop
  <2>5. TakenMutations' = TakenMutations
    BY <2>1 DEF TakenMutations
  <2>6. QED
    BY <1>1, <2>1, <2>4, <2>5 DEF NothingLost
<1>7. ASSUME doc' = doc, taken' = taken, clean' = clean,
             \A r \in Runners : tpc'[r] \in Busy =>
               tpc[r] \in Busy /\ local'[r].batch = local[r].batch,
             \A r \in Runners : tpc[r] \in Busy =>
               tpc'[r] \in Busy \/ local[r].batch = <<>>
      PROVE  NothingLost'
  <2>1. BatchMutations' \subseteq BatchMutations
    BY <1>7 DEF BatchMutations, BatchOf
  <2>2. BatchMutations \subseteq BatchMutations'
    BY <1>2, <1>7 DEF BatchMutations, BatchOf
  <2>3. TakenMutations' = TakenMutations
    BY <1>7 DEF TakenMutations
  <2>4. QED
    BY <1>1, <1>7, <2>1, <2>2, <2>3 DEF NothingLost
<1>8. QED
  <2>1. ~clean' => NothingLost'
    BY DEF NothingLost
  <2>2. QED
    BY <2>1, <1>3, <1>4, <1>5, <1>6, <1>7, DocumentSteps

-----------------------------------------------------------------------------
(***************************************************************************)
(* The plan.                                                               *)
(***************************************************************************)

LEMMA PlanFollowsInd ==
  ASSUME TypeOK, Ownership, PlanFollows, [Next]_vars PROVE PlanFollows'
<1>1. ASSUME NEW kind \in Kinds, Enqueue(kind) PROVE PlanFollows'
  BY <1>1 DEF Enqueue, PlanFollows, Current, engine
<1>2. ASSUME NEW r \in Runners, Create(r) \/ Stop(r) \/ JoinBegin(r) \/ Destroy(r)
      PROVE  PlanFollows'
  BY <1>2 DEF Create, Stop, JoinBegin, Destroy, PlanFollows, Current, engine, InLoop,
     TypeOK
<1>3. ASSUME NEW r \in Runners, NEW obs \in BOOLEAN, Start(r, obs) PROVE PlanFollows'
  <2>1. \A s \in Runners : tpc'[s] \in InLoop => s = r
    BY <1>3 DEF Start, Ownership, InLoop, TypeOK
  <2>2. observer'[r] = obs /\ tpc'[r] = "top" /\ doc' = doc
    BY <1>3 DEF Start, TypeOK
  <2>3. obs => ~planValid' \/ Current'
    BY <1>3 DEF Start, PublishPlan, Current
  <2>4. QED
    BY <2>1, <2>2, <2>3 DEF PlanFollows, InLoop
<1>4. CASE JoinReturn \/ DestroyProject \/ DirectBegin
  BY <1>4 DEF JoinReturn, DestroyProject, DirectBegin, PlanFollows, Current, engine,
     InLoop,
     Ownership, TypeOK
<1>5. CASE DirectMutate
  BY <1>5 DEF DirectMutate, Ownership, PlanFollows, InLoop
<1>6. ASSUME NEW r \in Runners, Thread(r) PROVE PlanFollows'
  <2>1. \A s \in Runners : tpc'[s] \in InLoop => s = r
    BY <1>6, OneThread
  <2>2. CASE Top(r)
    BY <2>1, <2>2 DEF Top, Goto, NoLocals, PlanFollows, Current, engine, threadFrame,
       InLoop, TypeOK
  <2>3. CASE FetchSetOutput(r)
    <3>1. local \in [Runners -> Locals]
      BY DEF TypeOK, Locals
    <3>2. local'[r].applied = 0 /\ tpc'[r] = "fetch" /\ tpc[r] = "fetch"
      BY <2>3, <3>1 DEF FetchSetOutput, Fetching, Fetched, PlanFollows, Locals
    <3>3. (UNCHANGED engine /\ doc' = doc /\ observer' = observer) \/ ~planValid' \/ Current'
      BY <2>3 DEF FetchSetOutput, PublishPlan, Current, threadFrame
    <3>4. QED
      BY <2>1, <3>2, <3>3 DEF PlanFollows, Current, engine, InLoop
  <2>4. CASE Fetch(r) /\ ~FetchSetOutput(r)
    <3>1. local \in [Runners -> Locals]
      BY DEF TypeOK, Locals
    <3>2. CASE FetchCrash(r)
      <4>1. tpc'[r] = "epilogue" /\ tpc[r] = "fetch"
        BY <3>2 DEF FetchCrash, Fetching, Goto, TypeOK
      <4>2. (UNCHANGED engine /\ doc' = doc /\ observer' = observer) \/ ~planValid' \/ Current'
        BY <3>2 DEF FetchCrash, PublishPlan, Current, threadFrame
      <4>3. QED
        BY <2>1, <4>1, <4>2 DEF PlanFollows, Current, engine, InLoop
    <3>3. CASE ~FetchCrash(r)
      <4>1. tpc[r] = "fetch" /\ UNCHANGED <<engine, doc, observer>>
        BY <2>4, <3>3 DEF Fetch, FetchMutation, FetchStop, FetchEvaluate, FetchEnd,
           Fetching, threadFrame
      <4>2. local'[r].applied = 0
        BY <2>4, <3>1, <3>3, <4>1 DEF Fetch, FetchMutation, FetchStop, FetchEvaluate,
           FetchEnd, Fetched, PlanFollows, Locals
      <4>3. QED
        BY <2>1, <4>1, <4>2 DEF PlanFollows, Current, engine, InLoop
    <3>4. QED
      BY <3>2, <3>3
  <2>5. CASE Apply(r)
    <3>1. tpc' = tpc /\ tpc[r] = "apply" /\ UNCHANGED <<observer, output, plan, planValid>>
      BY <2>5, ApplyFrame DEF Apply, ApplyOne, ApplyReject, ApplyThrow, threadFrame,
         engine
    <3>2. local \in [Runners -> Locals] /\ local[r].applied \in Nat
      BY DEF TypeOK, Locals
    <3>3. \/ local'[r].applied # 0
          \/ doc' = doc /\ missed' = missed /\ local'[r].applied = local[r].applied
          \/ missed'
          \/ doc' = doc /\ missed' = missed /\ ~(local[r].applied > 0)
      <4>1. CASE ApplyOne(r)
        BY <3>2, <4>1 DEF ApplyOne, Locals
      <4>2. CASE ApplyReject(r)
        BY <3>2, <4>2 DEF ApplyReject, Locals, engine
      <4>3. CASE ApplyThrow(r)
        <5>1. CASE missed \/ local[r].applied > 0 \/ doc' # doc
          <6>1. missed' = TRUE
            BY <4>3, <5>1, Zenon DEF ApplyThrow
          <6>2. QED
            BY <6>1
        <5>2. CASE ~(missed \/ local[r].applied > 0 \/ doc' # doc)
          <6>1. missed' = FALSE /\ missed = FALSE
            BY <4>3, <5>2, Zenon DEF ApplyThrow, TypeOK
          <6>2. QED
            BY <5>2, <6>1
        <5>3. QED
          BY <5>1, <5>2
      <4>4. QED
        BY <2>5, <4>1, <4>2, <4>3 DEF Apply
    <3>4. QED
      BY <2>1, <3>1, <3>2, <3>3 DEF PlanFollows, Current, InLoop
  <2>6. CASE PublishBatch(r)
    <3>1. ~planValid' \/ Current'
      BY <2>6 DEF PublishBatch, PublishPlan, Current
    <3>2. tpc'[r] \in {"top", "epilogue"}
      BY <2>6 DEF PublishBatch, EndBatch, Goto, TypeOK
    <3>3. QED
      BY <2>1, <3>1, <3>2 DEF PlanFollows, InLoop
  <2>7. CASE SkipPublish(r)
    BY <2>1, <2>7 DEF SkipPublish, BatchApplied, EndBatch, Goto, PlanFollows, Current,
       engine,
       threadFrame, InLoop, TypeOK
  <2>8. CASE LogCrash(r)
    <3>1. local[r].applied \in Nat /\ tpc[r] = "apply" /\ tpc'[r] = "epilogue"
      BY <2>8 DEF LogCrash, BatchApplied, Goto, TypeOK
    <3>2. /\ UNCHANGED <<doc, observer, output, plan, planValid>>
          /\ missed' = (missed \/ local[r].applied > 0)
      BY <2>8 DEF LogCrash, threadFrame
    <3>4. missed' \/ (missed' = missed /\ ~(local[r].applied > 0))
      BY <3>2, Zenon DEF TypeOK
    <3>3. QED
      BY <2>1, <3>1, <3>2, <3>4 DEF PlanFollows, Current, InLoop
  <2>9. CASE Epilogue(r)
    BY <2>1, <2>9 DEF Epilogue, Goto, PlanFollows, InLoop, TypeOK
  <2>10. QED
    BY <1>6, <2>2, <2>3, <2>4, <2>5, <2>6, <2>7, <2>8, <2>9 DEF Thread
<1>7. CASE UNCHANGED vars
  BY <1>7 DEF vars, PlanFollows, Current, engine
<1>8. QED
  BY <1>1, <1>2, <1>3, <1>4, <1>5, <1>6, <1>7 DEF Next, Control

-----------------------------------------------------------------------------
(***************************************************************************)
(* The invariant and what it implies.                                      *)
(***************************************************************************)

LEMMA InitInd == Init => IInv
<1> SUFFICES ASSUME Init PROVE IInv
  OBVIOUS
<1>1. queued = <<>> /\ accepted = 0 /\ taken = <<>> /\ doc = <<>>
  BY DEF Init, Queue!Init
<1>2. Len(<<>>) = 0 /\ <<>> \in Seq(Nat) /\ <<>> \in Seq(QueuedCommand)
  OBVIOUS
<1>3. 0 \in 0 .. Batch
  BY RunnerAssumption
<1>4. TypeOK
  <2>1. NoLocals \in Locals
    BY <1>2, <1>3 DEF NoLocals, Locals
  <2>2. QED
    BY <1>1, <1>2, <2>1 DEF Init, TypeOK, Locals, QueuedCommand, InLoop
<1>5. Ownership
  BY DEF Init, Ownership, InLoop
<1>6. Numbered /\ Barrier /\ Ordered
  <2>1. \A r \in Runners : tpc[r] = "none"
    BY DEF Init
  <2>2. QED
    BY <1>1, <1>2, <2>1 DEF Numbered, Barrier, Ordered, Busy, InLoop
<1>7. NothingLost
  <2>1. \A r \in Runners : tpc[r] = "none"
    BY DEF Init
  <2>2. BatchMutations = {}
    BY <2>1 DEF BatchMutations, Busy
  <2>3. DOMAIN <<>> = {}
    BY <1>2, LenProperties
  <2>4. QED
    BY <1>1, <2>2, <2>3 DEF NothingLost, TakenMutations, QueuedMutations
<1>8. PlanFollows
  BY DEF Init, PlanFollows, InLoop
<1>9. QED
  BY <1>4, <1>5, <1>6, <1>7, <1>8 DEF IInv

LEMMA NextInd == IInv /\ [Next]_vars => IInv'
<1> SUFFICES ASSUME IInv, [Next]_vars PROVE IInv'
  OBVIOUS
<1>1. TypeOK /\ Ownership /\ Numbered /\ Barrier /\ Ordered /\ NothingLost /\ PlanFollows
  BY DEF IInv
<1>2. TypeOK' /\ Ownership' /\ Numbered' /\ Barrier' /\ Ordered' /\ PlanFollows'
  BY <1>1, TypesInd, OwnershipInd, NumberedInd, BarrierInd, OrderedInd, PlanFollowsInd
<1>3. NothingLost'
  BY <1>1, <1>2, NothingLostInd
<1>4. QED
  BY <1>2, <1>3 DEF IInv

\* The invariant of the runner, its handles and the queue between the host and its thread.
THEOREM RunnerInvariant == Spec => []IInv
BY InitInd, NextInd, PTL DEF Spec

\* Every variable of run_loop, the handles and the engine's record of the plan keeps its
\* type: the batch never overflows its buffer of kRunnerBatch commands.
THEOREM RunnerTypeOK == Spec => []TypeOK
<1>1. IInv => TypeOK
  BY DEF IInv
<1>2. QED
  BY <1>1, RunnerInvariant, PTL

\* The document has one mutating thread: synchronous calls and runners of one project
\* exclude each other, though sf_queue_runner_create reserves nothing.
THEOREM RunnerSoleOwner == Spec => []SoleOwner
<1>1. IInv => SoleOwner
  BY DEF IInv, Ownership, SoleOwner
<1>2. QED
  BY <1>1, RunnerInvariant, PTL

\* No destroy frees the project or the handle under a thread that is in its loop.
THEOREM RunnerNoUseAfterFree == Spec => []NoUseAfterFree
<1>1. IInv => NoUseAfterFree
  BY DEF IInv, Ownership, NoUseAfterFree
<1>2. QED
  BY <1>1, RunnerInvariant, PTL

\* Nothing behind a STOP command is ever taken from the queue, by this runner or a later
\* one of the project.
THEOREM RunnerStopBarrier == Spec => []StopBarrier
<1>1. IInv => StopBarrier
  BY DEF IInv, Barrier, StopBarrier
<1>2. QED
  BY <1>1, RunnerInvariant, PTL

\* Queued mutations reach the document in the order they were queued, none twice, and
\* without a rejection or an exception none that was taken is lost.
THEOREM RunnerAppliedInOrder == Spec => []AppliedInOrder
<1>1. IInv => AppliedInOrder
  <2> SUFFICES ASSUME IInv PROVE AppliedInOrder
    OBVIOUS
  <2>1. \A i, j \in 1 .. Len(doc) :
           i < j /\ doc[i] # Direct /\ doc[j] # Direct => doc[i] < doc[j]
    BY DEF IInv, Ordered
  <2>2. ASSUME clean, \A r \in Runners : tpc[r] \notin {"fetch", "apply"}
        PROVE  QueuedMutations = TakenMutations
    <3>1. BatchMutations = {}
      BY <2>2 DEF BatchMutations, Busy
    <3>2. QED
      BY <2>2, <3>1 DEF IInv, NothingLost
  <2>3. QED
    BY <2>1, <2>2 DEF AppliedInOrder
<1>2. QED
  BY <1>1, RunnerInvariant, PTL

\* Between two batches the engine's plan is of the document and the output as they are,
\* unless the compile failed or an exception skipped the publication.
THEOREM RunnerPlanCurrent == Spec => []PlanCurrent
<1>1. IInv => PlanCurrent
  BY DEF IInv, PlanFollows, PlanCurrent, BetweenBatches, InLoop
<1>2. QED
  BY <1>1, RunnerInvariant, PTL
=============================================================================
