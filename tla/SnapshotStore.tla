--------------------------- MODULE SnapshotStore ---------------------------
(***************************************************************************)
(* The lock-free hand-off of render plans from the queue-runner thread     *)
(* (the only writer) to the engine's tick thread (the only reader):        *)
(* PlanSnapshotStore of native/src/core/snapshot.{hpp,cpp}.                *)
(*                                                                         *)
(* Every atomic load, store and compare-exchange on memory the other       *)
(* thread writes is a step of its own, so neither the writer's two scans   *)
(* nor the reader's scan sees a snapshot of the slots.  A step that only   *)
(* touches what its own thread writes is merged with its neighbour.        *)
(* Interleaving is sequentially consistent.                                *)
(*                                                                         *)
(* A plan is identified by the publication it was compiled for; NoPlan is  *)
(* the empty RenderPlan{}.  MaxPublish bounds the successful publications  *)
(* of a behaviour, nothing else is bounded.                                *)
(***************************************************************************)
EXTENDS Integers

CONSTANTS
  NSlots,      \* kSlotCount: 4 in the code
  MaxPasses,   \* passes of claim_slot before it gives up: 1024 in the code
  MaxPublish   \* bound of the model: publications per behaviour

ASSUME StoreAssumption ==
  /\ NSlots \in Nat \ {0}
  /\ MaxPasses \in Nat \ {0}
  /\ MaxPublish \in Nat

ThreeSlots == 0 .. NSlots - 2       \* mutant: one slot fewer
Slots == 0 .. NSlots - 1
None == -1                    \* held_, best, oldest: "no slot"
NoPlan == 0

SlotState == {"EMPTY", "WRITING", "READY", "READING"}

VARIABLES
  state,         \* Slot::state, atomic, one per slot
  seq,           \* Slot::seq, atomic, one per slot
  plan,          \* Slot::plan, owned by whoever holds the slot
  nextSeq,       \* next_seq_, writer only
  publishedSeq,  \* published_seq_, atomic
  spins,         \* spin_count_: passes that found nothing to claim
  (* claim_slot() and publish(): the writer's place and its locals *)
  wpc, pass, wi, oldest, oldestSeq, mine,
  (* acquire(): the reader's place, its locals, and what it keeps *)
  rpc, ri, best, bestSeq, actualSeq, held, heldSeq,
  (* history of the acquire in progress: the newest plan that was READY   *)
  (* when it began, and whether a publication has stored its seq since    *)
  atStart, seqStored

slotVars   == <<state, seq, plan>>
writerVars == <<nextSeq, publishedSeq, spins, wpc, pass, wi, oldest, oldestSeq, mine>>
readerVars == <<rpc, ri, best, bestSeq, actualSeq, held, heldSeq>>
history    == <<atStart, seqStored>>
vars == <<slotVars, writerVars, readerVars, history>>

Init ==
  /\ state = [i \in Slots |-> "EMPTY"]
  /\ seq   = [i \in Slots |-> 0]
  /\ plan  = [i \in Slots |-> NoPlan]
  /\ nextSeq = 0 /\ publishedSeq = 0 /\ spins = 0
  /\ wpc = "idle" /\ pass = 0 /\ wi = 0
  /\ oldest = None /\ oldestSeq = 0 /\ mine = None
  /\ rpc = "idle" /\ ri = 0 /\ best = None /\ bestSeq = 0 /\ actualSeq = 0
  /\ held = None /\ heldSeq = 0
  /\ atStart = 0 /\ seqStored = FALSE

(***************************************************************************)
(* The writer: publish() and the claim_slot() it starts with.              *)
(***************************************************************************)

\* Start a pass of claim_slot: scan (1), for an EMPTY slot, from slot 0.
BeginPass == /\ wpc' = "scanEmpty"
             /\ wi' = 0
             /\ oldest' = None
             /\ oldestSeq' = 0

PublishBegin ==
  /\ wpc = "idle"
  /\ nextSeq < MaxPublish
  /\ BeginPass
  /\ pass' = 0
  /\ UNCHANGED <<slotVars, nextSeq, publishedSeq, spins, mine, readerVars, history>>

\* Mutant: the loop runs to i <= kSlotCount.
NextOfEmptyScanPastEnd ==
  IF wi < NSlots
  THEN wi' = wi + 1 /\ wpc' = "scanEmpty"
  ELSE wi' = 0 /\ wpc' = "scanReady"

\* Advance scan (1); past the last slot, go on to scan (2).
NextOfEmptyScan ==
  IF wi + 1 \in Slots
  THEN wi' = wi + 1 /\ wpc' = "scanEmpty"
  ELSE wi' = 0 /\ wpc' = "scanReady"

LoadForEmpty ==
  /\ wpc = "scanEmpty"
  /\ \/ state[wi] = "EMPTY" /\ wpc' = "casEmpty" /\ UNCHANGED wi
     \/ state[wi] # "EMPTY" /\ NextOfEmptyScan
  /\ UNCHANGED <<slotVars, nextSeq, publishedSeq, spins, pass, oldest, oldestSeq,
                 mine, readerVars, history>>

\* compare_exchange EMPTY -> WRITING; a loss resumes the scan behind the slot.
CasEmpty ==
  /\ wpc = "casEmpty"
  /\ \/ /\ state[wi] = "EMPTY"
        /\ state' = [state EXCEPT ![wi] = "WRITING"]
        /\ mine' = wi
        /\ wpc' = "compile"
        /\ UNCHANGED wi
     \/ /\ state[wi] # "EMPTY"
        /\ NextOfEmptyScan
        /\ UNCHANGED <<state, mine>>
  /\ UNCHANGED <<seq, plan, nextSeq, publishedSeq, spins, pass, oldest, oldestSeq,
                 readerVars, history>>

\* Mutant: the newest READY slot is reclaimed.
LoadForNewest ==
  /\ wpc = "scanReady"
  /\ IF state[wi] = "READY" /\ (oldest = None \/ seq[wi] > oldestSeq)
     THEN oldest' = wi /\ oldestSeq' = seq[wi]
     ELSE UNCHANGED <<oldest, oldestSeq>>
  /\ IF wi + 1 \in Slots THEN wi' = wi + 1 /\ UNCHANGED wpc
                         ELSE wi' = 0 /\ wpc' = "casReady"
  /\ UNCHANGED <<slotVars, nextSeq, publishedSeq, spins, pass, mine, readerVars, history>>

\* Scan (2) looks at slot wi: the smallest seq seen READY is the candidate.
\* Only the writer stores seq, so its load of state and seq is one step.
LoadForOldest ==
  /\ wpc = "scanReady"
  /\ IF state[wi] = "READY" /\ (oldest = None \/ seq[wi] < oldestSeq)
     THEN oldest' = wi /\ oldestSeq' = seq[wi]
     ELSE UNCHANGED <<oldest, oldestSeq>>
  /\ IF wi + 1 \in Slots THEN wi' = wi + 1 /\ UNCHANGED wpc
                         ELSE wi' = 0 /\ wpc' = "casReady"
  /\ UNCHANGED <<slotVars, nextSeq, publishedSeq, spins, pass, mine, readerVars, history>>

\* One more pass, or give up after MaxPasses: publish() then returns false.
Rescan ==
  IF pass + 1 < MaxPasses
  THEN pass' = pass + 1 /\ BeginPass
  ELSE /\ pass' = 0 /\ wpc' = "idle" /\ wi' = 0
       /\ oldest' = None /\ oldestSeq' = 0

\* compare_exchange READY -> WRITING on the oldest READY slot seen; rescan when
\* it is lost to the reader, or when neither scan found a slot (a spin).
CasOldest ==
  /\ wpc = "casReady"
  /\ \/ /\ oldest # None
        /\ state[oldest] = "READY"
        /\ state' = [state EXCEPT ![oldest] = "WRITING"]
        /\ mine' = oldest
        /\ wpc' = "compile"
        /\ UNCHANGED <<spins, pass, wi, oldest, oldestSeq>>
     \/ /\ oldest # None
        /\ state[oldest] # "READY"
        /\ Rescan
        /\ UNCHANGED <<state, mine, spins>>
     \/ /\ oldest = None
        /\ spins' = spins + 1
        /\ Rescan
        /\ UNCHANGED <<state, mine>>
  /\ UNCHANGED <<seq, plan, nextSeq, publishedSeq, readerVars, history>>

\* compile_render_plan succeeds: the plan in the slot is the next publication's.
CompileOk ==
  /\ wpc = "compile"
  /\ plan' = [plan EXCEPT ![mine] = nextSeq + 1]
  /\ nextSeq' = nextSeq + 1
  /\ wpc' = "storeSeq"
  /\ UNCHANGED <<state, seq, publishedSeq, spins, pass, wi, oldest, oldestSeq, mine,
                 readerVars, history>>

\* Mutant: the result of the compile is not looked at.
CompileFailPublishes ==
  /\ wpc = "compile"
  /\ plan' = [plan EXCEPT ![mine] = NoPlan]
  /\ wpc' = "storeSeq"
  /\ UNCHANGED <<state, seq, nextSeq, publishedSeq, spins, pass, wi, oldest, oldestSeq,
                 mine, readerVars, history>>

\* It returns false or throws: the half-built plan is replaced by RenderPlan{}.
CompileFail ==
  /\ wpc = "compile"
  /\ plan' = [plan EXCEPT ![mine] = NoPlan]
  /\ wpc' = "restore"
  /\ UNCHANGED <<state, seq, nextSeq, publishedSeq, spins, pass, wi, oldest, oldestSeq,
                 mine, readerVars, history>>

StoreSeq ==
  /\ wpc = "storeSeq"
  /\ seq' = [seq EXCEPT ![mine] = nextSeq]
  /\ wpc' = "storePublished"
  /\ seqStored' = (rpc \notin {"idle", "finished"})
  /\ UNCHANGED <<state, plan, nextSeq, publishedSeq, spins, pass, wi, oldest, oldestSeq,
                 mine, readerVars, atStart>>

StorePublished ==
  /\ wpc = "storePublished"
  /\ publishedSeq' = nextSeq
  /\ wpc' = "storeReady"
  /\ UNCHANGED <<slotVars, nextSeq, spins, pass, wi, oldest, oldestSeq, mine,
                 readerVars, history>>

\* publish() returns: the slot is the reader's or free, the locals are gone.
EndPublish(s) ==
  /\ state' = [state EXCEPT ![mine] = s]
  /\ mine' = None
  /\ pass' = 0 /\ wi' = 0 /\ oldest' = None /\ oldestSeq' = 0
  /\ wpc' = "idle"

StoreReady ==
  /\ wpc = "storeReady"
  /\ EndPublish("READY")
  /\ UNCHANGED <<seq, plan, nextSeq, publishedSeq, spins, readerVars, history>>

RestoreEmpty ==
  /\ wpc = "restore"
  /\ EndPublish("EMPTY")
  /\ UNCHANGED <<seq, plan, nextSeq, publishedSeq, spins, readerVars, history>>

Writer ==
  \/ PublishBegin \/ LoadForEmpty \/ CasEmpty \/ LoadForOldest \/ CasOldest
  \/ CompileOk \/ CompileFail \/ StoreSeq \/ StorePublished \/ StoreReady
  \/ RestoreEmpty

(***************************************************************************)
(* The reader: acquire() and release().                                    *)
(***************************************************************************)

\* The newest publication whose slot has been made READY.
NewestReady == IF wpc = "storeReady" THEN publishedSeq - 1 ELSE publishedSeq

AcquireBegin ==
  /\ rpc = "idle"
  /\ rpc' = "loadState"
  /\ ri' = 0
  /\ atStart' = NewestReady
  /\ seqStored' = FALSE
  /\ UNCHANGED <<slotVars, writerVars, best, bestSeq, actualSeq, held, heldSeq>>

\* acquire() returns: the locals and the history of this call are gone.
EndAcquire ==
  /\ rpc' = "idle" /\ ri' = 0 /\ best' = None /\ bestSeq' = 0 /\ actualSeq' = 0
  /\ atStart' = 0 /\ seqStored' = FALSE

\* Mutant: the scan leaves out the last slot.
NextOfScanShort(b, s) ==
  IF ri + 2 \in Slots
  THEN /\ ri' = ri + 1 /\ rpc' = "loadState"
       /\ best' = b /\ bestSeq' = s
       /\ UNCHANGED <<actualSeq, history>>
  ELSE IF b # None /\ (held = None \/ s > heldSeq)
       THEN /\ ri' = 0 /\ rpc' = "cas"
            /\ best' = b /\ bestSeq' = s
            /\ UNCHANGED <<actualSeq, history>>
       ELSE EndAcquire

\* After slot ri: the next slot, or the decision whether the best one (b, with
\* its seq s) is to be claimed, which only a strictly newer plan is.
NextOfScan(b, s) ==
  IF ri + 1 \in Slots
  THEN /\ ri' = ri + 1 /\ rpc' = "loadState"
       /\ best' = b /\ bestSeq' = s
       /\ UNCHANGED <<actualSeq, history>>
  ELSE IF b # None /\ (held = None \/ s > heldSeq)
       THEN /\ ri' = 0 /\ rpc' = "cas"
            /\ best' = b /\ bestSeq' = s
            /\ UNCHANGED <<actualSeq, history>>
       ELSE EndAcquire

LoadState ==
  /\ rpc = "loadState"
  /\ \/ /\ state[ri] = "READY"
        /\ rpc' = "loadSeq"
        /\ UNCHANGED <<ri, best, bestSeq, actualSeq, history>>
     \/ /\ state[ri] # "READY"
        /\ NextOfScan(best, bestSeq)
  /\ UNCHANGED <<slotVars, writerVars, held, heldSeq>>

\* Mutant: the oldest READY slot is chosen.
LoadSeqOldest ==
  /\ rpc = "loadSeq"
  /\ IF best = None \/ seq[ri] < bestSeq THEN NextOfScan(ri, seq[ri])
                                         ELSE NextOfScan(best, bestSeq)
  /\ UNCHANGED <<slotVars, writerVars, held, heldSeq>>

\* The slot seen READY may have been reclaimed or republished by now.
LoadSeq ==
  /\ rpc = "loadSeq"
  /\ IF best = None \/ seq[ri] > bestSeq THEN NextOfScan(ri, seq[ri])
                                         ELSE NextOfScan(best, bestSeq)
  /\ UNCHANGED <<slotVars, writerVars, held, heldSeq>>

\* Mutant: a plain store of READING.
CasBestBlind ==
  /\ rpc = "cas"
  /\ state' = [state EXCEPT ![best] = "READING"]
  /\ rpc' = "reload"
  /\ UNCHANGED <<seq, plan, writerVars, ri, best, bestSeq, actualSeq, held, heldSeq, history>>

\* compare_exchange READY -> READING; a loss keeps the plan already held.
CasBest ==
  /\ rpc = "cas"
  /\ \/ /\ state[best] = "READY"
        /\ state' = [state EXCEPT ![best] = "READING"]
        /\ rpc' = "reload"
        /\ UNCHANGED <<ri, best, bestSeq, actualSeq, history>>
     \/ /\ state[best] # "READY"
        /\ EndAcquire
        /\ UNCHANGED state
  /\ UNCHANGED <<seq, plan, writerVars, held, heldSeq>>

\* Mutant: the seq seen by the scan is trusted.
ReloadScanned ==
  /\ rpc = "reload"
  /\ actualSeq' = bestSeq
  /\ rpc' = "swap"
  /\ UNCHANGED <<slotVars, writerVars, ri, best, bestSeq, held, heldSeq, history>>

\* The seq is read again now that the slot is ours.
ReloadSeq ==
  /\ rpc = "reload"
  /\ actualSeq' = seq[best]
  /\ rpc' = "swap"
  /\ UNCHANGED <<slotVars, writerVars, ri, best, bestSeq, held, heldSeq, history>>

\* Only now the slot held before is given back.
SwapHeld ==
  /\ rpc = "swap"
  /\ state' = IF held # None /\ held # best
              THEN [state EXCEPT ![held] = "EMPTY"]
              ELSE state
  /\ held' = best
  /\ heldSeq' = actualSeq
  /\ EndAcquire
  /\ UNCHANGED <<seq, plan, writerVars>>

\* release(), called once when the reader's thread is finished.
Release ==
  /\ rpc = "idle"
  /\ state' = IF held # None THEN [state EXCEPT ![held] = "EMPTY"] ELSE state
  /\ held' = None
  /\ heldSeq' = 0
  /\ rpc' = "finished"
  /\ UNCHANGED <<seq, plan, writerVars, ri, best, bestSeq, actualSeq, history>>

Acquire == AcquireBegin \/ LoadState \/ LoadSeq \/ CasBest \/ ReloadSeq \/ SwapHeld
Reader == Acquire \/ Release

Next == Writer \/ Reader

Spec == Init /\ [][Next]_vars

\* The engine ticks for as long as it runs, and a publish that has begun is
\* carried through: nothing says that another one ever begins.
Fairness == WF_vars(Acquire) /\ WF_vars(Writer /\ wpc # "idle")
FairSpec == Spec /\ Fairness

-----------------------------------------------------------------------------
(***************************************************************************)
(* Properties.                                                             *)
(***************************************************************************)

WriterOwns == {"compile", "storeSeq", "storePublished", "storeReady", "restore"}

\* Every variable has a value its C++ counterpart can have.
TypeOK ==
  /\ state \in [Slots -> SlotState]
  /\ seq \in [Slots -> Nat]
  /\ plan \in [Slots -> Nat]
  /\ nextSeq \in Nat /\ publishedSeq \in Nat /\ spins \in Nat
  /\ wpc \in WriterOwns \cup {"idle", "scanEmpty", "casEmpty", "scanReady", "casReady"}
  /\ pass \in Nat /\ wi \in Slots
  /\ oldest \in Slots \cup {None} /\ oldestSeq \in Nat /\ mine \in Slots \cup {None}
  /\ rpc \in {"idle", "loadState", "loadSeq", "cas", "reload", "swap", "finished"}
  /\ ri \in Slots /\ best \in Slots \cup {None} /\ bestSeq \in Nat /\ actualSeq \in Nat
  /\ held \in Slots \cup {None} /\ heldSeq \in Nat
  /\ atStart \in Nat /\ seqStored \in BOOLEAN

\* The plan the reader renders is whole and is the one its seq names, although
\* the slot may have been reclaimed, recompiled and republished between the scan
\* and the compare-exchange (the re-read of seq after it, snapshot.cpp:197-208).
RenderedPlanIntact == held # None => plan[held] = heldSeq /\ heldSeq > 0

\* The writer compiles only into a slot the reader neither holds nor has just
\* claimed: the plan's scratch buffers have one user at a time.
OneOwnerPerSlot ==
  wpc \in WriterOwns =>
    /\ mine # held
    /\ ~(rpc \in {"reload", "swap"} /\ mine = best)

\* The newest complete plan is never reclaimed, so a compile that fails leaves
\* it current for the reader: it is READY, being claimed, or held.
NewestPlanKept ==
  NewestReady > 0 /\ rpc # "finished" =>
    \E i \in Slots : /\ plan[i] = NewestReady /\ seq[i] = NewestReady
                     /\ state[i] \in {"READY", "READING"}

\* Only the writer takes a slot out of EMPTY, so that compare-exchange cannot be
\* lost (snapshot.cpp:46-50).
EmptyCasNeverLost == wpc = "casEmpty" => state[wi] = "EMPTY"

\* publish() makes at most two passes: the reader can take at most one candidate
\* from one claim, however often it ticks meanwhile.
AtMostTwoPasses == pass <= 1

\* An acquire during which no publication stores its seq returns the newest plan
\* there was at its start or a newer one: a publish that fails, however often, and
\* one that merely completes, never costs the reader a tick.
AcquireIsFresh ==
  [][rpc # "idle" /\ rpc' = "idle" /\ ~seqStored => heldSeq' >= atStart]_vars

\* The store implements the abstract register: publication takes effect at the
\* store of READY, the reader's move at the store of held_.  In particular the
\* reader never goes back to an older plan.
Register == INSTANCE PlanRegister WITH
  latest <- NewestReady, rendered <- heldSeq, finished <- rpc = "finished"
ImplementsRegister == Register!Spec

\* Every publication reaches the reader, itself or through a newer one, once the
\* writer pauses ("picked up next tick, eventual, never lost").
PublishedIsRendered ==
  \A k \in 1 .. MaxPublish :
    NewestReady >= k ~> heldSeq >= k \/ rpc = "finished"
=============================================================================
