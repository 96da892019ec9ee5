------------------------ MODULE SnapshotStoreProofs ------------------------
(***************************************************************************)
(* Proofs about SnapshotStore for every number of slots, every pass limit  *)
(* and every number of publications.                                       *)
(*                                                                         *)
(* The inductive invariant says who owns each slot, that what a slot holds *)
(* when it is not being written is the plan its seq names, and that the    *)
(* seq of a slot never falls below what the reader's scan saw in it.  What *)
(* needs four slots comes after the refinement of PlanRegister.            *)
(***************************************************************************)
EXTENDS SnapshotStore, TLAPS

Published == {"READY", "READING"}

\* A slot is WRITING exactly when the writer is between its claim and its last store.
WriterOwnership ==
  /\ wpc \in WriterOwns => mine \in Slots /\ state[mine] = "WRITING"
  /\ \A i \in Slots : state[i] = "WRITING" => wpc \in WriterOwns /\ i = mine
  /\ wpc = "casEmpty" => state[wi] = "EMPTY"

\* A slot is READING exactly when the reader holds it or is about to.
ReaderOwnership ==
  /\ \A i \in Slots :
       state[i] = "READING" <=> i = held \/ (rpc \in {"reload", "swap"} /\ i = best)
  /\ rpc \in {"cas", "reload", "swap"} => best # None
  /\ rpc \in {"reload", "swap"} => best # held

\* Sequence numbers are handed out in order and name the plans in the slots.
SeqInv ==
  /\ nextSeq = IF wpc \in {"storeSeq", "storePublished"} THEN publishedSeq + 1
                                                         ELSE publishedSeq
  /\ \A i \in Slots : seq[i] <= nextSeq
  /\ \A i \in Slots : state[i] \in Published =>
       /\ plan[i] = seq[i]
       /\ 0 < seq[i] /\ seq[i] <= NewestReady
  /\ wpc \in {"storeSeq", "storePublished", "storeReady"} =>
       nextSeq > 0 /\ plan[mine] = nextSeq
  /\ wpc \in {"storePublished", "storeReady"} => seq[mine] = nextSeq

\* What the reader remembers of a slot is at most the seq the slot has now.
ReaderKnowledge ==
  /\ best # None => bestSeq <= seq[best]
  /\ rpc \in {"cas", "reload", "swap"} => held = None \/ heldSeq < bestSeq
  /\ rpc = "swap" => actualSeq = seq[best]
  /\ held # None => heldSeq = seq[held]
  /\ held = None => heldSeq = 0

IndInv == TypeOK /\ WriterOwnership /\ ReaderOwnership /\ SeqInv /\ ReaderKnowledge

LEMMA SlotsFacts == 0 \in Slots /\ None \notin Slots /\ Slots \subseteq Nat
BY StoreAssumption DEF Slots, None

LEMMA InitInd == Init => IndInv
<1> SUFFICES ASSUME Init PROVE IndInv
  OBVIOUS
<1> USE SlotsFacts DEF Init
<1>1. TypeOK
  BY DEF TypeOK, SlotState, NoPlan
<1>2. WriterOwnership /\ ReaderOwnership /\ SeqInv /\ ReaderKnowledge
  BY DEF WriterOwnership, ReaderOwnership, SeqInv, ReaderKnowledge, WriterOwns, Published
<1>3. QED
  BY <1>1, <1>2 DEF IndInv

LEMMA PublishBeginInd == IndInv /\ PublishBegin => IndInv'
<1> SUFFICES ASSUME IndInv, PublishBegin PROVE IndInv'
  OBVIOUS
<1> USE SlotsFacts DEF IndInv, PublishBegin, BeginPass, slotVars, writerVars, readerVars, history, WriterOwns
<1>1. TypeOK'
  BY DEF TypeOK, SlotState, NoPlan
<1>2. WriterOwnership'
  BY DEF TypeOK, WriterOwnership
<1>3. ReaderOwnership'
  BY DEF TypeOK, WriterOwnership, ReaderOwnership
<1>4. SeqInv'
  BY DEF TypeOK, WriterOwnership, ReaderOwnership, SeqInv, NewestReady, Published
<1>5. ReaderKnowledge'
  BY DEF TypeOK, WriterOwnership, ReaderOwnership, SeqInv, ReaderKnowledge
<1>6. QED
  BY <1>1, <1>2, <1>3, <1>4, <1>5

LEMMA LoadForEmptyInd == IndInv /\ LoadForEmpty => IndInv'
<1> SUFFICES ASSUME IndInv, LoadForEmpty PROVE IndInv'
  OBVIOUS
<1> USE SlotsFacts DEF IndInv, LoadForEmpty, NextOfEmptyScan, slotVars, writerVars, readerVars, history, WriterOwns
<1>1. TypeOK'
  BY DEF TypeOK, SlotState, NoPlan
<1>2. WriterOwnership'
  BY DEF TypeOK, WriterOwnership
<1>3. ReaderOwnership'
  BY DEF TypeOK, WriterOwnership, ReaderOwnership
<1>4. SeqInv'
  BY DEF TypeOK, WriterOwnership, ReaderOwnership, SeqInv, NewestReady, Published
<1>5. ReaderKnowledge'
  BY DEF TypeOK, WriterOwnership, ReaderOwnership, SeqInv, ReaderKnowledge
<1>6. QED
  BY <1>1, <1>2, <1>3, <1>4, <1>5

LEMMA CasEmptyInd == IndInv /\ CasEmpty => IndInv'
<1> SUFFICES ASSUME IndInv, CasEmpty PROVE IndInv'
  OBVIOUS
<1> USE SlotsFacts DEF IndInv, CasEmpty, NextOfEmptyScan, slotVars, writerVars, readerVars, history, WriterOwns
<1>1. TypeOK'
  BY DEF TypeOK, SlotState, NoPlan
<1>2. WriterOwnership'
  BY DEF TypeOK, WriterOwnership
<1>3. ReaderOwnership'
  BY DEF TypeOK, WriterOwnership, ReaderOwnership
<1>4. SeqInv'
  BY DEF TypeOK, WriterOwnership, ReaderOwnership, SeqInv, NewestReady, Published
<1>5. ReaderKnowledge'
  BY DEF TypeOK, WriterOwnership, ReaderOwnership, SeqInv, ReaderKnowledge
<1>6. QED
  BY <1>1, <1>2, <1>3, <1>4, <1>5

LEMMA LoadForOldestInd == IndInv /\ LoadForOldest => IndInv'
<1> SUFFICES ASSUME IndInv, LoadForOldest PROVE IndInv'
  OBVIOUS
<1> USE SlotsFacts DEF IndInv, LoadForOldest, slotVars, writerVars, readerVars, history, WriterOwns
<1>1. TypeOK'
  BY DEF TypeOK, SlotState, NoPlan
<1>2. WriterOwnership'
  BY DEF TypeOK, WriterOwnership
<1>3. ReaderOwnership'
  BY DEF TypeOK, WriterOwnership, ReaderOwnership
<1>4. SeqInv'
  BY DEF TypeOK, WriterOwnership, ReaderOwnership, SeqInv, NewestReady, Published
<1>5. ReaderKnowledge'
  BY DEF TypeOK, WriterOwnership, ReaderOwnership, SeqInv, ReaderKnowledge
<1>6. QED
  BY <1>1, <1>2, <1>3, <1>4, <1>5

LEMMA CasOldestInd == IndInv /\ CasOldest => IndInv'
<1> SUFFICES ASSUME IndInv, CasOldest PROVE IndInv'
  OBVIOUS
<1> USE SlotsFacts DEF IndInv, CasOldest, Rescan, BeginPass, slotVars, writerVars, readerVars, history, WriterOwns
<1>1. TypeOK'
  BY DEF TypeOK, SlotState, NoPlan
<1>2. WriterOwnership'
  BY DEF TypeOK, WriterOwnership
<1>3. ReaderOwnership'
  BY DEF TypeOK, WriterOwnership, ReaderOwnership
<1>4. SeqInv'
  BY DEF TypeOK, WriterOwnership, ReaderOwnership, SeqInv, NewestReady, Published
<1>5. ReaderKnowledge'
  BY DEF TypeOK, WriterOwnership, ReaderOwnership, SeqInv, ReaderKnowledge
<1>6. QED
  BY <1>1, <1>2, <1>3, <1>4, <1>5

LEMMA CompileOkInd == IndInv /\ CompileOk => IndInv'
<1> SUFFICES ASSUME IndInv, CompileOk PROVE IndInv'
  OBVIOUS
<1> USE SlotsFacts DEF IndInv, CompileOk, slotVars, writerVars, readerVars, history, WriterOwns
<1>a. nextSeq + 1 \in Nat
  BY DEF TypeOK
<1>1. TypeOK'
  BY <1>a DEF TypeOK
<1>2. WriterOwnership'
  BY DEF TypeOK, WriterOwnership
<1>3. ReaderOwnership'
  BY DEF TypeOK, WriterOwnership, ReaderOwnership
<1>4. SeqInv'
  BY DEF TypeOK, WriterOwnership, ReaderOwnership, SeqInv, NewestReady, Published
<1>5. ReaderKnowledge'
  BY DEF TypeOK, WriterOwnership, ReaderOwnership, SeqInv, ReaderKnowledge
<1>6. QED
  BY <1>1, <1>2, <1>3, <1>4, <1>5

LEMMA CompileFailInd == IndInv /\ CompileFail => IndInv'
<1> SUFFICES ASSUME IndInv, CompileFail PROVE IndInv'
  OBVIOUS
<1> USE SlotsFacts DEF IndInv, CompileFail, slotVars, writerVars, readerVars, history, WriterOwns
<1>1. TypeOK'
  BY DEF TypeOK, SlotState, NoPlan
<1>2. WriterOwnership'
  BY DEF TypeOK, WriterOwnership
<1>3. ReaderOwnership'
  BY DEF TypeOK, WriterOwnership, ReaderOwnership
<1>4. SeqInv'
  BY DEF TypeOK, WriterOwnership, ReaderOwnership, SeqInv, NewestReady, Published
<1>5. ReaderKnowledge'
  BY DEF TypeOK, WriterOwnership, ReaderOwnership, SeqInv, ReaderKnowledge
<1>6. QED
  BY <1>1, <1>2, <1>3, <1>4, <1>5

LEMMA StoreSeqInd == IndInv /\ StoreSeq => IndInv'
<1> SUFFICES ASSUME IndInv, StoreSeq PROVE IndInv'
  OBVIOUS
<1> USE SlotsFacts DEF IndInv, StoreSeq, slotVars, writerVars, readerVars, history, WriterOwns
<1>1. TypeOK'
  BY DEF TypeOK, SlotState, NoPlan
<1>2. WriterOwnership'
  BY DEF TypeOK, WriterOwnership
<1>3. ReaderOwnership'
  BY DEF TypeOK, WriterOwnership, ReaderOwnership
<1>4. SeqInv'
  BY DEF TypeOK, WriterOwnership, ReaderOwnership, SeqInv, NewestReady, Published
<1>5. ReaderKnowledge'
  BY DEF TypeOK, WriterOwnership, ReaderOwnership, SeqInv, ReaderKnowledge
<1>6. QED
  BY <1>1, <1>2, <1>3, <1>4, <1>5

LEMMA StorePublishedInd == IndInv /\ StorePublished => IndInv'
<1> SUFFICES ASSUME IndInv, StorePublished PROVE IndInv'
  OBVIOUS
<1> USE SlotsFacts DEF IndInv, StorePublished, slotVars, writerVars, readerVars, history, WriterOwns
<1>1. TypeOK'
  BY DEF TypeOK, SlotState, NoPlan
<1>2. WriterOwnership'
  BY DEF TypeOK, WriterOwnership
<1>3. ReaderOwnership'
  BY DEF TypeOK, WriterOwnership, ReaderOwnership
<1>4. SeqInv'
  BY DEF TypeOK, WriterOwnership, ReaderOwnership, SeqInv, NewestReady, Published
<1>5. ReaderKnowledge'
  BY DEF TypeOK, WriterOwnership, ReaderOwnership, SeqInv, ReaderKnowledge
<1>6. QED
  BY <1>1, <1>2, <1>3, <1>4, <1>5

LEMMA StoreReadyInd == IndInv /\ StoreReady => IndInv'
<1> SUFFICES ASSUME IndInv, StoreReady PROVE IndInv'
  OBVIOUS
<1> USE SlotsFacts DEF IndInv, StoreReady, EndPublish, slotVars, writerVars, readerVars, history, WriterOwns
<1>1. TypeOK'
  BY DEF TypeOK, SlotState, NoPlan
<1>2. WriterOwnership'
  BY DEF TypeOK, WriterOwnership
<1>3. ReaderOwnership'
  BY DEF TypeOK, WriterOwnership, ReaderOwnership
<1>4. SeqInv'
  BY DEF TypeOK, WriterOwnership, ReaderOwnership, SeqInv, NewestReady, Published
<1>5. ReaderKnowledge'
  BY DEF TypeOK, WriterOwnership, ReaderOwnership, SeqInv, ReaderKnowledge
<1>6. QED
  BY <1>1, <1>2, <1>3, <1>4, <1>5

LEMMA RestoreEmptyInd == IndInv /\ RestoreEmpty => IndInv'
<1> SUFFICES ASSUME IndInv, RestoreEmpty PROVE IndInv'
  OBVIOUS
<1> USE SlotsFacts DEF IndInv, RestoreEmpty, EndPublish, slotVars, writerVars, readerVars, history, WriterOwns
<1>1. TypeOK'
  BY DEF TypeOK, SlotState, NoPlan
<1>2. WriterOwnership'
  BY DEF TypeOK, WriterOwnership
<1>3. ReaderOwnership'
  BY DEF TypeOK, WriterOwnership, ReaderOwnership
<1>4. SeqInv'
  BY DEF TypeOK, WriterOwnership, ReaderOwnership, SeqInv, NewestReady, Published
<1>5. ReaderKnowledge'
  BY DEF TypeOK, WriterOwnership, ReaderOwnership, SeqInv, ReaderKnowledge
<1>6. QED
  BY <1>1, <1>2, <1>3, <1>4, <1>5

LEMMA AcquireBeginInd == IndInv /\ AcquireBegin => IndInv'
<1> SUFFICES ASSUME IndInv, AcquireBegin PROVE IndInv'
  OBVIOUS
<1> USE SlotsFacts DEF IndInv, AcquireBegin, slotVars, writerVars, readerVars, history, WriterOwns
<1>a. NewestReady \in Nat
  BY DEF TypeOK, SeqInv, NewestReady
<1>1. TypeOK'
  BY <1>a DEF TypeOK
<1>2. WriterOwnership'
  BY DEF TypeOK, WriterOwnership
<1>3. ReaderOwnership'
  BY DEF TypeOK, WriterOwnership, ReaderOwnership
<1>4. SeqInv'
  BY DEF TypeOK, WriterOwnership, ReaderOwnership, SeqInv, NewestReady, Published
<1>5. ReaderKnowledge'
  BY DEF TypeOK, WriterOwnership, ReaderOwnership, SeqInv, ReaderKnowledge
<1>6. QED
  BY <1>1, <1>2, <1>3, <1>4, <1>5

LEMMA LoadStateInd == IndInv /\ LoadState => IndInv'
<1> SUFFICES ASSUME IndInv, LoadState PROVE IndInv'
  OBVIOUS
<1> USE SlotsFacts DEF IndInv, LoadState, NextOfScan, EndAcquire, slotVars, writerVars, readerVars, history, WriterOwns
<1>1. TypeOK'
  BY DEF TypeOK, SlotState, NoPlan
<1>2. WriterOwnership'
  BY DEF TypeOK, WriterOwnership
<1>3. ReaderOwnership'
  BY DEF TypeOK, WriterOwnership, ReaderOwnership
<1>4. SeqInv'
  BY DEF TypeOK, WriterOwnership, ReaderOwnership, SeqInv, NewestReady, Published
<1>5. ReaderKnowledge'
  BY DEF TypeOK, WriterOwnership, ReaderOwnership, SeqInv, ReaderKnowledge
<1>6. QED
  BY <1>1, <1>2, <1>3, <1>4, <1>5

LEMMA LoadSeqInd == IndInv /\ LoadSeq => IndInv'
<1> SUFFICES ASSUME IndInv, LoadSeq PROVE IndInv'
  OBVIOUS
<1> USE SlotsFacts DEF IndInv, LoadSeq, NextOfScan, EndAcquire, slotVars, writerVars, readerVars, history, WriterOwns
<1>1. TypeOK'
  BY DEF TypeOK, SlotState, NoPlan
<1>2. WriterOwnership'
  BY DEF TypeOK, WriterOwnership
<1>3. ReaderOwnership'
  BY DEF TypeOK, WriterOwnership, ReaderOwnership
<1>4. SeqInv'
  BY DEF TypeOK, WriterOwnership, ReaderOwnership, SeqInv, NewestReady, Published
<1>5. ReaderKnowledge'
  BY DEF TypeOK, WriterOwnership, ReaderOwnership, SeqInv, ReaderKnowledge
<1>6. QED
  BY <1>1, <1>2, <1>3, <1>4, <1>5

LEMMA CasBestInd == IndInv /\ CasBest => IndInv'
<1> SUFFICES ASSUME IndInv, CasBest PROVE IndInv'
  OBVIOUS
<1> USE SlotsFacts DEF IndInv, CasBest, EndAcquire, slotVars, writerVars, readerVars, history, WriterOwns
<1>1. TypeOK'
  BY DEF TypeOK, SlotState, NoPlan
<1>2. WriterOwnership'
  BY DEF TypeOK, WriterOwnership
<1>3. ReaderOwnership'
  BY DEF TypeOK, WriterOwnership, ReaderOwnership
<1>4. SeqInv'
  BY DEF TypeOK, WriterOwnership, ReaderOwnership, SeqInv, NewestReady, Published
<1>5. ReaderKnowledge'
  BY DEF TypeOK, WriterOwnership, ReaderOwnership, SeqInv, ReaderKnowledge
<1>6. QED
  BY <1>1, <1>2, <1>3, <1>4, <1>5

LEMMA ReloadSeqInd == IndInv /\ ReloadSeq => IndInv'
<1> SUFFICES ASSUME IndInv, ReloadSeq PROVE IndInv'
  OBVIOUS
<1> USE SlotsFacts DEF IndInv, ReloadSeq, slotVars, writerVars, readerVars, history, WriterOwns
<1>1. TypeOK'
  BY DEF TypeOK, ReaderOwnership
<1>2. WriterOwnership'
  BY DEF TypeOK, WriterOwnership
<1>3. ReaderOwnership'
  BY DEF TypeOK, WriterOwnership, ReaderOwnership
<1>4. SeqInv'
  BY DEF TypeOK, WriterOwnership, ReaderOwnership, SeqInv, NewestReady, Published
<1>5. ReaderKnowledge'
  BY DEF TypeOK, WriterOwnership, ReaderOwnership, SeqInv, ReaderKnowledge
<1>6. QED
  BY <1>1, <1>2, <1>3, <1>4, <1>5

LEMMA SwapHeldInd == IndInv /\ SwapHeld => IndInv'
<1> SUFFICES ASSUME IndInv, SwapHeld PROVE IndInv'
  OBVIOUS
<1> USE SlotsFacts DEF IndInv, SwapHeld, EndAcquire, slotVars, writerVars, readerVars, history, WriterOwns
<1>1. TypeOK'
  BY DEF TypeOK, SlotState, NoPlan
<1>2. WriterOwnership'
  BY DEF TypeOK, WriterOwnership, ReaderOwnership
<1>3. ReaderOwnership'
  BY DEF TypeOK, WriterOwnership, ReaderOwnership
<1>4. SeqInv'
  BY DEF TypeOK, WriterOwnership, ReaderOwnership, SeqInv, NewestReady, Published
<1>5. ReaderKnowledge'
  BY DEF TypeOK, WriterOwnership, ReaderOwnership, SeqInv, ReaderKnowledge
<1>6. QED
  BY <1>1, <1>2, <1>3, <1>4, <1>5

LEMMA ReleaseInd == IndInv /\ Release => IndInv'
<1> SUFFICES ASSUME IndInv, Release PROVE IndInv'
  OBVIOUS
<1> USE SlotsFacts DEF IndInv, Release, slotVars, writerVars, readerVars, history, WriterOwns
<1>1. TypeOK'
  BY DEF TypeOK, SlotState, NoPlan
<1>2. WriterOwnership'
  BY DEF TypeOK, WriterOwnership, ReaderOwnership
<1>3. ReaderOwnership'
  BY DEF TypeOK, WriterOwnership, ReaderOwnership
<1>4. SeqInv'
  BY DEF TypeOK, WriterOwnership, ReaderOwnership, SeqInv, NewestReady, Published
<1>5. ReaderKnowledge'
  BY DEF TypeOK, WriterOwnership, ReaderOwnership, SeqInv, ReaderKnowledge
<1>6. QED
  BY <1>1, <1>2, <1>3, <1>4, <1>5

LEMMA NextInd == IndInv /\ [Next]_vars => IndInv'
<1> SUFFICES ASSUME IndInv, [Next]_vars PROVE IndInv'
  OBVIOUS
<1>1. CASE Writer
  BY <1>1, PublishBeginInd, LoadForEmptyInd, CasEmptyInd, LoadForOldestInd, CasOldestInd,
     CompileOkInd, CompileFailInd, StoreSeqInd, StorePublishedInd, StoreReadyInd,
     RestoreEmptyInd DEF Writer
<1>2. CASE Reader
  BY <1>2, AcquireBeginInd, LoadStateInd, LoadSeqInd, CasBestInd, ReloadSeqInd, SwapHeldInd,
     ReleaseInd DEF Reader, Acquire
<1>3. CASE UNCHANGED vars
  BY <1>3 DEF vars, slotVars, writerVars, readerVars, history, IndInv, TypeOK,
     WriterOwnership, ReaderOwnership, SeqInv, ReaderKnowledge, NewestReady
<1>4. QED
  BY <1>1, <1>2, <1>3 DEF Next

\* The inductive invariant holds in every reachable state.
THEOREM StoreInvariant == Spec => []IndInv
BY InitInd, NextInd, PTL DEF Spec

\* Every variable keeps its type, whatever the interleaving.
THEOREM StoreTypeOK == Spec => []TypeOK
<1>1. IndInv => TypeOK
  BY DEF IndInv
<1>2. QED
  BY <1>1, StoreInvariant, PTL

\* The plan the reader renders is complete and is the one its seq names.
THEOREM StoreRendersIntactPlans == Spec => []RenderedPlanIntact
<1>1. IndInv => RenderedPlanIntact
  <2> SUFFICES ASSUME IndInv, held # None
               PROVE  plan[held] = heldSeq /\ heldSeq > 0
    BY DEF RenderedPlanIntact
  <2>1. held \in Slots /\ state[held] = "READING" /\ heldSeq = seq[held]
    BY DEF IndInv, TypeOK, ReaderOwnership, ReaderKnowledge
  <2>2. QED
    BY <2>1 DEF IndInv, TypeOK, SeqInv, Published
<1>2. QED
  BY <1>1, StoreInvariant, PTL

\* The writer never compiles into a slot the reader holds or has claimed.
THEOREM StoreSlotsHaveOneOwner == Spec => []OneOwnerPerSlot
<1>1. IndInv => OneOwnerPerSlot
  BY DEF IndInv, TypeOK, WriterOwnership, ReaderOwnership, OneOwnerPerSlot
<1>2. QED
  BY <1>1, StoreInvariant, PTL

\* The compare-exchange that takes an EMPTY slot cannot be lost.
THEOREM StoreEmptyCasNeverLost == Spec => []EmptyCasNeverLost
<1>1. IndInv => EmptyCasNeverLost
  BY DEF IndInv, WriterOwnership, EmptyCasNeverLost
<1>2. QED
  BY <1>1, StoreInvariant, PTL

\* Each step of the store is a step of the register or leaves it alone: the store
\* of READY publishes, the swap of held_ takes a strictly newer plan, release()
\* finishes, and nothing else shows.
LEMMA StepSimulation ==
  ASSUME IndInv, [Next]_vars
  PROVE  [Register!Next]_<<NewestReady, heldSeq, rpc = "finished">>
<1> USE DEF NewestReady, slotVars, writerVars, readerVars, history
<1>1. CASE StoreReady
  <2>1. NewestReady' = NewestReady + 1
    BY <1>1 DEF StoreReady, EndPublish, IndInv, TypeOK
  <2>2. UNCHANGED <<heldSeq, rpc>>
    BY <1>1 DEF StoreReady
  <2>3. QED
    BY <2>1, <2>2 DEF Register!Next, Register!Publish
<1>2. CASE SwapHeld
  <2>1. heldSeq' = seq[best] /\ heldSeq < seq[best] /\ seq[best] <= NewestReady
    <3>1. best \in Slots /\ state[best] = "READING" /\ rpc = "swap"
      BY <1>2 DEF SwapHeld, IndInv, TypeOK, ReaderOwnership
    <3>2. actualSeq = seq[best] /\ bestSeq <= seq[best] /\ 0 < seq[best]
          /\ seq[best] <= NewestReady
      BY <3>1, SlotsFacts DEF IndInv, ReaderKnowledge, SeqInv, Published
    <3>3. heldSeq < seq[best]
      BY <3>1, <3>2 DEF IndInv, TypeOK, ReaderKnowledge
    <3>4. QED
      BY <1>2, <3>2, <3>3 DEF SwapHeld
  <2>2. rpc # "finished" /\ rpc' # "finished" /\ UNCHANGED NewestReady
    BY <1>2 DEF SwapHeld, EndAcquire
  <2>3. heldSeq' \in heldSeq + 1 .. NewestReady
    BY <1>2, <2>1, SlotsFacts DEF IndInv, TypeOK, SwapHeld, SeqInv
  <2>4. QED
    BY <2>2, <2>3 DEF Register!Next, Register!Take
<1>3. CASE Release
  BY <1>3 DEF Release, Register!Next, Register!Finish
<1>4. CASE StorePublished
  BY <1>4 DEF StorePublished, IndInv, TypeOK, SeqInv
<1>5. CASE Writer /\ ~StoreReady /\ ~StorePublished
  <2>1. UNCHANGED <<heldSeq, rpc, publishedSeq>> /\ wpc # "storeReady" /\ wpc' # "storeReady"
    BY <1>5 DEF Writer, PublishBegin, BeginPass, LoadForEmpty, NextOfEmptyScan, CasEmpty,
       LoadForOldest, CasOldest, Rescan, CompileOk, CompileFail, StoreSeq, RestoreEmpty, EndPublish
  <2>2. QED
    BY <2>1
<1>6. CASE Acquire /\ ~SwapHeld
  <2>1. UNCHANGED <<heldSeq, publishedSeq, wpc>> /\ rpc # "finished" /\ rpc' # "finished"
    BY <1>6 DEF Acquire, AcquireBegin, LoadState, LoadSeq, NextOfScan, EndAcquire, CasBest, ReloadSeq
  <2>2. QED
    BY <2>1
<1>7. CASE UNCHANGED vars
  BY <1>7 DEF vars
<1>8. QED
  BY <1>1, <1>2, <1>3, <1>4, <1>5, <1>6, <1>7 DEF Next, Reader, Acquire

\* The lock-free store implements the abstract register of plans.
THEOREM StoreImplementsRegister == Spec => ImplementsRegister
<1>1. Init => Register!Init
  BY DEF Init, Register!Init, NewestReady
<1>2. IndInv /\ [Next]_vars => [Register!Next]_<<NewestReady, heldSeq, rpc = "finished">>
  BY StepSimulation
<1>3. QED
  BY <1>1, <1>2, StoreInvariant, PTL DEF Spec, ImplementsRegister, Register!Spec

-----------------------------------------------------------------------------
(***************************************************************************)
(* What takes four slots: that a claim never takes the newest plan, that   *)
(* it is lost at most once, and that an acquire finds the newest plan.     *)
(*                                                                         *)
(* The argument is a count.  While the writer claims, the reader can have  *)
(* taken at most two slots besides that of the newest plan: one it holds   *)
(* and one it was already about to claim, for an acquire that begins later *)
(* goes for the newest.  A fourth slot is then left to the second scan.    *)
(* With three slots TLC finds all three properties violated.               *)
(***************************************************************************)

\* kSlotCount is 4.
FourSlots == NSlots >= 4

\* The places of the writer inside claim_slot, and those of its second scan.
Claiming == {"scanEmpty", "casEmpty", "scanReady", "casReady"}
SecondScan == {"scanReady", "casReady"}

\* A sequence number is in one slot.
SeqsDiffer == \A i, j \in Slots : i # j /\ seq[i] = seq[j] => seq[i] = 0

\* No number is above the published one, but that of the plan being published.
SeqsBehind == wpc # "storePublished" => \A i \in Slots : seq[i] <= publishedSeq

\* Slot n has the number of the newest plan.
Newest(n) == NewestReady > 0 /\ seq[n] = NewestReady

\* Some slot has that number, whatever has become of the slot.
NewestInSlot ==
  NewestReady > 0 /\ wpc \notin {"storePublished", "storeReady"} =>
    \E n \in Slots : seq[n] = NewestReady

\* The acquire in progress may still claim a slot other than n.
Stale(n) ==
  \/ rpc = "cas" /\ best # n
  \/ /\ rpc \in {"loadState", "loadSeq"} /\ ri > n /\ held # n
     /\ ~(best = n /\ bestSeq = seq[n])

\* Slots that the reader has, or gave back behind the first scan.
Gone(i) == \/ state[i] = "READING"
           \/ state[i] = "EMPTY" /\ (wpc \in SecondScan \/ i < wi)

\* Besides slot n they are at most two, and one if a further claim is to come.
TwoAreGone(n) ==
  \E a, b \in Slots : /\ \A i \in Slots \ {n} : Gone(i) => i \in {a, b}
                      /\ Stale(n) => a = b

\* The second scan's candidate is the smallest number among the slots still READY.
OldestIsOldest ==
  /\ wpc \in {"scanEmpty", "casEmpty"} => oldest = None
  /\ wpc \in SecondScan =>
       /\ oldest # None => oldestSeq = seq[oldest]
       /\ \A i \in Slots :
            (wpc = "scanReady" => i < wi) /\ state[i] = "READY" =>
              oldest # None /\ oldestSeq <= seq[i]

\* A second pass, or a lost candidate, means that the reader claims nothing but n.
LossIsLast(n) ==
  /\ pass # 0 => ~Stale(n)
  /\ wpc \in SecondScan /\ oldest \notin {None, n} /\ state[oldest] # "READY" =>
       pass = 0 /\ ~Stale(n)

\* Before the first publication the first slot is EMPTY, so no claim gets past it.
BeforeFirst ==
  wpc \in Claiming /\ NewestReady = 0 => wi = 0 /\ pass = 0 /\ wpc \notin SecondScan

\* All of it while the writer claims a slot.
ClaimInv ==
  wpc \in Claiming =>
    \A n \in Slots : Newest(n) => TwoAreGone(n) /\ LossIsLast(n)

\* The inductive invariant, on top of IndInv.
KeepInv == /\ SeqsDiffer /\ SeqsBehind /\ NewestInSlot /\ NewestPlanKept /\ AtMostTwoPasses
           /\ BeforeFirst /\ OldestIsOldest /\ ClaimInv

\* Only the store of seq moves a number, to one that no slot has.
LEMMA SeqsInd ==
  ASSUME IndInv, SeqsDiffer, SeqsBehind, NewestInSlot, [Next]_vars
  PROVE  SeqsDiffer' /\ SeqsBehind' /\ NewestInSlot'
<1> USE SlotsFacts DEF SeqsDiffer, SeqsBehind, NewestInSlot, NewestReady
<1>1. CASE StoreSeq
  <2>1. /\ mine \in Slots /\ nextSeq = publishedSeq + 1 /\ publishedSeq \in Nat
        /\ seq \in [Slots -> Nat]
        /\ seq' = [seq EXCEPT ![mine] = nextSeq] /\ wpc' = "storePublished"
        /\ wpc = "storeSeq"
    BY <1>1 DEF StoreSeq, IndInv, TypeOK, WriterOwnership, WriterOwns, SeqInv
  <2>2. QED
    BY <2>1
<1>2. CASE StorePublished
  BY <1>2 DEF StorePublished, slotVars, IndInv, TypeOK, SeqInv
<1>3. CASE StoreReady
  BY <1>3 DEF StoreReady, EndPublish, IndInv, TypeOK, SeqInv, WriterOwnership, WriterOwns
<1>4. CASE Writer /\ ~StoreSeq /\ ~StorePublished /\ ~StoreReady
  <2>1. /\ UNCHANGED <<seq, publishedSeq>>
        /\ wpc \notin {"storePublished", "storeReady"}
        /\ wpc' \notin {"storePublished", "storeReady"}
    BY <1>4 DEF Writer, PublishBegin, BeginPass, LoadForEmpty, NextOfEmptyScan, CasEmpty,
       LoadForOldest, CasOldest, Rescan, CompileOk, CompileFail, RestoreEmpty, EndPublish,
       slotVars
  <2>2. QED
    BY <2>1
<1>5. CASE Reader
  <2>1. UNCHANGED <<seq, publishedSeq, wpc>>
    BY <1>5 DEF Reader, Acquire, AcquireBegin, LoadState, LoadSeq, CasBest, ReloadSeq,
       SwapHeld, Release, slotVars, writerVars
  <2>2. QED
    BY <2>1
<1>6. CASE UNCHANGED vars
  BY <1>6 DEF vars, slotVars, writerVars
<1>7. QED
  BY <1>1, <1>2, <1>3, <1>4, <1>5, <1>6 DEF Next

\* The newest plan is in the one slot that has its number.
LEMMA NewestIsThere ==
  ASSUME IndInv, SeqsDiffer, NewestPlanKept, NEW n \in Slots, Newest(n), rpc # "finished"
  PROVE  plan[n] = NewestReady /\ state[n] \in Published
BY SlotsFacts DEF NewestPlanKept, SeqsDiffer, Newest, Published

\* A slot that holds a plan which is not the newest has a smaller number.
LEMMA OthersAreOlder ==
  ASSUME IndInv, SeqsDiffer, NEW n \in Slots, Newest(n), NEW i \in Slots, i # n,
         state[i] \in Published
  PROVE  seq[i] < seq[n] /\ seq[i] \in Nat /\ seq[n] \in Nat
<1>1. 0 < seq[i] /\ seq[i] <= NewestReady /\ seq[i] \in Nat /\ seq[n] \in Nat
  BY DEF IndInv, TypeOK, SeqInv
<1>2. QED
  BY <1>1 DEF SeqsDiffer, Newest

\* A reader that will pass other slots by does not come to claim one, and one that
\* has claimed one claims no other.
LEMMA StaleFalls ==
  ASSUME IndInv, SeqsDiffer, NewestPlanKept, NEW n \in Slots, Newest(n),
         wpc \in Claiming, Reader
  PROVE  /\ Stale(n)' => Stale(n)
         /\ CasBest /\ state' # state /\ best # n => Stale(n) /\ ~Stale(n)'
<1> USE SlotsFacts DEF slotVars, writerVars, readerVars, history
<1>1. /\ ri \in Nat /\ n \in Nat /\ seq[n] \in Nat /\ bestSeq \in Nat /\ heldSeq \in Nat
      /\ best \in Slots \cup {None} /\ held \in Slots \cup {None}
      /\ \A i \in Slots : seq[i] \in Nat /\ seq[i] <= seq[n]
  <2>1. NewestReady = nextSeq
    BY DEF Claiming, NewestReady, IndInv, SeqInv
  <2>2. QED
    BY <2>1 DEF IndInv, TypeOK, SeqInv, Newest
<1>2. CASE AcquireBegin
  BY <1>1, <1>2 DEF AcquireBegin, Stale, CasBest
<1>a. ASSUME NEW b \in Slots \cup {None}, NEW s \in Nat, NextOfScan(b, s),
             UNCHANGED <<seq, held, heldSeq>>,
             held # n /\ ri >= n => b = n /\ s = seq[n],
             b # None => s <= seq[b]
      PROVE  ~Stale(n)'
  <2>1. CASE ri + 1 \in Slots
    BY <1>a, <2>1, <1>1 DEF NextOfScan, Stale
  <2>2. CASE ri + 1 \notin Slots /\ b # None /\ (held = None \/ s > heldSeq)
    <3>1. ri >= n
      BY <1>1, <2>2, StoreAssumption DEF Slots, IndInv, TypeOK
    <3>2. held = n => heldSeq = seq[n]
      BY DEF IndInv, ReaderKnowledge
    <3>3. held # n
      BY <1>a, <1>1, <2>2, <3>2
    <3>4. best' = n /\ rpc' = "cas"
      BY <1>a, <2>2, <3>1, <3>3 DEF NextOfScan
    <3>5. QED
      BY <3>4 DEF Stale
  <2>3. CASE ri + 1 \notin Slots /\ ~(b # None /\ (held = None \/ s > heldSeq))
    BY <1>a, <2>3 DEF NextOfScan, EndAcquire, Stale
  <2>4. QED
    BY <2>1, <2>2, <2>3
<1>b. best # None => bestSeq <= seq[best]
  BY DEF IndInv, ReaderKnowledge
<1>3. CASE LoadState
  <2>1. rpc # "finished" /\ rpc = "loadState" /\ UNCHANGED <<seq, held, heldSeq>>
    BY <1>3 DEF LoadState
  <2>2. state[n] \in Published
    BY <2>1, NewestIsThere
  <2>3. state[n] # "READY" => held = n
    BY <2>1, <2>2 DEF IndInv, ReaderOwnership, Published
  <2>4. ASSUME ~Stale(n) PROVE ~Stale(n)'
    <3>1. CASE state[ri] = "READY" /\ rpc' = "loadSeq"
      BY <1>3, <2>1, <2>4, <3>1 DEF LoadState, Stale
    <3>2. CASE state[ri] # "READY" /\ NextOfScan(best, bestSeq)
      <4>1. held # n /\ ri >= n => best = n /\ bestSeq = seq[n]
        BY <1>1, <2>1, <2>3, <2>4, <3>2 DEF Stale
      <4>2. QED
        BY <1>1, <1>a, <1>b, <2>1, <3>2, <4>1
    <3>3. QED
      BY <1>3, <3>1, <3>2 DEF LoadState
  <2>5. QED
    BY <2>1, <2>4 DEF CasBest
<1>4. CASE LoadSeq
  <2>1. rpc # "finished" /\ rpc = "loadSeq" /\ UNCHANGED <<seq, held, heldSeq>>
    BY <1>4 DEF LoadSeq
  <2>2. ri \in Slots /\ seq[ri] \in Nat
    BY DEF IndInv, TypeOK
  <2>3. ASSUME ~Stale(n) PROVE ~Stale(n)'
    <3>1. CASE (best = None \/ seq[ri] > bestSeq) /\ NextOfScan(ri, seq[ri])
      <4>1. held # n /\ ri >= n => ri = n
        BY <1>1, <2>1, <2>2, <2>3, <3>1 DEF Stale
      <4>2. QED
        BY <1>1, <1>a, <2>1, <2>2, <3>1, <4>1
    <3>2. CASE ~(best = None \/ seq[ri] > bestSeq) /\ NextOfScan(best, bestSeq)
      <4>1. ri = n => best = n /\ bestSeq = seq[n]
        <5>1. ri = n => seq[best] = seq[n] /\ bestSeq = seq[n]
          BY <1>1, <1>b, <3>2
        <5>2. 0 < seq[n]
          BY <1>1 DEF Newest
        <5>3. QED
          BY <1>1, <5>1, <5>2, <3>2 DEF SeqsDiffer
      <4>2. held # n /\ ri >= n => best = n /\ bestSeq = seq[n]
        BY <1>1, <2>1, <2>3, <4>1 DEF Stale
      <4>3. QED
        BY <1>1, <1>a, <1>b, <2>1, <3>2, <4>2
    <3>3. QED
      BY <1>4, <3>1, <3>2 DEF LoadSeq
  <2>4. QED
    BY <2>1, <2>3 DEF CasBest
<1>5. CASE CasBest
  BY <1>5 DEF CasBest, EndAcquire, Stale
<1>6. CASE ReloadSeq \/ SwapHeld \/ Release
  BY <1>6 DEF ReloadSeq, SwapHeld, Release, EndAcquire, Stale, CasBest
<1>7. QED
  BY <1>2, <1>3, <1>4, <1>5, <1>6 DEF Reader, Acquire

\* Of four slots the reader has at most two besides the newest: the one it held and the
\* one it was about to claim.  So the oldest that the second scan saw is another.
LEMMA OldestIsNotNewest ==
  ASSUME FourSlots, IndInv, SeqsDiffer, OldestIsOldest, wpc = "casReady",
         NEW n \in Slots, Newest(n), TwoAreGone(n)
  PROVE  oldest \in Slots /\ oldest # n
<1>1. PICK a, b \in Slots : \A i \in Slots \ {n} : Gone(i) => i \in {a, b}
  BY DEF TwoAreGone
<1>2. PICK j \in Slots : j \notin {n, a, b}
  <2>1. {0, 1, 2, 3} \subseteq Slots
    BY StoreAssumption DEF FourSlots, Slots
  <2>2. QED
    BY <2>1
<1>3. state[j] = "READY"
  BY <1>1, <1>2 DEF Gone, SecondScan, IndInv, TypeOK, SlotState, WriterOwnership, WriterOwns
<1>4. oldest # None /\ oldestSeq = seq[oldest] /\ oldestSeq <= seq[j]
  BY <1>3 DEF OldestIsOldest, SecondScan
<1>5. seq[j] < seq[n] /\ seq[j] \in Nat /\ seq[n] \in Nat
  BY <1>2, <1>3, OthersAreOlder DEF Published
<1>6. QED
  BY <1>4, <1>5 DEF IndInv, TypeOK

\* The scan keeps the minimum, and the reader only makes READY slots fewer.
LEMMA OldestInd ==
  ASSUME IndInv, OldestIsOldest, [Next]_vars PROVE OldestIsOldest'
<1> USE SlotsFacts DEF OldestIsOldest, SecondScan
<1>1. CASE LoadForOldest
  <2>1. /\ wpc = "scanReady" /\ wpc' \in {"scanReady", "casReady"} /\ UNCHANGED <<state, seq>>
        /\ wi \in Slots /\ wi \in Nat /\ oldest \in Slots \cup {None}
        /\ seq \in [Slots -> Nat] /\ oldestSeq \in Nat
    BY <1>1 DEF LoadForOldest, slotVars, IndInv, TypeOK
  <2>2. CASE state[wi] = "READY" /\ (oldest = None \/ seq[wi] < oldestSeq)
    <3>1. oldest' = wi /\ oldestSeq' = seq[wi]
      BY <1>1, <2>2 DEF LoadForOldest
    <3>2. \A i \in Slots : i < wi /\ state[i] = "READY" => seq[wi] <= seq[i]
      BY <2>1, <2>2
    <3>3. \A i \in Slots : (wpc' = "scanReady" => i < wi') => i < wi \/ i = wi
      BY <1>1, <2>1, StoreAssumption DEF LoadForOldest, Slots
    <3>4. QED
      BY <2>1, <3>1, <3>2, <3>3
  <2>3. CASE ~(state[wi] = "READY" /\ (oldest = None \/ seq[wi] < oldestSeq))
    <3>1. UNCHANGED <<oldest, oldestSeq>>
      BY <1>1, <2>3 DEF LoadForOldest
    <3>2. \A i \in Slots : (wpc' = "scanReady" => i < wi') => i < wi \/ i = wi
      BY <1>1, <2>1, StoreAssumption DEF LoadForOldest, Slots
    <3>3. QED
      BY <2>1, <2>3, <3>1, <3>2
  <2>4. QED
    BY <2>2, <2>3
<1>2. CASE PublishBegin \/ LoadForEmpty \/ CasEmpty
  BY <1>2 DEF PublishBegin, BeginPass, LoadForEmpty, NextOfEmptyScan, CasEmpty, slotVars,
     IndInv, TypeOK, WriterOwnership
<1>3. CASE CasOldest
  BY <1>3 DEF CasOldest, Rescan, BeginPass
<1>4. CASE CompileOk \/ CompileFail \/ StoreSeq \/ StorePublished \/ StoreReady
           \/ RestoreEmpty
  BY <1>4 DEF CompileOk, CompileFail, StoreSeq, StorePublished, StoreReady, RestoreEmpty,
     EndPublish
<1>5. CASE Reader
  <2>1. /\ UNCHANGED <<seq, wpc, wi, oldest, oldestSeq>>
        /\ \A i \in Slots : state'[i] = "READY" => state[i] = "READY"
    BY <1>5 DEF Reader, Acquire, AcquireBegin, LoadState, LoadSeq, CasBest, ReloadSeq,
       SwapHeld, Release, slotVars, writerVars, IndInv, TypeOK
  <2>2. QED
    BY <2>1
<1>6. CASE UNCHANGED vars
  BY <1>6 DEF vars, slotVars, writerVars
<1>7. QED
  BY <1>1, <1>2, <1>3, <1>4, <1>5, <1>6 DEF Next, Writer

\* When the reader takes another slot than n its last chance to do so is gone.
LEMMA ReaderKeepsClaim ==
  ASSUME IndInv, SeqsDiffer, NewestPlanKept, NEW n \in Slots, Newest(n), wpc \in Claiming,
         TwoAreGone(n), LossIsLast(n), Reader
  PROVE  TwoAreGone(n)' /\ LossIsLast(n)'
<1> USE SlotsFacts
<1>1. UNCHANGED <<wpc, wi, pass, oldest, seq>>
  BY DEF Reader, Acquire, AcquireBegin, LoadState, LoadSeq, CasBest, ReloadSeq, SwapHeld,
     Release, slotVars, writerVars
<1>2. Stale(n)' => Stale(n)
  BY StaleFalls
<1>3. CASE CasBest /\ state' # state /\ best # n
  <2>1. Stale(n) /\ ~Stale(n)'
    BY <1>3, StaleFalls
  <2>2. best \in Slots /\ \A i \in Slots : i # best => state'[i] = state[i]
    BY <1>3 DEF CasBest, IndInv, TypeOK, ReaderOwnership
  <2>3. PICK a \in Slots : \A i \in Slots \ {n} : Gone(i) => i = a
    BY <2>1 DEF TwoAreGone
  <2>4. \A i \in Slots \ {n} : Gone(i)' => i \in {a, best}
    BY <1>1, <2>2, <2>3 DEF Gone
  <2>5. TwoAreGone(n)'
    BY <2>1, <2>2, <2>4 DEF TwoAreGone
  <2>6. LossIsLast(n)'
    BY <1>1, <2>1 DEF LossIsLast
  <2>7. QED
    BY <2>5, <2>6
<1>4. CASE ~(CasBest /\ state' # state /\ best # n)
  <2>1. \A i \in Slots \ {n} :
          \/ state'[i] = state[i]
          \/ state[i] = "READING" /\ state'[i] = "EMPTY"
    BY <1>4 DEF Reader, Acquire, AcquireBegin, LoadState, LoadSeq, CasBest, ReloadSeq,
       SwapHeld, Release, slotVars, writerVars, IndInv, TypeOK, ReaderOwnership
  <2>2. \A i \in Slots \ {n} : Gone(i)' => Gone(i)
    BY <1>1, <2>1 DEF Gone
  <2>3. TwoAreGone(n)'
    BY <1>2, <2>2 DEF TwoAreGone
  <2>4. oldest \in Slots \cup {None}
    BY DEF IndInv, TypeOK
  <2>5. LossIsLast(n)'
    BY <1>1, <1>2, <2>1, <2>4 DEF LossIsLast
  <2>6. QED
    BY <2>3, <2>5
<1>5. QED
  BY <1>3, <1>4

\* A pass begins with what the reader has in its hands.
LEMMA PassBegins ==
  ASSUME IndInv, NEW n \in Slots, BeginPass, UNCHANGED <<slotVars, readerVars>>
  PROVE  TwoAreGone(n)'
<1> USE SlotsFacts DEF slotVars, readerVars
<1> DEFINE a == IF held = None THEN 0 ELSE held
           b == IF rpc \in {"reload", "swap"} THEN best ELSE a
<1>1. a \in Slots /\ b \in Slots
  BY DEF IndInv, TypeOK, ReaderOwnership
<1>2. \A i \in Slots : Gone(i)' => i \in {a, b}
  <2>1. \A i \in Slots : Gone(i)' => state[i] = "READING"
    BY DEF Gone, BeginPass, SecondScan
  <2>2. QED
    BY <2>1 DEF IndInv, TypeOK, ReaderOwnership
<1>3. Stale(n)' => a = b
  BY DEF Stale
<1> HIDE DEF a, b
<1>4. QED
  BY <1>1, <1>2, <1>3 DEF TwoAreGone

\* The writer passes no slot by that the reader has left alone.
LEMMA WriterKeepsClaim ==
  ASSUME FourSlots, IndInv, KeepInv, Writer, wpc' \in Claiming,
         NEW n \in Slots, Newest(n)'
  PROVE  TwoAreGone(n)' /\ LossIsLast(n)'
<1> USE SlotsFacts DEF Claiming
<1>1. CASE PublishBegin
  <2>1. TwoAreGone(n)'
    BY <1>1, PassBegins DEF PublishBegin
  <2>2. QED
    BY <1>1, <2>1 DEF PublishBegin, BeginPass, LossIsLast, SecondScan
<1>2. CASE LoadForEmpty
  <2>1. /\ TwoAreGone(n) /\ LossIsLast(n) /\ oldest = None
        /\ UNCHANGED <<state, seq, readerVars, pass, oldest>>
        /\ wpc = "scanEmpty" /\ wi \in Slots
    BY <1>2 DEF LoadForEmpty, slotVars, KeepInv, ClaimInv, OldestIsOldest, Newest, NewestReady,
       writerVars, IndInv, TypeOK, NextOfEmptyScan
  <2>2. \A i \in Slots : Gone(i)' => Gone(i)
    BY <1>2, <2>1, StoreAssumption DEF LoadForEmpty, NextOfEmptyScan, Gone, SecondScan, Slots
  <2>3. Stale(n)' = Stale(n)
    BY <2>1 DEF Stale, readerVars
  <2>4. QED
    BY <2>1, <2>2, <2>3 DEF TwoAreGone, LossIsLast
<1>3. CASE CasEmpty
  BY <1>3 DEF CasEmpty, IndInv, WriterOwnership
<1>4. CASE LoadForOldest
  <2>1. /\ TwoAreGone(n) /\ LossIsLast(n)
        /\ UNCHANGED <<state, seq, readerVars, pass>>
        /\ wpc = "scanReady" /\ wpc' \in SecondScan
        /\ oldest' = oldest \/ state[oldest'] = "READY"
    BY <1>4 DEF LoadForOldest, slotVars, KeepInv, ClaimInv, Newest, NewestReady, SecondScan
  <2>2. \A i \in Slots : Gone(i)' = Gone(i)
    BY <2>1 DEF Gone, SecondScan
  <2>3. Stale(n)' = Stale(n)
    BY <2>1 DEF Stale, readerVars
  <2>4. QED
    BY <2>1, <2>2, <2>3 DEF TwoAreGone, LossIsLast, SecondScan
<1>5. CASE CasOldest
  <2>1. /\ TwoAreGone(n) /\ LossIsLast(n) /\ Newest(n) /\ wpc = "casReady"
        /\ UNCHANGED <<seq, readerVars>>
    BY <1>5 DEF CasOldest, KeepInv, ClaimInv, Newest, NewestReady
  <2>2. oldest \in Slots /\ oldest # n
    BY <2>1, OldestIsNotNewest DEF KeepInv
  <2>3. state[oldest] # "READY" /\ Rescan /\ state' = state
    BY <1>5, <2>2 DEF CasOldest
  <2>4. pass = 0 /\ ~Stale(n)
    BY <2>1, <2>2, <2>3 DEF LossIsLast, SecondScan
  <2>5. BeginPass /\ UNCHANGED <<slotVars, readerVars>>
    BY <1>5, <2>3 DEF CasOldest, Rescan, slotVars
  <2>6. TwoAreGone(n)'
    BY <2>5, PassBegins
  <2>7. ~Stale(n)'
    BY <2>1, <2>4 DEF Stale, readerVars
  <2>8. QED
    BY <2>5, <2>6, <2>7 DEF LossIsLast, BeginPass, SecondScan
<1>6. CASE CompileOk \/ CompileFail \/ StoreSeq \/ StorePublished \/ StoreReady
           \/ RestoreEmpty
  BY <1>6 DEF CompileOk, CompileFail, StoreSeq, StorePublished, StoreReady, RestoreEmpty,
     EndPublish
<1>7. QED
  BY <1>1, <1>2, <1>3, <1>4, <1>5, <1>6 DEF Writer

\* Before the first plan is published every slot is EMPTY, and the first is claimed.
LEMMA BeforeFirstInd == ASSUME IndInv, BeforeFirst, [Next]_vars PROVE BeforeFirst'
<1> USE SlotsFacts DEF BeforeFirst, Claiming, SecondScan, NewestReady
<1>1. CASE PublishBegin
  BY <1>1 DEF PublishBegin, BeginPass
<1>2. CASE LoadForEmpty
  <2>1. /\ wpc = "scanEmpty" /\ UNCHANGED <<publishedSeq, pass>>
        /\ wi \in Slots /\ wpc' \in {"casEmpty", "scanEmpty", "scanReady"}
        /\ publishedSeq \in Nat
    BY <1>2 DEF LoadForEmpty, NextOfEmptyScan, IndInv, TypeOK
  <2>2. publishedSeq = 0 => state[wi] = "EMPTY"
    BY <2>1 DEF IndInv, TypeOK, SlotState, WriterOwnership, WriterOwns, SeqInv, Published
  <2>3. publishedSeq = 0 => wpc' = "casEmpty" /\ wi' = wi
    BY <1>2, <2>2 DEF LoadForEmpty
  <2>4. QED
    BY <2>1, <2>3
<1>3. CASE CasEmpty
  BY <1>3 DEF CasEmpty, IndInv, WriterOwnership
<1>4. CASE LoadForOldest
  BY <1>4 DEF LoadForOldest
<1>5. CASE CasOldest
  BY <1>5 DEF CasOldest, Rescan, BeginPass
<1>6. CASE CompileOk \/ CompileFail \/ StoreSeq \/ StorePublished \/ StoreReady
           \/ RestoreEmpty
  BY <1>6 DEF CompileOk, CompileFail, StoreSeq, StorePublished, StoreReady, RestoreEmpty,
     EndPublish
<1>7. CASE Reader
  BY <1>7 DEF Reader, Acquire, AcquireBegin, LoadState, LoadSeq, CasBest, ReloadSeq,
     SwapHeld, Release, writerVars
<1>8. CASE UNCHANGED vars
  BY <1>8 DEF vars, writerVars
<1>9. QED
  BY <1>1, <1>2, <1>3, <1>4, <1>5, <1>6, <1>7, <1>8 DEF Next, Writer

\* While a slot is being claimed the newest plan is in a slot.
LEMMA NewestExists ==
  ASSUME IndInv, NewestInSlot, wpc = "casReady", NewestReady > 0
  PROVE  \E n \in Slots : Newest(n)
BY DEF NewestInSlot, Newest

\* Neither thread takes the newest plan out of its slot.
LEMMA KeptInd ==
  ASSUME FourSlots, IndInv, KeepInv, [Next]_vars PROVE NewestPlanKept'
<1> USE SlotsFacts DEF NewestPlanKept, Published
<1>1. CASE Reader
  <2>1. UNCHANGED <<seq, plan, NewestReady>>
    BY <1>1 DEF Reader, Acquire, AcquireBegin, LoadState, LoadSeq, CasBest, ReloadSeq,
       SwapHeld, Release, slotVars, writerVars, NewestReady
  <2>2. CASE Release
    BY <2>2 DEF Release
  <2>3. CASE Acquire
    <3>1. SUFFICES ASSUME NewestReady > 0, rpc # "finished",
                          NEW n \in Slots, plan[n] = NewestReady, seq[n] = NewestReady,
                          state[n] \in Published
                   PROVE  state'[n] \in Published
      <4>1. rpc # "finished"
        BY <2>3 DEF Acquire, AcquireBegin, LoadState, LoadSeq, CasBest, ReloadSeq, SwapHeld
      <4>2. QED
        BY <2>1, <3>1, <4>1 DEF KeepInv
    <3>2. CASE SwapHeld
      <4>1. seq[held] < seq[best] \/ held = None
        BY <3>2 DEF SwapHeld, IndInv, TypeOK, ReaderKnowledge, ReaderOwnership
      <4>2. held = None \/ seq[best] <= NewestReady
        BY <3>2 DEF SwapHeld, IndInv, TypeOK, SeqInv, ReaderOwnership
      <4>3. held # n
        <5>1. seq[n] \in Nat /\ (best \in Slots => seq[best] \in Nat)
          BY DEF IndInv, TypeOK
        <5>2. best \in Slots /\ n # None
          BY <3>2 DEF SwapHeld, IndInv, TypeOK, ReaderOwnership
        <5>3. QED
          BY <3>1, <4>1, <4>2, <5>1, <5>2
      <4>4. QED
        BY <3>1, <3>2, <4>3 DEF SwapHeld, IndInv, TypeOK
    <3>3. CASE CasBest
      BY <3>1, <3>3 DEF CasBest, IndInv, TypeOK
    <3>4. CASE AcquireBegin \/ LoadState \/ LoadSeq \/ ReloadSeq
      BY <3>1, <3>4 DEF AcquireBegin, LoadState, LoadSeq, ReloadSeq, slotVars
    <3>5. QED
      BY <2>3, <3>2, <3>3, <3>4 DEF Acquire
  <2>4. QED
    BY <1>1, <2>2, <2>3 DEF Reader
<1>2. CASE StoreReady
  <2>1. mine \in Slots /\ plan[mine] = nextSeq /\ seq[mine] = nextSeq
        /\ nextSeq = publishedSeq
    BY <1>2 DEF StoreReady, IndInv, WriterOwnership, WriterOwns, SeqInv
  <2>2. /\ UNCHANGED <<seq, plan, publishedSeq>> /\ state'[mine] = "READY"
        /\ NewestReady' = publishedSeq
    BY <1>2, <2>1 DEF StoreReady, EndPublish, IndInv, TypeOK, NewestReady
  <2>3. QED
    BY <2>1, <2>2
<1>3. CASE Writer /\ ~StoreReady
  <2>1. SUFFICES ASSUME NewestReady > 0, NEW n \in Slots, plan[n] = NewestReady,
                        seq[n] = NewestReady, state[n] \in Published
                 PROVE  /\ plan'[n] = NewestReady /\ seq'[n] = NewestReady
                        /\ state'[n] \in Published
    <3>1. NewestReady' = NewestReady /\ rpc' = rpc
      BY <1>3 DEF Writer, PublishBegin, BeginPass, LoadForEmpty, NextOfEmptyScan, CasEmpty,
         LoadForOldest, CasOldest, Rescan, CompileOk, CompileFail, StoreSeq, StorePublished,
         RestoreEmpty, EndPublish, NewestReady, readerVars, IndInv, TypeOK, SeqInv
    <3>2. QED
      BY <2>1, <3>1 DEF KeepInv
  <2>2. wpc \in WriterOwns => mine # n
    BY <2>1 DEF IndInv, WriterOwnership
  <2>3. CASE CasOldest
    <3>1. Newest(n) /\ TwoAreGone(n) /\ wpc = "casReady"
      BY <2>1, <2>3 DEF CasOldest, KeepInv, ClaimInv, Newest, Claiming
    <3>2. oldest # n /\ oldest \in Slots
      BY <3>1, OldestIsNotNewest DEF KeepInv
    <3>3. QED
      BY <2>1, <2>3, <3>2 DEF CasOldest, IndInv, TypeOK
  <2>4. CASE CasEmpty
    BY <2>1, <2>4 DEF CasEmpty, IndInv, TypeOK
  <2>5. CASE PublishBegin \/ LoadForEmpty \/ LoadForOldest \/ StorePublished
    BY <2>1, <2>5 DEF PublishBegin, LoadForEmpty, LoadForOldest, StorePublished, slotVars
  <2>6. CASE CompileOk \/ CompileFail \/ StoreSeq \/ RestoreEmpty
    BY <2>1, <2>2, <2>6 DEF CompileOk, CompileFail, StoreSeq, RestoreEmpty, EndPublish,
       WriterOwns, IndInv, TypeOK
  <2>7. QED
    BY <1>3, <2>3, <2>4, <2>5, <2>6 DEF Writer
<1>4. CASE UNCHANGED vars
  BY <1>4 DEF vars, slotVars, writerVars, readerVars, NewestReady, KeepInv
<1>5. QED
  BY <1>1, <1>2, <1>3, <1>4 DEF Next

\* A claim is lost in the first pass or never.
LEMMA PassesInd ==
  ASSUME FourSlots, IndInv, KeepInv, [Next]_vars PROVE AtMostTwoPasses'
<1> USE SlotsFacts DEF AtMostTwoPasses
<1>1. CASE CasOldest
  <2>1. wpc = "casReady" /\ pass \in Nat
    BY <1>1 DEF CasOldest, IndInv, TypeOK
  <2>2. PICK n \in Slots : Newest(n)
    <3>1. NewestReady > 0
      BY <2>1 DEF KeepInv, BeforeFirst, Claiming, SecondScan, IndInv, TypeOK, NewestReady
    <3>2. QED
      BY <2>1, <3>1, NewestExists DEF KeepInv
  <2>3. TwoAreGone(n) /\ LossIsLast(n)
    BY <2>1, <2>2 DEF KeepInv, ClaimInv, Claiming
  <2>4. oldest \in Slots /\ oldest # n
    BY <2>1, <2>2, <2>3, OldestIsNotNewest DEF KeepInv
  <2>5. CASE state[oldest] = "READY"
    BY <1>1, <2>4, <2>5 DEF CasOldest, KeepInv
  <2>6. CASE state[oldest] # "READY"
    <3>1. pass = 0
      BY <2>1, <2>3, <2>4, <2>6 DEF LossIsLast, SecondScan
    <3>2. Rescan
      BY <1>1, <2>4, <2>6 DEF CasOldest
    <3>3. QED
      BY <3>1, <3>2 DEF Rescan
  <2>7. QED
    BY <2>5, <2>6
<1>2. CASE Writer /\ ~CasOldest
  BY <1>2 DEF Writer, PublishBegin, LoadForEmpty, CasEmpty, LoadForOldest, CompileOk,
     CompileFail, StoreSeq, StorePublished, StoreReady, RestoreEmpty, EndPublish, KeepInv
<1>3. CASE Reader
  BY <1>3 DEF Reader, Acquire, AcquireBegin, LoadState, LoadSeq, CasBest, ReloadSeq,
     SwapHeld, Release, writerVars, KeepInv
<1>4. CASE UNCHANGED vars
  BY <1>4 DEF vars, writerVars, KeepInv
<1>5. QED
  BY <1>1, <1>2, <1>3, <1>4 DEF Next

\* Either thread's step keeps the count.
LEMMA ClaimInd ==
  ASSUME FourSlots, IndInv, KeepInv, [Next]_vars PROVE ClaimInv'
<1> SUFFICES ASSUME wpc' \in Claiming, NEW n \in Slots, Newest(n)'
             PROVE  TwoAreGone(n)' /\ LossIsLast(n)'
  BY SlotsFacts DEF ClaimInv
<1>1. CASE Writer
  BY <1>1, WriterKeepsClaim
<1>2. CASE Reader
  <2>1. UNCHANGED <<wpc, publishedSeq, seq>>
    BY <1>2 DEF Reader, Acquire, AcquireBegin, LoadState, LoadSeq, CasBest, ReloadSeq,
       SwapHeld, Release, slotVars, writerVars
  <2>2. wpc \in Claiming /\ Newest(n)
    BY <2>1 DEF Newest, NewestReady
  <2>3. TwoAreGone(n) /\ LossIsLast(n)
    BY <2>2 DEF KeepInv, ClaimInv
  <2>4. QED
    BY <1>2, <2>2, <2>3, ReaderKeepsClaim DEF KeepInv
<1>3. CASE UNCHANGED vars
  BY <1>3 DEF vars, slotVars, writerVars, readerVars, KeepInv, ClaimInv, Newest, NewestReady,
     TwoAreGone, LossIsLast, Gone, Stale
<1>4. QED
  BY <1>1, <1>2, <1>3 DEF Next

LEMMA KeepInit == Init => KeepInv
BY SlotsFacts DEF Init, KeepInv, SeqsDiffer, SeqsBehind, NewestInSlot, NewestPlanKept,
   AtMostTwoPasses, BeforeFirst, OldestIsOldest, ClaimInv, Claiming, SecondScan, NewestReady

LEMMA KeepInd ==
  ASSUME FourSlots, IndInv, KeepInv, [Next]_vars PROVE KeepInv'
<1>1. SeqsDiffer' /\ SeqsBehind' /\ NewestInSlot'
  BY SeqsInd DEF KeepInv
<1>2. BeforeFirst' /\ OldestIsOldest'
  BY BeforeFirstInd, OldestInd DEF KeepInv
<1>3. NewestPlanKept' /\ AtMostTwoPasses' /\ ClaimInv'
  BY KeptInd, PassesInd, ClaimInd
<1>4. QED
  BY <1>1, <1>2, <1>3 DEF KeepInv

\* The strengthened invariant holds in every reachable state.
THEOREM StoreClaims == FourSlots => (Spec => []KeepInv)
<1> SUFFICES ASSUME FourSlots PROVE Spec => []KeepInv
  OBVIOUS
<1>1. IndInv /\ KeepInv /\ [Next]_vars => KeepInv'
  BY KeepInd
<1>2. QED
  BY <1>1, KeepInit, StoreInvariant, PTL DEF Spec

\* Neither thread ever loses the newest plan: it is READY or READING until a newer one is
\* published, however the reader's ticks fall between the steps of claim_slot.
THEOREM StoreKeepsNewestPlan == FourSlots => (Spec => []NewestPlanKept)
<1> SUFFICES ASSUME FourSlots PROVE Spec => []NewestPlanKept
  OBVIOUS
<1>1. KeepInv => NewestPlanKept
  BY DEF KeepInv
<1>2. Spec => []KeepInv
  BY StoreClaims
<1>3. QED
  BY <1>1, <1>2, PTL

\* So claim_slot loses at most one compare-exchange to the reader and never gives up: the
\* 1024 passes it allows itself are more than enough.
THEOREM StoreMakesAtMostTwoPasses == FourSlots => (Spec => []AtMostTwoPasses)
<1> SUFFICES ASSUME FourSlots PROVE Spec => []AtMostTwoPasses
  OBVIOUS
<1>1. KeepInv => AtMostTwoPasses
  BY DEF KeepInv
<1>2. Spec => []KeepInv
  BY StoreClaims
<1>3. QED
  BY <1>1, <1>2, PTL

-----------------------------------------------------------------------------
(***************************************************************************)
(* The freshness of an acquire.                                            *)
(***************************************************************************)

Scanning == {"loadState", "loadSeq"}

\* The acquire in progress began after a plan was published, and no publication has
\* stored its number since.
Quiet == rpc \in Scanning \cup {"cas", "reload", "swap"} /\ ~seqStored /\ atStart > 0

\* The publication that was under way when the acquire began may complete, no other.
OneMayComplete ==
  Quiet => /\ NewestReady \in {atStart, atStart + 1}
           /\ wpc \in {"storePublished", "storeReady"} => NewestReady = atStart
           /\ \E n \in Slots : seq[n] = atStart

\* What the scan is to find stays where it is until the reader claims a slot.
FreshStay ==
  Quiet /\ rpc \in Scanning \cup {"cas"} =>
    \A i \in Slots : atStart <= seq[i] /\ seq[i] <= NewestReady => state[i] \in Published

\* The scan notes published plans only.
ScanSawPublished ==
  Quiet => /\ rpc = "loadSeq" => seq[ri] <= NewestReady
           /\ best # None => seq[best] <= NewestReady

\* The reader has a plan as new as that, or has noted one, or has its slot still ahead.
FreshIsAhead ==
  Quiet => \/ heldSeq >= atStart
           \/ best # None /\ bestSeq >= atStart
           \/ rpc \in Scanning /\ \E n \in Slots : seq[n] = atStart /\ n >= ri

\* A claim that began after the acquire passes no EMPTY slot by: the reader frees none.
LaterClaimSeesAll ==
  Quiet /\ rpc \in Scanning \cup {"cas"} /\ NewestReady = atStart + 1 /\ wpc \in Claiming =>
    \A i \in Slots : state[i] = "EMPTY" => wpc \notin SecondScan /\ i >= wi

\* The scan starts with nothing noted.
ScanStartsBlank == rpc \in {"idle", "finished"} => best = None

\* The inductive invariant, on top of IndInv and KeepInv.
FreshInv == /\ ScanStartsBlank /\ OneMayComplete /\ FreshStay /\ ScanSawPublished /\ FreshIsAhead
            /\ LaterClaimSeesAll

\* In an acquire no slot is READING but the held one until the reader has claimed one.
LEMMA OnlyHeldIsReading ==
  ASSUME IndInv, rpc \notin {"reload", "swap"}, NEW i \in Slots, state[i] = "READING"
  PROVE  i = held /\ heldSeq = seq[i]
BY SlotsFacts DEF IndInv, ReaderOwnership, ReaderKnowledge

\* An acquire begins with the newest plan in a slot ahead of its scan.
LEMMA FreshBegins ==
  ASSUME IndInv, KeepInv, ScanStartsBlank, AcquireBegin PROVE FreshInv'
<1> USE SlotsFacts DEF slotVars, writerVars
<1>a. best = None /\ ScanStartsBlank'
  BY DEF AcquireBegin, ScanStartsBlank
<1>1. /\ rpc = "idle" /\ rpc' = "loadState" /\ ri' = 0 /\ atStart' = NewestReady
      /\ UNCHANGED <<state, seq, plan, wpc, wi, publishedSeq, best, bestSeq, held, heldSeq>>
      /\ NewestReady' = NewestReady /\ NewestReady \in Int
      /\ \A i \in Slots : seq[i] \in Nat
  BY DEF AcquireBegin, NewestReady, IndInv, TypeOK
<1>2. SUFFICES ASSUME Quiet' PROVE FreshInv'
  BY <1>1, <1>a DEF FreshInv, OneMayComplete, FreshStay, ScanSawPublished, FreshIsAhead,
     LaterClaimSeesAll
<1>3. NewestReady > 0
  BY <1>1, <1>2 DEF Quiet
<1>4. PICK n \in Slots : seq[n] = NewestReady
  BY <1>1, <1>3 DEF KeepInv, NewestPlanKept
<1>5. OneMayComplete'
  BY <1>1, <1>4 DEF OneMayComplete
<1>6. FreshStay'
  <2>1. \A i \in Slots : seq[i] = NewestReady => state[i] \in Published
    BY <1>1, <1>3, NewestIsThere DEF KeepInv, Newest
  <2>2. QED
    BY <1>1, <2>1 DEF FreshStay
<1>7. ScanSawPublished'
  BY <1>1, <1>a DEF ScanSawPublished
<1>8. FreshIsAhead'
  BY <1>1, <1>4 DEF FreshIsAhead, Scanning
<1>9. LaterClaimSeesAll'
  BY <1>1 DEF LaterClaimSeesAll
<1>10. QED
  BY <1>a, <1>5, <1>6, <1>7, <1>8, <1>9 DEF FreshInv

\* The slot of the plan the scan is to find is READY, unless the reader holds that plan.
LEMMA FreshIsReady ==
  ASSUME IndInv, FreshInv, Quiet, rpc \in Scanning, ~(heldSeq >= atStart),
         NEW n \in Slots, seq[n] = atStart
  PROVE  state[n] = "READY"
<1>1. atStart \in Nat /\ heldSeq \in Nat /\ atStart <= NewestReady
  BY DEF FreshInv, OneMayComplete, IndInv, TypeOK
<1>2. state[n] \in Published
  BY <1>1 DEF FreshInv, FreshStay
<1>3. rpc \notin {"reload", "swap"}
  BY DEF Scanning
<1>4. QED
  BY <1>1, <1>2, <1>3, OnlyHeldIsReading DEF Published

\* The scan does not pass that plan by without noting it or one as new.
LEMMA FreshScans ==
  ASSUME IndInv, FreshInv, LoadState \/ LoadSeq PROVE FreshInv'
<1> USE SlotsFacts DEF slotVars, writerVars
<1>a. ScanStartsBlank'
  BY DEF LoadState, LoadSeq, NextOfScan, EndAcquire, ScanStartsBlank
<1>1. CASE rpc' = "idle"
  BY <1>1, <1>a DEF FreshInv, OneMayComplete, FreshStay, ScanSawPublished, FreshIsAhead,
     LaterClaimSeesAll, Quiet, Scanning
<1>2. CASE rpc' # "idle"
  <2>1. /\ rpc \in Scanning /\ rpc' \in Scanning \cup {"cas"}
        /\ UNCHANGED <<state, seq, wpc, wi, publishedSeq, held, heldSeq, atStart, seqStored>>
        /\ NewestReady' = NewestReady
    BY <1>2 DEF LoadState, LoadSeq, NextOfScan, EndAcquire, history, Scanning, NewestReady
  <2>2. SUFFICES ASSUME Quiet, Quiet' PROVE FreshInv'
    BY <1>a, <2>1 DEF FreshInv, OneMayComplete, FreshStay, ScanSawPublished, FreshIsAhead,
       LaterClaimSeesAll, Quiet
  <2>3. OneMayComplete' /\ FreshStay' /\ LaterClaimSeesAll'
    BY <2>1, <2>2 DEF FreshInv, OneMayComplete, FreshStay, LaterClaimSeesAll
  <2>4. ScanSawPublished'
    <3>1. rpc = "loadState" /\ state[ri] = "READY" => seq[ri] <= NewestReady
      BY DEF IndInv, TypeOK, SeqInv, Published
    <3>2. QED
      BY <2>1, <2>2, <3>1 DEF FreshInv, ScanSawPublished, LoadState, LoadSeq, NextOfScan,
         EndAcquire
  <2>5. FreshIsAhead'
    <3>1. /\ heldSeq \in Nat /\ bestSeq \in Nat /\ ri \in Slots /\ ri \in Nat
          /\ atStart \in Nat /\ best \in Slots \cup {None}
          /\ \A i \in Slots : seq[i] \in Nat /\ i \in Nat
      BY DEF IndInv, TypeOK
    <3>2. SUFFICES ASSUME ~(heldSeq >= atStart) PROVE FreshIsAhead'
      BY <2>1 DEF FreshIsAhead
    <3>3. CASE best # None /\ bestSeq >= atStart
      BY <2>1, <2>2, <3>1, <3>3 DEF FreshIsAhead, LoadState, LoadSeq, NextOfScan, EndAcquire
    <3>4. CASE ~(best # None /\ bestSeq >= atStart)
      <4>1. PICK n \in Slots : seq[n] = atStart /\ n >= ri
        BY <2>2, <3>2, <3>4 DEF FreshInv, FreshIsAhead
      <4>2. state[n] = "READY"
        BY <2>1, <2>2, <3>2, <4>1, FreshIsReady
      <4>3. CASE n = ri
        <5>1. rpc = "loadState" => rpc' = "loadSeq" /\ ri' = ri
          BY <4>2, <4>3 DEF LoadState, LoadSeq
        <5>2. rpc = "loadSeq" => best' = ri /\ bestSeq' = seq[ri]
          BY <1>2, <3>1, <3>4, <4>1, <4>3 DEF LoadState, LoadSeq, NextOfScan, EndAcquire
        <5>3. QED
          BY <2>1, <3>1, <4>1, <4>3, <5>1, <5>2 DEF FreshIsAhead, Scanning
      <4>4. CASE n # ri
        <5>1. ri + 1 \in Slots /\ n >= ri + 1
          BY <3>1, <4>1, <4>4, StoreAssumption DEF Slots
        <5>2. rpc' \in Scanning /\ ri' \in {ri, ri + 1}
          BY <5>1 DEF LoadState, LoadSeq, NextOfScan, Scanning
        <5>3. QED
          BY <2>1, <3>1, <4>1, <5>1, <5>2 DEF FreshIsAhead
      <4>5. QED
        BY <4>3, <4>4
    <3>5. QED
      BY <3>3, <3>4
  <2>6. QED
    BY <1>a, <2>3, <2>4, <2>5 DEF FreshInv
<1>3. QED
  BY <1>1, <1>2

\* Behind the scan the reader works on what it noted.
LEMMA FreshReads ==
  ASSUME IndInv, FreshInv, CasBest \/ ReloadSeq \/ SwapHeld \/ Release PROVE FreshInv'
<1> USE SlotsFacts DEF slotVars, writerVars
<1>a. ScanStartsBlank'
  BY DEF CasBest, ReloadSeq, SwapHeld, Release, EndAcquire, FreshInv, ScanStartsBlank
<1>1. CASE rpc' \in {"idle", "finished"}
  BY <1>1, <1>a DEF FreshInv, OneMayComplete, FreshStay, ScanSawPublished, FreshIsAhead,
     LaterClaimSeesAll, Quiet, Scanning
<1>2. CASE rpc' \notin {"idle", "finished"}
  <2>1. /\ rpc \in {"cas", "reload"} /\ rpc' \in {"reload", "swap"}
        /\ UNCHANGED <<seq, wpc, publishedSeq, best, bestSeq, heldSeq, atStart, seqStored>>
        /\ NewestReady' = NewestReady
    BY <1>2 DEF CasBest, ReloadSeq, SwapHeld, Release, EndAcquire, history, NewestReady
  <2>2. QED
    BY <1>a, <2>1 DEF FreshInv, OneMayComplete, FreshStay, ScanSawPublished, FreshIsAhead,
       LaterClaimSeesAll, Quiet, Scanning
<1>3. QED
  BY <1>1, <1>2

\* While the acquire scans, the oldest slot a claim chose is older than what it is to find.
LEMMA ClaimTakesOlder ==
  ASSUME FourSlots, IndInv, KeepInv, FreshInv, Quiet, rpc \in Scanning \cup {"cas"},
         wpc = "casReady", NEW n \in Slots, atStart <= seq[n], seq[n] <= NewestReady
  PROVE  oldest \in Slots /\ oldest # n
<1> USE SlotsFacts
<1>1. /\ NewestReady \in {atStart, atStart + 1} /\ atStart \in Nat /\ atStart > 0
      /\ \A i \in Slots : seq[i] \in Nat
  BY DEF FreshInv, OneMayComplete, Quiet, IndInv, TypeOK
<1>2. CASE NewestReady = atStart
  <2>1. Newest(n)
    BY <1>1, <1>2 DEF Newest
  <2>2. QED
    BY <2>1, OldestIsNotNewest DEF KeepInv, ClaimInv, Claiming
<1>3. CASE NewestReady = atStart + 1
  <2>1. PICK p \in Slots : seq[p] = atStart
    BY DEF FreshInv, OneMayComplete
  <2>2. PICK m \in Slots : Newest(m)
    BY <1>1, NewestExists DEF KeepInv
  <2>3. PICK j \in Slots : j \notin {p, m, held}
    <3>1. {0, 1, 2, 3} \subseteq Slots
      BY StoreAssumption DEF FourSlots, Slots
    <3>2. QED
      BY <3>1
  <2>4. state[j] = "READY"
    <3>1. state[j] # "READING"
      BY <2>3, OnlyHeldIsReading DEF Scanning
    <3>2. state[j] # "EMPTY"
      BY <1>3 DEF FreshInv, LaterClaimSeesAll, Claiming, SecondScan
    <3>3. state[j] # "WRITING"
      BY DEF IndInv, WriterOwnership, WriterOwns
    <3>4. QED
      BY <3>1, <3>2, <3>3 DEF IndInv, TypeOK, SlotState
  <2>5. oldest # None /\ oldestSeq = seq[oldest] /\ oldestSeq <= seq[j]
    BY <2>4 DEF KeepInv, OldestIsOldest, SecondScan
  <2>6. oldest \in Slots
    BY <2>5 DEF IndInv, TypeOK
  <2>7. seq[j] < atStart
    <3>1. seq[j] <= NewestReady
      BY <2>4 DEF IndInv, SeqInv, Published
    <3>2. seq[j] # seq[p] /\ seq[j] # seq[m]
      BY <1>1, <2>1, <2>2, <2>3 DEF KeepInv, SeqsDiffer, Newest
    <3>3. QED
      BY <1>1, <1>3, <2>1, <2>2, <3>1, <3>2 DEF Newest
  <2>8. QED
    BY <1>1, <2>5, <2>6, <2>7
<1>4. QED
  BY <1>1, <1>2, <1>3

\* Until a number is stored the writer leaves what the scan is to find where it is.
LEMMA FreshWrites ==
  ASSUME FourSlots, IndInv, KeepInv, FreshInv, Writer PROVE FreshInv'
<1> USE SlotsFacts DEF readerVars, history, slotVars
<1>1. /\ UNCHANGED <<rpc, ri, best, bestSeq, held, heldSeq, atStart>>
      /\ NewestReady \in Int /\ atStart \in Nat /\ \A i \in Slots : seq[i] \in Nat
  BY DEF Writer, PublishBegin, LoadForEmpty, CasEmpty, LoadForOldest, CasOldest, CompileOk,
     CompileFail, StoreSeq, StorePublished, StoreReady, RestoreEmpty, IndInv, TypeOK,
     NewestReady
<1>a. ScanStartsBlank'
  BY <1>1 DEF FreshInv, ScanStartsBlank
<1>2. CASE StoreSeq
  <2>1. ~Quiet'
    BY <1>1, <1>2 DEF StoreSeq, Quiet, Scanning
  <2>2. QED
    BY <1>a, <2>1 DEF FreshInv, OneMayComplete, FreshStay, ScanSawPublished, FreshIsAhead,
       LaterClaimSeesAll
<1>3. CASE ~StoreSeq
  <2>1. UNCHANGED <<seq, seqStored>> /\ Quiet' = Quiet
    BY <1>1, <1>3 DEF Writer, PublishBegin, LoadForEmpty, CasEmpty, LoadForOldest, CasOldest,
       CompileOk, CompileFail, StorePublished, StoreReady, RestoreEmpty, EndPublish, Quiet
  <2>2. SUFFICES ASSUME Quiet PROVE FreshInv'
    BY <1>a, <2>1 DEF FreshInv, OneMayComplete, FreshStay, ScanSawPublished, FreshIsAhead,
       LaterClaimSeesAll
  <2>3. /\ NewestReady' = NewestReady \/ (StoreReady /\ NewestReady' = NewestReady + 1)
        /\ wpc' \in {"storePublished", "storeReady"} =>
             wpc \in {"storePublished", "storeReady"} /\ NewestReady' = NewestReady
        /\ StoreReady => wpc = "storeReady"
        /\ NewestReady <= NewestReady'
    <3>1. CASE StoreReady
      BY <3>1 DEF StoreReady, EndPublish, NewestReady, IndInv, TypeOK
    <3>2. CASE StorePublished
      BY <3>2 DEF StorePublished, StoreReady, NewestReady, IndInv, TypeOK, SeqInv
    <3>3. CASE ~StoreReady /\ ~StorePublished
      <4>1. /\ publishedSeq' = publishedSeq /\ publishedSeq \in Nat
            /\ wpc \notin {"storePublished", "storeReady"}
            /\ wpc' \notin {"storePublished", "storeReady"}
        BY <1>3, <3>3 DEF Writer, PublishBegin, BeginPass, LoadForEmpty, NextOfEmptyScan,
           CasEmpty, LoadForOldest, CasOldest, Rescan, CompileOk, CompileFail, RestoreEmpty,
           EndPublish, IndInv, TypeOK
      <4>2. QED
        BY <3>3, <4>1 DEF NewestReady
    <3>4. QED
      BY <3>1, <3>2, <3>3
  <2>4. OneMayComplete'
    BY <1>1, <2>1, <2>2, <2>3 DEF FreshInv, OneMayComplete
  <2>5. ScanSawPublished'
    <3>1. /\ rpc = "loadSeq" => ri \in Slots
          /\ best \in Slots \cup {None}
      BY DEF IndInv, TypeOK
    <3>2. ASSUME NEW i \in Slots, seq[i] <= NewestReady PROVE seq[i] <= NewestReady'
      <4>1. NewestReady' \in Int /\ seq[i] \in Nat
        BY <1>1, <2>3
      <4>2. QED
        BY <1>1, <2>3, <3>2, <4>1
    <3>3. /\ rpc = "loadSeq" => seq[ri] <= NewestReady
          /\ best # None => seq[best] <= NewestReady
      BY <2>2 DEF FreshInv, ScanSawPublished
    <3>4. /\ rpc = "loadSeq" => seq[ri] <= NewestReady'
          /\ best # None => seq[best] <= NewestReady'
      BY <3>1, <3>2, <3>3
    <3>5. QED
      BY <1>1, <2>1, <3>4 DEF ScanSawPublished
  <2>6. FreshIsAhead'
    BY <1>1, <2>1, <2>2 DEF FreshInv, FreshIsAhead
  <2>7. FreshStay'
    <3> SUFFICES ASSUME rpc \in Scanning \cup {"cas"}, NEW i \in Slots, atStart <= seq[i],
                        seq[i] <= NewestReady'
                 PROVE  state'[i] \in Published
      BY <1>1, <2>1 DEF FreshStay
    <3>1. CASE StoreReady
      <4>1. mine \in Slots /\ seq[mine] = nextSeq /\ nextSeq = publishedSeq
            /\ NewestReady = publishedSeq - 1 /\ publishedSeq \in Nat
            /\ state' = [state EXCEPT ![mine] = "READY"]
        BY <3>1 DEF StoreReady, EndPublish, IndInv, TypeOK, WriterOwnership, WriterOwns,
           SeqInv, NewestReady
      <4>2. i # mine => seq[i] <= NewestReady
        BY <1>1, <2>2, <2>3, <4>1 DEF KeepInv, SeqsDiffer, Quiet
      <4>3. i # mine => state[i] \in Published
        BY <2>2, <4>2 DEF FreshInv, FreshStay
      <4>4. QED
        BY <4>1, <4>3 DEF IndInv, TypeOK, Published
    <3>2. CASE ~StoreReady
      <4>1. seq[i] <= NewestReady /\ state[i] \in Published
        BY <2>2, <2>3, <3>2 DEF FreshInv, FreshStay
      <4>2. CASE CasOldest
        <5>1. wpc = "casReady"
          BY <4>2 DEF CasOldest
        <5>2. oldest \in Slots /\ oldest # i
          BY <2>2, <4>1, <5>1, ClaimTakesOlder
        <5>3. QED
          BY <4>1, <4>2, <5>2 DEF CasOldest, IndInv, TypeOK
      <4>3. CASE CasEmpty
        BY <4>1, <4>3 DEF CasEmpty, IndInv, TypeOK, Published
      <4>4. CASE RestoreEmpty
        <5>1. mine \in Slots /\ state[mine] = "WRITING"
          BY <4>4 DEF RestoreEmpty, IndInv, WriterOwnership, WriterOwns
        <5>2. QED
          BY <4>1, <4>4, <5>1 DEF RestoreEmpty, EndPublish, IndInv, TypeOK, Published
      <4>5. CASE PublishBegin \/ LoadForEmpty \/ LoadForOldest \/ CompileOk \/ CompileFail
                 \/ StorePublished
        BY <4>1, <4>5 DEF PublishBegin, LoadForEmpty, LoadForOldest, CompileOk, CompileFail,
           StorePublished
      <4>6. QED
        BY <1>3, <3>2, <4>2, <4>3, <4>4, <4>5 DEF Writer
    <3>3. QED
      BY <3>1, <3>2
  <2>8. LaterClaimSeesAll'
    <3> SUFFICES ASSUME rpc \in Scanning \cup {"cas"}, NewestReady' = atStart + 1,
                        wpc' \in Claiming, NEW i \in Slots, state'[i] = "EMPTY"
                 PROVE  wpc' \notin SecondScan /\ i >= wi'
      BY <1>1, <2>1 DEF LaterClaimSeesAll
    <3>1. CASE PublishBegin
      BY <3>1 DEF PublishBegin, BeginPass, SecondScan
    <3>2. CASE CasOldest
      BY <3>2 DEF CasOldest, Rescan, BeginPass, SecondScan, Claiming
    <3>3. CASE LoadForEmpty \/ LoadForOldest
      <4>1. NewestReady = atStart + 1 /\ wpc \in Claiming /\ state' = state
            /\ wi \in Slots /\ i \in Nat /\ wi \in Nat
        BY <2>3, <3>3 DEF LoadForEmpty, LoadForOldest, StoreReady, Claiming, IndInv, TypeOK
      <4>2. wpc \notin SecondScan /\ i >= wi
        BY <2>2, <4>1 DEF FreshInv, LaterClaimSeesAll
      <4>3. state[wi] # "EMPTY" => i >= wi + 1 /\ wi + 1 \in Slots
        BY <4>1, <4>2, StoreAssumption DEF Slots
      <4>4. QED
        BY <3>3, <4>1, <4>2, <4>3 DEF LoadForEmpty, LoadForOldest, NextOfEmptyScan, SecondScan
    <3>4. CASE CasEmpty
      BY <3>4 DEF CasEmpty, Claiming, IndInv, WriterOwnership
    <3>5. CASE CompileOk \/ CompileFail \/ StorePublished \/ StoreReady \/ RestoreEmpty
      BY <3>5 DEF CompileOk, CompileFail, StorePublished, StoreReady, RestoreEmpty, EndPublish,
         Claiming
    <3>6. QED
      BY <1>3, <3>1, <3>2, <3>3, <3>4, <3>5 DEF Writer
  <2>9. QED
    BY <1>a, <2>4, <2>5, <2>6, <2>7, <2>8 DEF FreshInv
<1>4. QED
  BY <1>2, <1>3

LEMMA FreshInd ==
  ASSUME FourSlots, IndInv, KeepInv, FreshInv, [Next]_vars PROVE FreshInv'
<1>a. ScanStartsBlank
  BY DEF FreshInv
<1>1. CASE UNCHANGED vars
  BY <1>1 DEF vars, slotVars, writerVars, readerVars, history, FreshInv, ScanStartsBlank,
     OneMayComplete, FreshStay, ScanSawPublished, FreshIsAhead, LaterClaimSeesAll, Quiet, NewestReady
<1>2. QED
  BY <1>1, <1>a, FreshBegins, FreshScans, FreshReads, FreshWrites DEF Next, Reader, Acquire

\* An acquire ends with a plan at least as new as the newest at its start.
LEMMA AcquireEndsFresh ==
  ASSUME IndInv, FreshInv, [Next]_vars, rpc # "idle", rpc' = "idle", ~seqStored
  PROVE  heldSeq' >= atStart
<1> USE SlotsFacts
<1>1. LoadState \/ LoadSeq \/ CasBest \/ SwapHeld
  BY DEF Next, Writer, Reader, Acquire, AcquireBegin, ReloadSeq, Release, PublishBegin,
     LoadForEmpty, CasEmpty, LoadForOldest, CasOldest, CompileOk, CompileFail, StoreSeq,
     StorePublished, StoreReady, RestoreEmpty, readerVars, vars
<1>2. /\ heldSeq \in Nat /\ bestSeq \in Nat /\ atStart \in Nat /\ heldSeq' \in Nat
      /\ best \in Slots \cup {None} /\ ri \in Slots /\ \A i \in Slots : seq[i] \in Nat
  BY <1>1 DEF IndInv, TypeOK, LoadState, LoadSeq, CasBest, SwapHeld
<1>3. SUFFICES ASSUME atStart > 0 PROVE heldSeq' >= atStart
  BY <1>2
<1>4. Quiet
  BY <1>1, <1>3 DEF Quiet, Scanning, LoadState, LoadSeq, CasBest, SwapHeld
<1>5. CASE LoadState \/ LoadSeq
  <2>1. rpc \in Scanning /\ heldSeq' = heldSeq
    BY <1>5 DEF LoadState, LoadSeq, Scanning
  <2>2. SUFFICES ASSUME ~(heldSeq >= atStart) PROVE FALSE
    BY <2>1
  <2>3. CASE best # None /\ bestSeq >= atStart
    BY <1>2, <1>5, <2>2, <2>3 DEF LoadState, LoadSeq, NextOfScan
  <2>4. CASE ~(best # None /\ bestSeq >= atStart)
    <3>1. PICK n \in Slots : seq[n] = atStart /\ n >= ri
      BY <1>4, <2>2, <2>4 DEF FreshInv, FreshIsAhead
    <3>2. state[n] = "READY"
      BY <1>4, <2>1, <2>2, <3>1, FreshIsReady
    <3>3. CASE n = ri
      BY <1>2, <1>5, <2>2, <2>4, <3>1, <3>2, <3>3 DEF LoadState, LoadSeq, NextOfScan
    <3>4. CASE n # ri
      <4>1. ri + 1 \in Slots
        BY <1>2, <3>1, <3>4, StoreAssumption DEF Slots
      <4>2. QED
        BY <1>5, <4>1 DEF LoadState, LoadSeq, NextOfScan
    <3>5. QED
      BY <3>3, <3>4
  <2>5. QED
    BY <2>3, <2>4
<1>6. CASE CasBest
  <2>1. rpc = "cas" /\ state[best] # "READY" /\ best \in Slots /\ heldSeq' = heldSeq
    BY <1>2, <1>6 DEF CasBest, IndInv, ReaderOwnership
  <2>2. SUFFICES ASSUME ~(heldSeq >= atStart) PROVE FALSE
    BY <2>1
  <2>3. bestSeq >= atStart
    BY <1>4, <2>1, <2>2 DEF FreshInv, FreshIsAhead, Scanning
  <2>4. atStart <= seq[best] /\ seq[best] <= NewestReady
    BY <1>2, <1>4, <2>1, <2>3 DEF FreshInv, ScanSawPublished, IndInv, ReaderKnowledge
  <2>5. state[best] = "READING"
    BY <1>4, <2>1, <2>4 DEF FreshInv, FreshStay, Published
  <2>6. QED
    BY <1>2, <2>1, <2>2, <2>4, <2>5, OnlyHeldIsReading
<1>7. CASE SwapHeld
  <2>1. rpc = "swap" /\ heldSeq' = seq[best] /\ best \in Slots
    BY <1>2, <1>7 DEF SwapHeld, IndInv, ReaderKnowledge, ReaderOwnership
  <2>2. bestSeq <= seq[best] /\ (heldSeq < bestSeq \/ heldSeq = 0)
    BY <2>1 DEF IndInv, ReaderKnowledge
  <2>3. bestSeq >= atStart \/ heldSeq >= atStart
    BY <1>4, <2>1 DEF FreshInv, FreshIsAhead, Scanning
  <2>4. QED
    BY <1>2, <1>3, <2>1, <2>2, <2>3
<1>8. QED
  BY <1>1, <1>5, <1>6, <1>7

LEMMA FreshInit == Init => FreshInv
BY DEF Init, FreshInv, ScanStartsBlank, OneMayComplete, FreshStay, ScanSawPublished,
   FreshIsAhead, LaterClaimSeesAll, Quiet, Scanning

\* An acquire during which no publication stores its number ends with the newest plan there
\* was when it began, or a newer one.
THEOREM StoreAcquiresFresh == FourSlots => (Spec => AcquireIsFresh)
<1> SUFFICES ASSUME FourSlots PROVE Spec => AcquireIsFresh
  OBVIOUS
<1>1. IndInv /\ KeepInv /\ FreshInv /\ [Next]_vars => FreshInv'
  BY FreshInd
<1>2. IndInv /\ FreshInv /\ [Next]_vars =>
        [rpc # "idle" /\ rpc' = "idle" /\ ~seqStored => heldSeq' >= atStart]_vars
  BY AcquireEndsFresh
<1>3. Spec => []KeepInv
  BY StoreClaims
<1>4. QED
  BY <1>1, <1>2, <1>3, FreshInit, StoreInvariant, PTL DEF Spec, AcquireIsFresh
=============================================================================
