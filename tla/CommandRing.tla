---------------------------- MODULE CommandRing ----------------------------
(***************************************************************************)
(* The Lamport ring under sf_cmd_queue_enqueue and sf_cmd_queue_dequeue    *)
(* (native/src/core/command_queue.cpp): one producer thread, one consumer  *)
(* thread, no lock.  The indices are unsigned words that run on past the   *)
(* capacity and wrap; a slot is picked by masking.                         *)
(*                                                                         *)
(* A slot is copied in two halves, its number and what it commands, so a   *)
(* copy that overlaps another one shows as a mixed command.                *)
(***************************************************************************)
EXTENDS Integers, Sequences

CONSTANTS
  Commands,   \* what a command says, its number left out
  Capacity,   \* kCmdCapacity: 256 in the code
  Words,      \* values of an index: 2^32 in the code
  Start,      \* value of both indices at the start: 0 in the code
  MaxAccept   \* bound of the model: commands accepted per behaviour

\* The capacity and the word size are powers of two, so masking an index picks a
\* slot and goes on doing so when the index wraps.
ASSUME RingAssumption ==
  /\ Capacity \in Nat \ {0}
  /\ Words \in Nat /\ Words > Capacity /\ Words % Capacity = 0
  /\ Start \in 0 .. Words - 1
  /\ MaxAccept \in Nat

SlotIndices == 0 .. Capacity - 1
SlotOf(index) == index % Capacity            \* index & kCmdMask
AdvanceUnwrapped(index) == index + 1         \* mutant: a word that never wraps
Advance(index) == (index + 1) % Words
InFlightSigned(t, h) == t - h                \* mutant: no wrap-around
InFlight(t, h) == (t - h) % Words            \* tail - head on unsigned words
Blank == [seq |-> 0, cmd |-> "blank"]

VARIABLES
  head,      \* consumer's index, atomic
  tail,      \* producer's index, atomic
  slots,     \* the fixed slots, plain memory
  seqNext,   \* number of the next accepted command, producer only
  ppc, pcmd, phead,    \* enqueue: place, the caller's command, head as loaded
  cpc, ctail, out,     \* dequeue: place, tail as loaded, the caller's copy
  delivered            \* history: the commands dequeue returned, in order

ring     == <<head, tail, slots>>
producer == <<seqNext, ppc, pcmd, phead>>
consumer == <<cpc, ctail, out, delivered>>
vars == <<ring, producer, consumer>>

Init ==
  /\ head = Start /\ tail = Start
  /\ slots = [i \in SlotIndices |-> Blank]
  /\ seqNext = 1
  /\ ppc = "idle" /\ pcmd = "blank" /\ phead = 0
  /\ cpc = "idle" /\ ctail = 0 /\ out = Blank
  /\ delivered = <<>>

(***************************************************************************)
(* sf_cmd_queue_enqueue                                                    *)
(***************************************************************************)

\* The caller offers a command: load tail (the producer's own) and head.
EnqueueBegin(c) ==
  /\ ppc = "idle"
  /\ seqNext <= MaxAccept
  /\ pcmd' = c
  /\ phead' = head
  /\ ppc' = "check"
  /\ UNCHANGED <<ring, seqNext, consumer>>

Full == InFlight(tail, phead) >= Capacity

\* Mutant: a refused command uses up its number.
EnqueueRejectNumbered ==
  /\ ppc = "check" /\ Full
  /\ seqNext' = seqNext + 1
  /\ ppc' = "idle" /\ pcmd' = "blank" /\ phead' = 0
  /\ UNCHANGED <<ring, consumer>>

\* The ring was full when head was loaded: refuse, and give out no number.
EnqueueReject ==
  /\ ppc = "check" /\ Full
  /\ ppc' = "idle" /\ pcmd' = "blank" /\ phead' = 0
  /\ UNCHANGED <<ring, seqNext, consumer>>

\* Number the command and copy the first half of it into the slot.
CopyInSeq ==
  /\ ppc = "check" /\ ~Full
  /\ slots' = [slots EXCEPT ![SlotOf(tail)].seq = seqNext]
  /\ seqNext' = seqNext + 1
  /\ ppc' = "copy"
  /\ UNCHANGED <<head, tail, pcmd, phead, consumer>>

CopyInCmd ==
  /\ ppc = "copy"
  /\ slots' = [slots EXCEPT ![SlotOf(tail)].cmd = pcmd]
  /\ ppc' = "publish"
  /\ UNCHANGED <<head, tail, seqNext, pcmd, phead, consumer>>

EnqueuePublish ==
  /\ ppc = "publish"
  /\ tail' = Advance(tail)
  /\ ppc' = "idle" /\ pcmd' = "blank" /\ phead' = 0
  /\ UNCHANGED <<head, slots, seqNext, consumer>>

Producer ==
  \/ \E c \in Commands : EnqueueBegin(c)
  \/ EnqueueReject \/ CopyInSeq \/ CopyInCmd \/ EnqueuePublish

(***************************************************************************)
(* sf_cmd_queue_dequeue                                                    *)
(***************************************************************************)

\* Load head (the consumer's own) and tail.
DequeueBegin ==
  /\ cpc = "idle"
  /\ ctail' = tail
  /\ cpc' = "check"
  /\ UNCHANGED <<ring, producer, out, delivered>>

\* Mutant: a full ring, whose masked indices are equal, is taken for empty.
DequeueEmptyMasked ==
  /\ cpc = "check" /\ SlotOf(head) = SlotOf(ctail)
  /\ cpc' = "idle" /\ ctail' = 0
  /\ UNCHANGED <<ring, producer, out, delivered>>

DequeueEmpty ==
  /\ cpc = "check" /\ head = ctail
  /\ cpc' = "idle" /\ ctail' = 0
  /\ UNCHANGED <<ring, producer, out, delivered>>

CopyOutSeq ==
  /\ cpc = "check" /\ head # ctail
  /\ out' = [out EXCEPT !.seq = slots[SlotOf(head)].seq]
  /\ cpc' = "copy"
  /\ UNCHANGED <<ring, producer, ctail, delivered>>

CopyOutCmd ==
  /\ cpc = "copy"
  /\ out' = [out EXCEPT !.cmd = slots[SlotOf(head)].cmd]
  /\ cpc' = "release"
  /\ UNCHANGED <<ring, producer, ctail, delivered>>

\* Store head: the slot is the producer's again, the command the caller's.
DequeueRelease ==
  /\ cpc = "release"
  /\ head' = Advance(head)
  /\ delivered' = Append(delivered, out)
  /\ out' = Blank /\ ctail' = 0
  /\ cpc' = "idle"
  /\ UNCHANGED <<tail, slots, producer>>

Consumer ==
  DequeueBegin \/ DequeueEmpty \/ CopyOutSeq \/ CopyOutCmd \/ DequeueRelease

Next == Producer \/ Consumer

Spec == Init /\ [][Next]_vars

\* The runner polls for as long as it lives; nothing makes a producer enqueue, but
\* an enqueue that has begun returns.
FairSpec == Spec /\ WF_vars(Consumer) /\ WF_vars(Producer /\ ppc # "idle")

-----------------------------------------------------------------------------
(***************************************************************************)
(* Properties.                                                             *)
(***************************************************************************)

Slot == [seq : 0 .. MaxAccept, cmd : Commands \cup {"blank"}]

\* Every variable has a value its C++ counterpart can have.
TypeOK ==
  /\ head \in 0 .. Words - 1 /\ tail \in 0 .. Words - 1
  /\ slots \in [SlotIndices -> Slot]
  /\ seqNext \in 1 .. MaxAccept + 1
  /\ ppc \in {"idle", "check", "copy", "publish"}
  /\ pcmd \in Commands \cup {"blank"} /\ phead \in 0 .. Words - 1
  /\ cpc \in {"idle", "check", "copy", "release"}
  /\ ctail \in 0 .. Words - 1 /\ out \in Slot
  /\ delivered \in Seq(Slot)

CopyingIn  == ppc = "copy" \/ (ppc = "check" /\ ~Full)
CopyingOut == cpc = "copy" \/ (cpc = "check" /\ head # ctail)

\* The two threads never copy to and from the same slot at once, full ring and
\* wrapped indices included: the slots are plain memory, so that would be a data
\* race (command_queue.cpp:31-38).
NoSlotRace == CopyingIn /\ CopyingOut => SlotOf(tail) # SlotOf(head)

\* The ring is the bounded FIFO of its contract: accepted commands are numbered
\* 1, 2, 3, ... whatever was refused in between, and come out whole, once, in order.
Buffered ==
  [k \in 1 .. InFlight(tail, head) |-> slots[SlotOf((head + k - 1) % Words)]]
NotYetPublished == IF ppc \in {"copy", "publish"} THEN 1 ELSE 0
Fifo == INSTANCE CommandFifo WITH
  queued <- Buffered, accepted <- seqNext - 1 - NotYetPublished, taken <- delivered
ImplementsFifo == Fifo!Spec

\* A command that was accepted is delivered, while the consumer polls.
AcceptedIsDelivered ==
  \A n \in 1 .. MaxAccept : (seqNext > n ~> Len(delivered) >= n)
=============================================================================
