------------------------ MODULE CommandRingProofs ------------------------
(***************************************************************************)
(* Proofs about CommandRing for every capacity, every word size that is a  *)
(* multiple of it, every start value and every number of commands.         *)
(*                                                                         *)
(* The indices wrap, so the invariant is about the numbers they stand for: *)
(* head is the position of the count of delivered commands, tail that of   *)
(* the count of published ones, and a stale copy of either is the position *)
(* of an earlier count that is at most Capacity away.                      *)
(***************************************************************************)
EXTENDS CommandRing, SequenceTheorems, TLAPS

\* Commands released by the consumer, and commands published by the producer.
Released == Len(delivered)
Accepted == seqNext - 1 - NotYetPublished

\* The index of the command numbered k + 1, and its slot.
Position(k) == (Start + k) % Words
SlotAt(k) == SlotOf(Position(k))

\* The counts behind the indices, and how far apart they are.
Counted ==
  /\ Released <= Accepted /\ Accepted <= Released + Capacity
  /\ ppc \in {"copy", "publish"} => Accepted < Released + Capacity
  /\ cpc \in {"copy", "release"} => Released < Accepted
  /\ head = Position(Released) /\ tail = Position(Accepted)
  /\ ppc = "check" => seqNext <= MaxAccept

\* What a thread has loaded of the other's index may be old, but not too old.
Loaded ==
  /\ ppc = "check" =>
       \E h \in 0 .. Released : Accepted <= h + Capacity /\ phead = Position(h)
  /\ cpc = "check" => \E t \in Released .. Accepted : ctail = Position(t)

\* A published slot holds the command of its number; the copies under way agree with
\* the slot as far as they have come.
Contents ==
  /\ \A k \in Released .. Accepted - 1 :
       slots[SlotAt(k)].seq = k + 1 /\ slots[SlotAt(k)].cmd \in Commands
  /\ ppc # "idle" => pcmd \in Commands
  /\ ppc \in {"copy", "publish"} => slots[SlotAt(Accepted)].seq = Accepted + 1
  /\ ppc = "publish" => slots[SlotAt(Accepted)].cmd = pcmd
  /\ cpc \in {"copy", "release"} => out.seq = slots[SlotAt(Released)].seq
  /\ cpc = "release" => out.cmd = slots[SlotAt(Released)].cmd

IInv == TypeOK /\ Counted /\ Loaded /\ Contents

-----------------------------------------------------------------------------
(***************************************************************************)
(* Remainders.                                                             *)
(***************************************************************************)

LEMMA DivMod ==
  ASSUME NEW W \in Nat \ {0}, NEW a \in Int
  PROVE  a \div W \in Int /\ a = W * (a \div W) + (a % W) /\ a % W \in 0 .. W - 1
OBVIOUS

LEMMA ModUnique ==
  ASSUME NEW W \in Nat \ {0}, NEW q \in Int, NEW r \in 0 .. W - 1
  PROVE  (W * q + r) % W = r
OBVIOUS

LEMMA ModAdd ==
  ASSUME NEW W \in Nat \ {0}, NEW a \in Int, NEW b \in Int
  PROVE  ((a % W) + b) % W = (a + b) % W
<1> DEFINE q == a \div W   r == a % W
           p == (r + b) \div W   s == (r + b) % W
<1>1. q \in Int /\ r \in Int /\ a = W * q + r
  BY DivMod
<1>2. p \in Int /\ s \in 0 .. W - 1 /\ r + b = W * p + s
  BY <1>1, DivMod
<1> HIDE DEF q, r, p, s
<1>3. a + b = W * (q + p) + s
  BY <1>1, <1>2
<1>4. (W * (q + p) + s) % W = s
  BY <1>1, <1>2, ModUnique
<1>5. QED
  BY <1>3, <1>4 DEF s, r

LEMMA ModSub ==
  ASSUME NEW W \in Nat \ {0}, NEW a \in Int, NEW b \in Int, 0 <= a - b, a - b < W
  PROVE  ((a % W) - (b % W)) % W = a - b
<1> DEFINE q == a \div W   r == a % W   p == b \div W   s == b % W
<1>1. q \in Int /\ r \in Int /\ a = W * q + r
  BY DivMod
<1>2. p \in Int /\ s \in Int /\ b = W * p + s
  BY DivMod
<1> HIDE DEF q, r, p, s
<1>3. r - s = W * (p - q) + (a - b)
  BY <1>1, <1>2
<1>4. a - b \in 0 .. W - 1 /\ p - q \in Int
  BY <1>1, <1>2
<1>5. (W * (p - q) + (a - b)) % W = a - b
  BY <1>4, ModUnique
<1>6. QED
  BY <1>3, <1>5 DEF s, r

\* A mask of fewer bits undoes the wrap of a word.
LEMMA ModMod ==
  ASSUME NEW C \in Nat \ {0}, NEW W \in Nat \ {0}, W % C = 0, NEW a \in Int
  PROVE  (a % W) % C = a % C
<1> DEFINE q == a \div W   r == a % W   k == W \div C   p == r \div C   s == r % C
<1>1. q \in Int /\ r \in Int /\ a = W * q + r
  BY DivMod
<1>2. k \in Int /\ W = C * k
  BY DivMod
<1>3. p \in Int /\ s \in 0 .. C - 1 /\ r = C * p + s
  BY <1>1, DivMod
<1> HIDE DEF q, r, p, s, k
<1>4. a = (C * k) * q + C * p + s
  BY <1>1, <1>2, <1>3
<1>5. (C * k) * q + C * p = C * (k * q + p) /\ k * q + p \in Int
  BY <1>1, <1>2, <1>3
<1>6. a % C = s
  BY <1>1, <1>2, <1>3, <1>4, <1>5, ModUnique
<1>7. QED
  BY <1>6 DEF s, r

\* Numbers less than C apart have different remainders.
LEMMA ModDistinct ==
  ASSUME NEW C \in Nat \ {0}, NEW a \in Int, NEW b \in Int, 0 < a - b, a - b < C
  PROVE  a % C # b % C
<1> SUFFICES ASSUME a % C = b % C PROVE FALSE
  OBVIOUS
<1>1. 0 <= a - b
  OBVIOUS
<1>2. ((a % C) - (b % C)) % C = a - b
  BY <1>1, ModSub
<1>3. a % C \in Int
  BY DivMod
<1>4. (a % C) - (a % C) = 0 /\ 0 % C = 0
  BY <1>3
<1>5. QED
  BY <1>2, <1>4

-----------------------------------------------------------------------------
(***************************************************************************)
(* Indices and slots.                                                      *)
(***************************************************************************)

LEMMA PositionFacts ==
  ASSUME NEW k \in Nat
  PROVE  /\ Position(k) \in 0 .. Words - 1
         /\ Advance(Position(k)) = Position(k + 1)
         /\ SlotAt(k) \in SlotIndices
<1>1. Position(k) \in 0 .. Words - 1
  BY RingAssumption, DivMod DEF Position
<1>2. (((Start + k) % Words) + 1) % Words = (Start + (k + 1)) % Words
  <2>1. Words \in Nat \ {0} /\ Start + k \in Int
    BY RingAssumption
  <2>2. (((Start + k) % Words) + 1) % Words = ((Start + k) + 1) % Words
    BY <2>1, ModAdd
  <2>3. (Start + k) + 1 = Start + (k + 1)
    BY RingAssumption
  <2>4. QED
    BY <2>2, <2>3
<1>3. SlotAt(k) \in SlotIndices
  <2>1. Position(k) \in Int /\ Capacity \in Nat \ {0}
    BY <1>1, RingAssumption
  <2>2. Position(k) % Capacity \in 0 .. Capacity - 1
    BY <2>1, DivMod
  <2>3. QED
    BY <2>2 DEF SlotAt, SlotOf, SlotIndices
<1>4. QED
  BY <1>1, <1>2, <1>3, RingAssumption DEF Position, Advance

LEMMA InFlightCounts ==
  ASSUME NEW j \in Nat, NEW k \in Nat, j <= k, k <= j + Capacity
  PROVE  InFlight(Position(k), Position(j)) = k - j
<1> DEFINE a == Start + k   b == Start + j
<1>1. a \in Int /\ b \in Int /\ 0 <= a - b /\ a - b < Words /\ a - b = k - j
  BY RingAssumption
<1>2. Words \in Nat \ {0}
  BY RingAssumption
<1> HIDE DEF a, b
<1>3. ((a % Words) - (b % Words)) % Words = a - b
  BY <1>1, <1>2, ModSub
<1>4. QED
  BY <1>1, <1>3 DEF InFlight, Position, a, b

LEMMA PositionsDiffer ==
  ASSUME NEW j \in Nat, NEW k \in Nat, j < k, k <= j + Capacity
  PROVE  Position(j) # Position(k)
<1>1. InFlight(Position(k), Position(j)) = k - j
  BY InFlightCounts, RingAssumption
<1>2. InFlight(Position(j), Position(j)) = j - j
  BY InFlightCounts, RingAssumption
<1>3. QED
  BY <1>1, <1>2

LEMMA SlotsDiffer ==
  ASSUME NEW j \in Nat, NEW k \in Nat, j < k, k < j + Capacity
  PROVE  SlotAt(j) # SlotAt(k)
<1> DEFINE a == Start + k   b == Start + j
<1>1. a \in Int /\ b \in Int /\ 0 < a - b /\ a - b < Capacity
  BY RingAssumption
<1>2. Words \in Nat \ {0} /\ Capacity \in Nat \ {0} /\ Words % Capacity = 0
  BY RingAssumption
<1> HIDE DEF a, b
<1>3. a % Capacity # b % Capacity
  BY <1>1, <1>2, ModDistinct
<1>4. (a % Words) % Capacity = a % Capacity /\ (b % Words) % Capacity = b % Capacity
  BY <1>1, <1>2, ModMod
<1>5. QED
  BY <1>3, <1>4 DEF SlotAt, SlotOf, Position, a, b
-----------------------------------------------------------------------------
(***************************************************************************)
(* The invariant is inductive.                                             *)
(***************************************************************************)

LEMMA CountsAreNumbers ==
  ASSUME TypeOK PROVE Released \in Nat /\ Accepted \in Int /\ seqNext \in Nat
BY RingAssumption DEF TypeOK, Released, Accepted, NotYetPublished

LEMMA InitCounts == ASSUME Init PROVE Released = 0 /\ Accepted = 0
<1>1. Len(<<>>) = 0
  OBVIOUS
<1>2. ppc = "idle" /\ seqNext = 1 /\ delivered = <<>>
  BY DEF Init
<1>3. NotYetPublished = 0
  BY <1>2 DEF NotYetPublished
<1>4. QED
  BY <1>1, <1>2, <1>3 DEF Released, Accepted

LEMMA InitInd == Init => IInv
<1> SUFFICES ASSUME Init PROVE IInv
  OBVIOUS
<1>1. TypeOK
  BY RingAssumption DEF Init, TypeOK, Slot, Blank
<1>2. Released = 0 /\ Accepted = 0
  BY InitCounts
<1>3. Position(0) = Start
  <2>1. Words \in Nat \ {0} /\ Start \in 0 .. Words - 1
    BY RingAssumption
  <2>2. (Words * 0 + Start) % Words = Start
    BY <2>1, ModUnique
  <2>3. QED
    BY <2>1, <2>2 DEF Position
<1>4. Counted /\ Loaded /\ Contents
  BY <1>2, <1>3, RingAssumption DEF Init, Counted, Loaded, Contents
<1>5. QED
  BY <1>1, <1>4 DEF IInv

\* What the indices stand for: the slots the two threads use now.
LEMMA OwnSlots ==
  ASSUME IInv
  PROVE  /\ Released \in Nat /\ Accepted \in Nat
         /\ SlotOf(head) = SlotAt(Released) /\ SlotOf(tail) = SlotAt(Accepted)
         /\ SlotAt(Released) \in SlotIndices /\ SlotAt(Accepted) \in SlotIndices
<1>1. Released \in Nat /\ Accepted \in Nat
  BY CountsAreNumbers DEF IInv, Counted
<1>2. QED
  BY <1>1, PositionFacts DEF IInv, Counted, SlotAt

\* The producer copies only when there is room, its old copy of head included.
LEMMA RoomToCopyIn ==
  ASSUME IInv, ppc = "check", ~Full PROVE Accepted < Released + Capacity
<1>1. PICK h \in 0 .. Released : Accepted <= h + Capacity /\ phead = Position(h)
  BY DEF IInv, Loaded
<1>2. Accepted \in Nat /\ Released \in Nat /\ Released <= Accepted
  BY OwnSlots DEF IInv, Counted
<1>3. InFlight(Position(Accepted), Position(h)) = Accepted - h
  BY <1>1, <1>2, InFlightCounts
<1>4. QED
  BY <1>1, <1>2, <1>3, RingAssumption DEF Full, IInv, Counted

\* The consumer copies only when there is a command, its old copy of tail included.
LEMMA CommandToCopyOut ==
  ASSUME IInv, cpc = "check", head # ctail PROVE Released < Accepted
<1>1. PICK t \in Released .. Accepted : ctail = Position(t)
  BY DEF IInv, Loaded
<1>2. QED
  BY <1>1, OwnSlots DEF IInv, Counted

LEMMA EnqueueBeginInd == ASSUME IInv, NEW c \in Commands, EnqueueBegin(c) PROVE IInv'
<1> USE DEF IInv, EnqueueBegin, ring, producer, consumer
<1>1. Released' = Released /\ Accepted' = Accepted
  BY DEF Released, Accepted, NotYetPublished
<1>2. TypeOK'
  BY DEF TypeOK
<1>3. Counted'
  BY <1>1 DEF Counted
<1>4. Loaded'
  BY <1>1, OwnSlots DEF Counted, Loaded
<1>5. Contents'
  BY <1>1, OwnSlots DEF Counted, Contents
<1>6. QED
  BY <1>2, <1>3, <1>4, <1>5

LEMMA EnqueueRejectInd == ASSUME IInv, EnqueueReject PROVE IInv'
<1> USE DEF IInv, EnqueueReject, ring, producer, consumer
<1>1. Released' = Released /\ Accepted' = Accepted
  BY DEF Released, Accepted, NotYetPublished
<1>2. TypeOK'
  BY RingAssumption DEF TypeOK
<1>3. Counted'
  BY <1>1 DEF Counted
<1>4. Loaded'
  BY <1>1 DEF Loaded
<1>5. Contents'
  BY <1>1 DEF Contents
<1>6. QED
  BY <1>2, <1>3, <1>4, <1>5

LEMMA CopyInSeqInd == ASSUME IInv, CopyInSeq PROVE IInv'
<1> USE DEF IInv, CopyInSeq, ring, producer, consumer
<1>1. /\ seqNext \in 0 .. MaxAccept /\ seqNext' = seqNext + 1
      /\ Accepted = seqNext - 1 /\ Accepted' = Accepted /\ Released' = Released
  BY RingAssumption DEF TypeOK, Counted, Released, Accepted, NotYetPublished
<1>2. slots' = [slots EXCEPT ![SlotAt(Accepted)].seq = Accepted + 1]
  <2>1. seqNext = Accepted + 1
    BY <1>1, RingAssumption
  <2>2. QED
    BY <2>1, OwnSlots
<1>3. TypeOK'
  <2>1. slots' \in [SlotIndices -> Slot]
    BY <1>1, OwnSlots DEF TypeOK, Slot
  <2>2. QED
    BY <1>1, <2>1, RingAssumption DEF TypeOK
<1>4. Counted'
  BY <1>1, RoomToCopyIn DEF Counted
<1>5. Loaded'
  BY <1>1 DEF Loaded
<1>6. Contents'
  <2>1. \A k \in SlotIndices : /\ slots'[k].cmd = slots[k].cmd
                              /\ k # SlotAt(Accepted) => slots'[k] = slots[k]
    BY <1>2 DEF TypeOK, Slot
  <2>2. slots'[SlotAt(Accepted)].seq = Accepted + 1
    BY <1>2, OwnSlots DEF TypeOK, Slot
  <2>3. \A k \in Released .. Accepted - 1 :
          SlotAt(k) \in SlotIndices /\ SlotAt(k) # SlotAt(Accepted)
    BY RoomToCopyIn, OwnSlots, SlotsDiffer, PositionFacts, RingAssumption
  <2>4. QED
    BY <1>1, <2>1, <2>2, <2>3, OwnSlots DEF Counted, Contents
<1>7. QED
  BY <1>3, <1>4, <1>5, <1>6

LEMMA CopyInCmdInd == ASSUME IInv, CopyInCmd PROVE IInv'
<1> USE DEF IInv, CopyInCmd, ring, producer, consumer
<1>1. Accepted' = Accepted /\ Released' = Released
  BY DEF Released, Accepted, NotYetPublished
<1>2. TypeOK'
  BY OwnSlots DEF TypeOK, Slot
<1>3. Counted'
  BY <1>1 DEF Counted
<1>4. Loaded'
  BY <1>1 DEF Loaded
<1>5. Contents'
  <2>1. \A k \in SlotIndices : /\ slots'[k].seq = slots[k].seq
                              /\ k # SlotAt(Accepted) => slots'[k] = slots[k]
    BY OwnSlots DEF TypeOK, Slot
  <2>2. slots'[SlotAt(Accepted)].cmd = pcmd
    BY OwnSlots DEF TypeOK, Slot
  <2>3. \A k \in Released .. Accepted - 1 :
          SlotAt(k) \in SlotIndices /\ SlotAt(k) # SlotAt(Accepted)
    BY OwnSlots, SlotsDiffer, PositionFacts, RingAssumption DEF Counted
  <2>4. QED
    BY <1>1, <2>1, <2>2, <2>3, OwnSlots DEF Counted, Contents
<1>6. QED
  BY <1>2, <1>3, <1>4, <1>5

LEMMA EnqueuePublishInd == ASSUME IInv, EnqueuePublish PROVE IInv'
<1> USE DEF IInv, EnqueuePublish, ring, producer, consumer
<1>1. Accepted' = Accepted + 1 /\ Released' = Released
  BY RingAssumption DEF TypeOK, Released, Accepted, NotYetPublished
<1>2. tail' = Position(Accepted + 1) /\ tail' \in 0 .. Words - 1
  BY OwnSlots, PositionFacts DEF Counted
<1>3. TypeOK'
  BY <1>2, RingAssumption DEF TypeOK
<1>4. Counted'
  BY <1>1, <1>2, OwnSlots, RingAssumption DEF Counted
<1>5. Loaded'
  BY <1>1, OwnSlots DEF Loaded
<1>6. Contents'
  <2>1. \A k \in Released .. Accepted : k \in Released .. Accepted - 1 \/ k = Accepted
    BY OwnSlots
  <2>2. QED
    BY <1>1, <2>1, OwnSlots DEF Counted, Contents
<1>7. QED
  BY <1>3, <1>4, <1>5, <1>6

LEMMA DequeueBeginInd == ASSUME IInv, DequeueBegin PROVE IInv'
<1> USE DEF IInv, DequeueBegin, ring, producer, consumer
<1>1. Released' = Released /\ Accepted' = Accepted
  BY DEF Released, Accepted, NotYetPublished
<1>2. TypeOK'
  BY DEF TypeOK
<1>3. Counted'
  BY <1>1 DEF Counted
<1>4. Loaded'
  BY <1>1, OwnSlots DEF Counted, Loaded
<1>5. Contents'
  BY <1>1 DEF Contents
<1>6. QED
  BY <1>2, <1>3, <1>4, <1>5

LEMMA DequeueEmptyInd == ASSUME IInv, DequeueEmpty PROVE IInv'
<1> USE DEF IInv, DequeueEmpty, ring, producer, consumer
<1>1. Released' = Released /\ Accepted' = Accepted
  BY DEF Released, Accepted, NotYetPublished
<1>2. TypeOK'
  BY RingAssumption DEF TypeOK
<1>3. Counted'
  BY <1>1 DEF Counted
<1>4. Loaded'
  BY <1>1 DEF Loaded
<1>5. Contents'
  BY <1>1 DEF Contents
<1>6. QED
  BY <1>2, <1>3, <1>4, <1>5

LEMMA CopyOutSeqInd == ASSUME IInv, CopyOutSeq PROVE IInv'
<1> USE DEF IInv, CopyOutSeq, ring, producer, consumer
<1>1. Released' = Released /\ Accepted' = Accepted
  BY DEF Released, Accepted, NotYetPublished
<1>2. TypeOK'
  BY OwnSlots DEF Slot, TypeOK
<1>3. Counted'
  BY <1>1, CommandToCopyOut DEF Counted
<1>4. Loaded'
  BY <1>1 DEF Loaded
<1>5. Contents'
  BY <1>1, OwnSlots DEF TypeOK, Slot, Contents
<1>6. QED
  BY <1>2, <1>3, <1>4, <1>5

LEMMA CopyOutCmdInd == ASSUME IInv, CopyOutCmd PROVE IInv'
<1> USE DEF IInv, CopyOutCmd, ring, producer, consumer
<1>1. Released' = Released /\ Accepted' = Accepted
  BY DEF Released, Accepted, NotYetPublished
<1>2. TypeOK'
  BY OwnSlots DEF Slot, TypeOK
<1>3. Counted'
  BY <1>1 DEF Counted
<1>4. Loaded'
  BY <1>1 DEF Loaded
<1>5. Contents'
  BY <1>1, OwnSlots DEF TypeOK, Slot, Contents
<1>6. QED
  BY <1>2, <1>3, <1>4, <1>5

LEMMA DequeueReleaseInd == ASSUME IInv, DequeueRelease PROVE IInv'
<1> USE DEF IInv, DequeueRelease, ring, producer, consumer
<1>1. delivered' \in Seq(Slot) /\ Len(delivered') = Len(delivered) + 1
  BY AppendProperties DEF TypeOK
<1>2. Released' = Released + 1 /\ Accepted' = Accepted
  BY <1>1 DEF Released, Accepted, NotYetPublished
<1>3. head' = Position(Released + 1) /\ head' \in 0 .. Words - 1
  <2>1. head' = Advance(Position(Released))
    BY DEF Counted
  <2>2. Released \in Nat /\ Released + 1 \in Nat
    BY OwnSlots
  <2>3. QED
    BY <2>1, <2>2, PositionFacts
<1>4. TypeOK'
  BY <1>1, <1>3, RingAssumption DEF TypeOK, Slot, Blank
<1>5. Counted'
  BY <1>2, <1>3, OwnSlots, RingAssumption DEF Counted
<1>6. Loaded'
  BY <1>2, OwnSlots DEF Loaded
<1>7. Contents'
  BY <1>2, OwnSlots DEF Counted, Contents
<1>8. QED
  BY <1>4, <1>5, <1>6, <1>7

LEMMA NextInd == IInv /\ [Next]_vars => IInv'
<1> SUFFICES ASSUME IInv, [Next]_vars PROVE IInv'
  OBVIOUS
<1>1. CASE Producer
  BY <1>1, EnqueueBeginInd, EnqueueRejectInd, CopyInSeqInd, CopyInCmdInd,
     EnqueuePublishInd DEF Producer
<1>2. CASE Consumer
  BY <1>2, DequeueBeginInd, DequeueEmptyInd, CopyOutSeqInd, CopyOutCmdInd,
     DequeueReleaseInd DEF Consumer
<1>3. CASE UNCHANGED vars
  <2> USE <1>3 DEF vars, ring, producer, consumer
  <2>1. Released' = Released /\ Accepted' = Accepted
    BY DEF Released, Accepted, NotYetPublished
  <2>2. QED
    BY <2>1 DEF IInv, TypeOK, Counted, Loaded, Contents
<1>4. QED
  BY <1>1, <1>2, <1>3 DEF Next

\* The inductive invariant of the ring holds in every state.
THEOREM RingInvariant == Spec => []IInv
BY InitInd, NextInd, PTL DEF Spec

\* Every variable of enqueue and dequeue keeps its type (command_queue.cpp:85-180).
THEOREM RingTypeOK == Spec => []TypeOK
<1>1. IInv => TypeOK
  BY DEF IInv
<1>2. QED
  BY <1>1, RingInvariant, PTL

\* The two threads never copy to and from the same slot at once
\* (command_queue.cpp:31-38), for every capacity and however often the indices wrap.
THEOREM RingHasNoSlotRace == Spec => []NoSlotRace
<1>1. IInv => NoSlotRace
  <2> SUFFICES ASSUME IInv, CopyingIn, CopyingOut PROVE SlotOf(tail) # SlotOf(head)
    BY DEF NoSlotRace
  <2>1. Accepted < Released + Capacity
    BY RoomToCopyIn DEF CopyingIn, IInv, Counted
  <2>2. Released < Accepted
    BY CommandToCopyOut DEF CopyingOut, IInv, Counted
  <2>3. SlotAt(Released) # SlotAt(Accepted)
    BY <2>1, <2>2, OwnSlots, SlotsDiffer
  <2>4. QED
    BY <2>3, OwnSlots
<1>2. QED
  BY <1>1, RingInvariant, PTL

-----------------------------------------------------------------------------
(***************************************************************************)
(* The ring implements the FIFO.                                           *)
(***************************************************************************)

\* What a memory holds between two counts.
BufferFrom(mem, n, m) == [k \in 1 .. m - n |-> mem[SlotAt(n + k - 1)]]

LEMMA BufferedIsBufferFrom ==
  ASSUME NEW n \in Nat, NEW m \in Nat, n <= m, m <= n + Capacity, NEW mem
  PROVE  [k \in 1 .. InFlight(Position(m), Position(n)) |->
            mem[SlotOf((Position(n) + k - 1) % Words)]] = BufferFrom(mem, n, m)
<1>1. InFlight(Position(m), Position(n)) = m - n
  BY InFlightCounts
<1>2. ASSUME NEW k \in 1 .. m - n
      PROVE  (Position(n) + k - 1) % Words = Position(n + k - 1)
  <2> DEFINE a == Start + n   b == k - 1
  <2>1. a \in Int /\ b \in Int /\ a + b = Start + (n + k - 1) /\ Words \in Nat \ {0}
    BY RingAssumption
  <2>2. Position(n) + k - 1 = (a % Words) + b
    BY PositionFacts DEF Position
  <2> HIDE DEF a, b
  <2>3. ((a % Words) + b) % Words = (a + b) % Words
    BY <2>1, ModAdd
  <2>4. QED
    BY <2>1, <2>2, <2>3 DEF Position
<1>3. QED
  BY <1>1, <1>2 DEF BufferFrom, SlotAt

LEMMA BufferedNow ==
  ASSUME IInv PROVE Buffered = BufferFrom(slots, Released, Accepted)
BY OwnSlots, BufferedIsBufferFrom DEF Buffered, IInv, Counted

LEMMA BufferedNext ==
  ASSUME IInv', Released' \in Nat, Accepted' \in Nat
  PROVE  Buffered' = BufferFrom(slots', Released', Accepted')
BY BufferedIsBufferFrom DEF Buffered, IInv, Counted

LEMMA BufferIsSeq ==
  ASSUME NEW mem \in [SlotIndices -> Slot], NEW n \in Nat, NEW m \in Nat, n <= m
  PROVE  /\ BufferFrom(mem, n, m) \in Seq(Slot)
         /\ Len(BufferFrom(mem, n, m)) = m - n
         /\ \A k \in 1 .. m - n : BufferFrom(mem, n, m)[k] = mem[SlotAt(n + k - 1)]
<1>1. \A k \in 1 .. m - n : mem[SlotAt(n + k - 1)] \in Slot
  BY PositionFacts
<1>2. BufferFrom(mem, n, m) \in [1 .. m - n -> Slot] /\ m - n \in Nat
  BY <1>1 DEF BufferFrom
<1>3. BufferFrom(mem, n, m) \in Seq(Slot)
  BY <1>2, SeqDef
<1>4. Len(BufferFrom(mem, n, m)) = m - n
  BY <1>2, <1>3, LenProperties
<1>5. QED
  BY <1>3, <1>4 DEF BufferFrom

LEMMA BufferGrows ==
  ASSUME NEW mem \in [SlotIndices -> Slot], NEW n \in Nat, NEW m \in Nat, n <= m
  PROVE  BufferFrom(mem, n, m + 1) = Append(BufferFrom(mem, n, m), mem[SlotAt(m)])
<1> DEFINE old == BufferFrom(mem, n, m)   new == BufferFrom(mem, n, m + 1)
           app == Append(old, mem[SlotAt(m)])
<1>1. /\ old \in Seq(Slot) /\ Len(old) = m - n
      /\ \A k \in 1 .. m - n : old[k] = mem[SlotAt(n + k - 1)]
  BY BufferIsSeq
<1>2. /\ new \in Seq(Slot) /\ Len(new) = (m + 1) - n
      /\ \A k \in 1 .. (m + 1) - n : new[k] = mem[SlotAt(n + k - 1)]
  <2>1. m + 1 \in Nat /\ n <= m + 1
    OBVIOUS
  <2>2. QED
    BY <2>1, BufferIsSeq
<1>3. mem[SlotAt(m)] \in Slot
  BY PositionFacts
<1> HIDE DEF old, new
<1>4. /\ app \in Seq(Slot) /\ Len(app) = (m + 1) - n /\ app[m - n + 1] = mem[SlotAt(m)]
      /\ \A k \in 1 .. m - n : app[k] = old[k]
  BY <1>1, <1>3, AppendProperties
<1> HIDE DEF app
<1>5. ASSUME NEW k \in 1 .. (m + 1) - n PROVE new[k] = app[k]
  <2>1. CASE k = m - n + 1
    <3>1. n + k - 1 = m
      BY <2>1
    <3>2. QED
      BY <2>1, <3>1, <1>2, <1>4
  <2>2. CASE k # m - n + 1
    BY <2>2, <1>1, <1>2, <1>4
  <2>3. QED
    BY <2>1, <2>2
<1>6. new = app
  BY <1>2, <1>4, <1>5, SeqEqual
<1>7. QED
  BY <1>6 DEF old, new, app

LEMMA BufferShrinks ==
  ASSUME NEW mem \in [SlotIndices -> Slot], NEW n \in Nat, NEW m \in Nat, n < m
  PROVE  /\ BufferFrom(mem, n, m) # <<>>
         /\ Head(BufferFrom(mem, n, m)) = mem[SlotAt(n)]
         /\ Tail(BufferFrom(mem, n, m)) = BufferFrom(mem, n + 1, m)
<1> DEFINE old == BufferFrom(mem, n, m)   new == BufferFrom(mem, n + 1, m)
<1>1. /\ old \in Seq(Slot) /\ Len(old) = m - n
      /\ \A k \in 1 .. m - n : old[k] = mem[SlotAt(n + k - 1)]
  <2>1. n <= m
    OBVIOUS
  <2>2. QED
    BY <2>1, BufferIsSeq
<1>2. /\ new \in Seq(Slot) /\ Len(new) = m - (n + 1)
      /\ \A k \in 1 .. m - (n + 1) : new[k] = mem[SlotAt((n + 1) + k - 1)]
  <2>1. n + 1 \in Nat /\ n + 1 <= m
    OBVIOUS
  <2>2. QED
    BY <2>1, BufferIsSeq
<1> HIDE DEF old, new
<1>3. old # <<>>
  BY <1>1, EmptySeq
<1>4. /\ Head(old) = old[1] /\ Tail(old) \in Seq(Slot) /\ Len(Tail(old)) = m - n - 1
      /\ \A k \in 1 .. m - n - 1 : Tail(old)[k] = old[k + 1]
  BY <1>1, <1>3, HeadTailProperties
<1>5. Head(old) = mem[SlotAt(n)]
  <2>1. n + 1 - 1 = n
    OBVIOUS
  <2>2. QED
    BY <1>1, <1>4, <2>1
<1>6. ASSUME NEW k \in 1 .. m - n - 1 PROVE Tail(old)[k] = new[k]
  <2>1. n + (k + 1) - 1 = (n + 1) + k - 1 /\ k + 1 \in 1 .. m - n
    OBVIOUS
  <2>2. QED
    BY <1>1, <1>2, <1>4, <2>1
<1>7. Tail(old) = new
  BY <1>2, <1>4, <1>6, SeqEqual
<1>8. QED
  BY <1>3, <1>5, <1>7 DEF old, new

LEMMA StepImplementsFifo ==
  IInv /\ IInv' /\ [Next]_vars => [Fifo!Next]_<<Buffered, Accepted, delivered>>
<1> SUFFICES ASSUME IInv, IInv', [Next]_vars
             PROVE  [Fifo!Next]_<<Buffered, Accepted, delivered>>
  OBVIOUS
<1>1. /\ Released \in Nat /\ Accepted \in Nat /\ Released <= Accepted
      /\ Accepted <= Released + Capacity /\ slots \in [SlotIndices -> Slot]
  BY OwnSlots DEF IInv, Counted, TypeOK
<1>2. Buffered = BufferFrom(slots, Released, Accepted)
  BY BufferedNow
<1>3. Released' \in Nat /\ Accepted' \in Nat
      => Buffered' = BufferFrom(slots', Released', Accepted')
  BY BufferedNext
<1>4. CASE EnqueuePublish
  <2> USE <1>4 DEF EnqueuePublish, producer, consumer
  <2>1. Accepted' = Accepted + 1 /\ Released' = Released
    BY RingAssumption DEF IInv, TypeOK, Released, Accepted, NotYetPublished
  <2>2. Buffered' = Append(Buffered, slots[SlotAt(Accepted)])
    <3>1. Accepted + 1 \in Nat /\ slots' = slots
      BY <1>1
    <3>2. Buffered' = BufferFrom(slots, Released, Accepted + 1)
      BY <1>1, <1>3, <2>1, <3>1
    <3>3. QED
      BY <1>1, <1>2, <3>2, BufferGrows
  <2>3. slots[SlotAt(Accepted)] = [seq |-> Accepted + 1, cmd |-> pcmd] /\ pcmd \in Commands
    BY OwnSlots DEF IInv, Contents, TypeOK, Slot
  <2>4. Len(Buffered) < Capacity
    <3>1. Len(Buffered) = Accepted - Released
      BY <1>1, <1>2, BufferIsSeq
    <3>2. Accepted < Released + Capacity
      BY DEF IInv, Counted
    <3>3. QED
      BY <1>1, <3>1, <3>2, RingAssumption
  <2>5. Fifo!Accept(pcmd)
    BY <2>1, <2>2, <2>3, <2>4 DEF Fifo!Accept, Accepted
  <2>6. QED
    BY <2>3, <2>5 DEF Fifo!Next
<1>5. CASE DequeueRelease
  <2> USE <1>5 DEF DequeueRelease, producer
  <2>1. Accepted' = Accepted /\ Released' = Released + 1
    BY AppendProperties DEF IInv, TypeOK, Released, Accepted, NotYetPublished
  <2>2. Released < Accepted
    BY DEF IInv, Counted
  <2>3. /\ Buffered # <<>> /\ Buffered' = Tail(Buffered)
        /\ Head(Buffered) = slots[SlotAt(Released)]
    BY <1>1, <1>2, <1>3, <2>1, <2>2, BufferShrinks
  <2>4. out = slots[SlotAt(Released)]
    BY OwnSlots DEF IInv, Contents, TypeOK, Slot
  <2>5. Fifo!Take
    BY <2>1, <2>3, <2>4 DEF Fifo!Take, Accepted
  <2>6. QED
    BY <2>5 DEF Fifo!Next
<1>6. CASE CopyInSeq \/ CopyInCmd
  <2>1. Accepted' = Accepted /\ Released' = Released /\ delivered' = delivered
    BY <1>6, RingAssumption DEF CopyInSeq, CopyInCmd, consumer, IInv, TypeOK, Released,
       Accepted, NotYetPublished
  <2>2. Accepted < Released + Capacity
    BY <1>6, RoomToCopyIn DEF CopyInSeq, CopyInCmd, IInv, Counted
  <2>3. \A k \in SlotIndices : k # SlotAt(Accepted) => slots'[k] = slots[k]
    BY <1>6, OwnSlots DEF CopyInSeq, CopyInCmd, IInv, TypeOK
  <2>4. ASSUME NEW k \in 1 .. Accepted - Released
        PROVE  slots'[SlotAt(Released + k - 1)] = slots[SlotAt(Released + k - 1)]
    <3> DEFINE p == Released + k - 1
    <3>1. p \in Nat /\ p < Accepted /\ Accepted < p + Capacity
      BY <1>1, <2>2, RingAssumption
    <3> HIDE DEF p
    <3>2. SlotAt(p) \in SlotIndices /\ SlotAt(p) # SlotAt(Accepted)
      BY <1>1, <3>1, SlotsDiffer, PositionFacts
    <3>3. QED
      BY <2>3, <3>2 DEF p
  <2>5. Buffered' = Buffered
    BY <1>1, <1>2, <1>3, <2>1, <2>4 DEF BufferFrom
  <2>6. QED
    BY <2>1, <2>5
<1>7. CASE \/ \E c \in Commands : EnqueueBegin(c)
           \/ EnqueueReject \/ DequeueBegin \/ DequeueEmpty \/ CopyOutSeq \/ CopyOutCmd
           \/ UNCHANGED vars
  <2>1. UNCHANGED <<slots, head, tail, seqNext, delivered>> /\ Accepted' = Accepted
    BY <1>7 DEF EnqueueBegin, EnqueueReject, DequeueBegin, DequeueEmpty, CopyOutSeq,
       CopyOutCmd, ring, producer, consumer, vars, Accepted, NotYetPublished
  <2>2. QED
    BY <2>1 DEF Buffered, SlotOf, InFlight
<1>8. QED
  BY <1>4, <1>5, <1>6, <1>7 DEF Next, Producer, Consumer

\* The ring is the bounded FIFO of its contract (sf_command_queue.h, C1-C4): what is
\* accepted is numbered densely and comes out whole, once and in order, however the
\* two threads interleave and whatever was refused in between.
THEOREM RingImplementsFifo == Spec => ImplementsFifo
<1>1. Init => Fifo!Init
  <2> SUFFICES ASSUME Init PROVE Fifo!Init
    OBVIOUS
  <2>1. IInv
    BY InitInd
  <2>2. Accepted = 0 /\ Released = 0 /\ delivered = <<>>
    BY InitCounts DEF Init
  <2>3. Buffered = BufferFrom(slots, 0, 0) /\ slots \in [SlotIndices -> Slot]
    BY <2>1, <2>2, BufferedNow DEF IInv, TypeOK
  <2>4. Buffered \in Seq(Slot) /\ Len(Buffered) = 0 - 0
    BY <2>3, BufferIsSeq
  <2>5. Buffered = <<>>
    BY <2>4, EmptySeq
  <2>6. QED
    BY <2>2, <2>5 DEF Fifo!Init, Accepted
<1>2. IInv /\ IInv' /\ [Next]_vars => [Fifo!Next]_<<Buffered, Accepted, delivered>>
  BY StepImplementsFifo
<1>3. QED
  BY <1>1, <1>2, RingInvariant, PTL DEF Spec, ImplementsFifo, Fifo!Spec, Accepted

=============================================================================
