---------------------------- MODULE CommandFifo ----------------------------
(***************************************************************************)
(* What the command queue promises its producer and its consumer           *)
(* (sf_command_queue.h, C1-C4): a FIFO of at most Capacity commands that   *)
(* numbers them densely as it accepts them.  A command that is refused     *)
(* leaves no trace.                                                        *)
(***************************************************************************)
EXTENDS Naturals, Sequences

CONSTANTS
  Commands,   \* what a command says, its number left out
  Capacity    \* commands the queue holds at most

VARIABLES
  queued,     \* accepted and not yet taken: a sequence of [seq, cmd]
  accepted,   \* number of commands accepted so far
  taken       \* what the consumer got, in order

Init == queued = <<>> /\ accepted = 0 /\ taken = <<>>

Accept(c) ==
  /\ Len(queued) < Capacity
  /\ queued' = Append(queued, [seq |-> accepted + 1, cmd |-> c])
  /\ accepted' = accepted + 1
  /\ UNCHANGED taken

Take ==
  /\ queued # <<>>
  /\ taken' = Append(taken, Head(queued))
  /\ queued' = Tail(queued)
  /\ UNCHANGED accepted

Next == Take \/ \E c \in Commands : Accept(c)

Spec == Init /\ [][Next]_<<queued, accepted, taken>>
=============================================================================
