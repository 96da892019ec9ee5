SPECIFICATION FairSpec
CONSTANTS
  Commands = {c1, c2}
  Capacity = 4
  Words = 8
  Start = 6
  MaxAccept = 6
INVARIANT TypeOK
INVARIANT NoSlotRace
PROPERTY ImplementsFifo
PROPERTY AcceptedIsDelivered
CHECK_DEADLOCK FALSE
