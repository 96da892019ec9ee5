SPECIFICATION FairSpec
CONSTANTS
  Runners = {r1}
  Capacity = 3
  Batch = 2
  MaxCommands = 3
  MaxDirect = 1
INVARIANT TypeOK
INVARIANT StopBarrier
INVARIANT AppliedInOrder
INVARIANT PlanCurrent
PROPERTY StopIsAnswered
PROPERTY EnqueuedIsTaken
CHECK_DEADLOCK FALSE
