SPECIFICATION Spec
CONSTANTS
  Runners = {r1, r2}
  Capacity = 2
  Batch = 2
  MaxCommands = 2
  MaxDirect = 2
INVARIANT SoleOwner
INVARIANT NoUseAfterFree
CHECK_DEADLOCK FALSE
