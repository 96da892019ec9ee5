SPECIFICATION FairSpec
CONSTANTS
  EagerTicks = FALSE
  MaxRollbacks = 2
INVARIANT TypeOK
INVARIANT OneRenderLane
INVARIANT DocumentIsIdle
INVARIANT ProjectOutlivesUsers
PROPERTY StoreOutlivesUsers
PROPERTY CallsReturn
CHECK_DEADLOCK FALSE
