SPECIFICATION FairSpec
CONSTANTS
  NSlots = 4
  MaxPasses = 4
  MaxPublish = 6
INVARIANT RenderedPlanIntact
INVARIANT OneOwnerPerSlot
INVARIANT NewestPlanKept
INVARIANT AtMostTwoPasses
PROPERTY AcquireIsFresh
PROPERTY ImplementsRegister
PROPERTY PublishedIsRendered
CHECK_DEADLOCK FALSE
