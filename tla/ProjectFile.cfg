SPECIFICATION Spec
CONSTANTS
  Handles = {h1, h2}
  MaxDocs = 4
  MaxCrashes = 2
INVARIANT FileIsLastSaved
INVARIANT OriginalIsKept
CHECK_DEADLOCK FALSE
