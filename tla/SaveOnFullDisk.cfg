SPECIFICATION Spec
CONSTANTS
  Handles = {h1}
  MaxDocs = 4
  MaxCrashes = 1
INVARIANT SaveIsAtomic
CHECK_DEADLOCK FALSE
