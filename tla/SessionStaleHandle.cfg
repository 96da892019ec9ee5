SPECIFICATION Spec
CONSTANTS
  Editors = {"signal"}
  MaxHandles = 2
  MaxJobs = 4
INVARIANT CommitIsOnOpenProject
CHECK_DEADLOCK FALSE
