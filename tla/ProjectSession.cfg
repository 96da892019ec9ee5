SPECIFICATION Spec
CONSTANTS
  Editors = {"mixer", "signal"}
  MaxHandles = 2
  MaxJobs = 4
INVARIANT OwnerIsLive
INVARIANT QuietScreenIsTrue
PROPERTY EditorsCatchUp
CHECK_DEADLOCK FALSE
