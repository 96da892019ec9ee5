SPECIFICATION Spec
CONSTANTS
  Nodes = {1, 2}
  Room = 4
  NotFinite <- NotANumber
  Kinds = {"source", "output"}
  Ports = {0, 1}
  Foreign <- TextsOfAllAges
  Lengths <- SomeLengths
  Titles = {"malformed", "empty"}
  MaxEdges = 2
  MaxEdits = 2
  MaxEntries = 3
INVARIANT TypeOK
INVARIANT NoNewProblem
INVARIANT SavedReopens
INVARIANT OldVersionsOpen
INVARIANT MigrationSettles
CHECK_DEADLOCK FALSE
