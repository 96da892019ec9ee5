SPECIFICATION Spec
CONSTANTS
  Nodes = {1, 2, 3, 4}
  Kinds = {"source", "bus", "output"}
  Ports = {0}
  MaxEdges = 4
  MaxSoloed = 2
  MaxMuted = 1
INVARIANT SoloKeepsEveryPath
CHECK_DEADLOCK FALSE
