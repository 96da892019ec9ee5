SPECIFICATION Spec
CONSTANTS
  Nodes = {1, 2, 3, 4}
  Kinds = {"source", "bus", "output"}
  Ports = {0}
  MaxEdges = 4
  MaxSoloed = 1
  MaxMuted = 1
INVARIANT WellRouted
INVARIANT Acyclic
INVARIANT OrderIsTopological
INVARIANT ReportMatchesRender
INVARIANT SoloKeepsItsPaths
CHECK_DEADLOCK FALSE
