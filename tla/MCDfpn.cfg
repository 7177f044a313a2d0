SPECIFICATION Spec
CONSTANTS
  OrBoards = {"a", "b"}
  AndBoards = {"x", "y"}
  Roots = {"a", "x"}
  Graphs <- MCGraphs
  ClusterSize = 50
  MaxDepth = 5
  MaxSearchNode = 16
INVARIANTS ProofsMate
CHECK_DEADLOCK FALSE
