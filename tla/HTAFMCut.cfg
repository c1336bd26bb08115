SPECIFICATION Spec
CONSTANTS
  NodeLists <- MCNodeLists
  Fanouts <- MCFanouts
  Batches <- MCBatches
  Pendings <- MCPendings
  Variants = {"cut"}
  Shares = 60
  Ln <- MCLn
  Tolerance = 260
  None = None
  NDemands = 4
  Shapes <- MCShapes
PROPERTY
  CutNeverFalls
CHECK_DEADLOCK FALSE
