SPECIFICATION Spec
CONSTANTS
  NodeLists <- MCNodeLists
  Fanouts <- MCFanouts
  Batches <- MCBatches
  Pendings <- MCPendings
  Variants = {"cut", "entropy", "hier"}
  Shares = 60
  Ln <- MCLn
  Tolerance = 260
  None = None
  NDemands = 3
  Shapes <- MCShapes
INVARIANTS
  PlacementsAccountFor
  UnscheduledStaysUnfit
  HierarchyWellFormed
PROPERTIES
  DeltaIsExact
  GreedyIsBest
  WholeDevicesKept
  HierNeverFalls
CHECK_DEADLOCK FALSE
