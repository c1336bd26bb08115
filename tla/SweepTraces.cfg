SPECIFICATION SweepSpec
CONSTANTS
  Unit = 12
  Tables <- MCTables
  GpusPerNode = 2
  Targets <- MCTargets
  NodeCounts = {0, 2}
  PodFiles <- MCPodFiles
  NodeFile <- MCNodeFile
  Factors <- MCFactors
  Second = 2
  None = None
  NJobs = 2
  LastTick = 3
INVARIANTS
  SizedToTarget
  Runnable
  OriginalsKeepTheirTurn
CHECK_DEADLOCK FALSE
