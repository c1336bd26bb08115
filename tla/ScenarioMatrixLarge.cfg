SPECIFICATION MatrixSpec
CONSTANTS
  NodesMaster <- TwoNodes
  PodLists <- MCPodLists
  Names = {"first_fit", "fgd", "w_fgd", "round_robin"}
  Typicals <- MCTypicals
  Shares = 4
  Ln <- MCLn
  Tolerance = 260
  None = None
  NPods = 2
  NodeTable <- MCNodeTable
  PodTables <- MCPodTables
  NRows = 4
  Limit = 3
INVARIANT
  LargeJobsAreFine
CHECK_DEADLOCK FALSE
