SPECIFICATION Spec
CONSTANTS
  NodeList <- ThreeNodes
  Batches <- MCBatches
  Typicals <- MCTypicals
  Names <- POLICIES
  None = None
  NPods = 4
  UserOf <- MCUserOf
  ReportTypical <- TypicalPods
  Shapes <- MCShapes
INVARIANTS
  ResultsAccountFor
  RejectedStaysUnfit
  RoundRobinFair
  RowAddsUp
  StarvedUsersShow
  ScoreSeesRejections
PROPERTIES
  FgdRaisesScoreLeast
  PacksOrSpreads
CHECK_DEADLOCK FALSE
