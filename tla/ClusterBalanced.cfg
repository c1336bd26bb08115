SPECIFICATION Spec
CONSTANTS
  NodeList <- LikeNodes
  Batches <- MCBatches
  Typicals <- LikeTypicals
  Names = {"w_fgd_balanced"}
  None = None
  NPods = 2
  UserOf <- MCUserOf
  ReportTypical <- TypicalPods
  Shapes <- LikeShapes
PROPERTY
  BalancedLeavesNodesEmpty
CHECK_DEADLOCK FALSE
