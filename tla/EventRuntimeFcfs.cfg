\* The documented drain against the one the code performs.
SPECIFICATION Spec
CONSTANTS
  Nodes = {"n1"}
  NodeOf <- OneNode
  Traces <- MCTraces
  MaxQueueTimes = {None}
  None = None
  NPods = 4
  Times = {0, 1}
  Durations = {1, 2}
  Shapes <- QueueShapes
PROPERTY
  DrainIsFcfs
CHECK_DEADLOCK FALSE
