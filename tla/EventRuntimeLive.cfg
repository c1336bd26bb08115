\* Termination and the refinement, under the fairness of the `while' loop.
SPECIFICATION FairSpec
CONSTANTS
  Nodes = {"n1", "n2"}
  NodeOf <- TwoNodes
  Traces <- MCTraces
  MaxQueueTimes = {None, 0}
  None = None
  NPods = 3
  Times = {0, 1}
  Durations = {0, 1}
  Shapes <- MixedShapes
PROPERTIES
  Termination
  ImplementsQueue
CHECK_DEADLOCK FALSE
