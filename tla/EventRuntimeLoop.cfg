SPECIFICATION Spec
CONSTANTS
  Nodes = {"n1", "n2"}
  NodeOf <- TwoNodes
  Traces <- LoopTraces
  MaxQueueTimes = {None, 0, 1}
  None = None
  NPods = 3
  Times = {0, 1, 2}
  Durations = {0, 1}
  Shapes <- MixedShapes
INVARIANTS
  ArrivalsFirst
  WaitBounded
  RejectedForCause
  IndInv
  WorkConserving
  CapacityConserved
  ReleasesMatchHoldings
  NotPassedByLarger
  StartsOnOccasion
PROPERTIES
  OutcomesFinal
  StepsRunOut
CHECK_DEADLOCK FALSE
