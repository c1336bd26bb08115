SPECIFICATION RunSpec
CONSTANTS
  Nodes = {1, 2}
  NodeOf <- TwoNodes
  Traces <- MCTraces
  MaxQueueTimes = {None}
  None = None
  Names <- MCPolicies
  Typicals <- MCTypicals
  Every = 1
  ReportTypical <- TypicalPods
  UserOf <- MCUserOf
  Threshold = 0
  NPods = 3
  Times = {0, 1}
  Durations = {1, 2}
  Shapes <- MCShapes
INVARIANTS
  ContractKept
  SamplesMatchOutcomes
  FinalRowIsBlind
  WastedIsTheRest
  NoTimeLost
  SlaMatchesPercentiles
CHECK_DEADLOCK FALSE
