SPECIFICATION Spec
CONSTANTS
  PodLists <- MCPodLists
  NPods = 6
INVARIANTS
  TypicalNested
  ShapesAreRanked
CHECK_DEADLOCK FALSE
