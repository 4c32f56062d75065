SPECIFICATION Spec
CONSTANTS
  NumRouters = 3
  NumOutputs <- RouterOutputs
  NumQueues = 2
  Total = 2
  Shortfalls = {0, 1}
  MaxStops = 2
CHECK_DEADLOCK FALSE
INVARIANTS
  SumNeverExceeds
  NeverStopsEarly
  PrintsAll
  StopSpoilsLittle
PROPERTIES
  RunEnds
  StopEnds
