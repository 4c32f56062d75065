SPECIFICATION Spec
CONSTANTS
  p1 = p1
  p2 = p2
  Packets = {p1, p2}
  NumQueues = 3
  arrivalRate <- MCRates
  IsPoisson = FALSE
  Garbage <- MCGarbage
  qWeights <- MCWeights
  UninitTotals <- MCUninit
  AllowStop = FALSE
SYMMETRY Perms
CHECK_DEADLOCK FALSE
INVARIANTS
  TypeOK
  Conservation
  CompleteMeansFlushed
  RaceFreeCompletion
  SamplesMatchTraffic
  ReportsNeverInvent
PROPERTIES
  SummarySpec
