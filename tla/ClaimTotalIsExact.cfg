SPECIFICATION Spec
CONSTANTS
  p1 = p1
  Packets = {p1}
  NumQueues = 3
  arrivalRate <- MCRates
  IsPoisson = FALSE
  Garbage <- MCGarbage
  qWeights <- MCWeights
  UninitTotals = {0}
  AllowStop = FALSE
CHECK_DEADLOCK FALSE
INVARIANTS
  TotalIsExact
