SPECIFICATION Spec
CONSTANTS
  p1 = p1
  Packets = {p1}
  NumQueues = 3
  arrivalRate <- MCRates
  IsPoisson = FALSE
  Garbage <- MCGarbage
  qWeights <- MCWeights
  UninitTotals = {0}
  AllowStop = TRUE
CONSTRAINT OnlyQueueOne
CHECK_DEADLOCK FALSE
PROPERTIES
  Finishes
  PushTasksReturn
