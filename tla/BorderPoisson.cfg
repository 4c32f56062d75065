SPECIFICATION Spec
CONSTANTS
  p1 = p1
  p2 = p2
  p3 = p3
  Packets = {p1, p2, p3}
  NumQueues = 3
  arrivalRate <- MCRates
  IsPoisson = TRUE
  Garbage <- MCGarbage
  qWeights <- MCWeights
  UninitTotals = {0}
  AllowStop = TRUE
SYMMETRY Perms
CONSTRAINT OnlyQueueOne
CHECK_DEADLOCK FALSE
PROPERTIES
  ChannelSpec
