SPECIFICATION Spec
CONSTANTS
  a1 = a1
  a2 = a2
  b1 = b1
  Routers = {1, 2, 3}
  Packets = {a1, a2, b1}
  ClassOf <- MCClassOf
  Code <- MCCode
  Entry <- MCEntry
  numInputs <- MCNumInputs
  numQueues <- MCNumQueues
  qWeights <- MCWeights
  diffServices <- MCDiffServices
  links <- MCLinks
  routes <- MCRoutes
  DiffServ = TRUE
  AllowStop = TRUE
CONSTRAINT StoppedLate
CHECK_DEADLOCK FALSE
INVARIANTS
  InOrder
  OnlyOnPath
  FlowTotalsExact
PROPERTIES
  DeliverySpec
