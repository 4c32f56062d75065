SPECIFICATION Spec
CONSTANTS
  p1 = p1
  p2 = p2
  p3 = p3
  p4 = p4
  p5 = p5
  Packets <- MCPackets
  NumQueues = 3
  qWeights <- MCWeights
  UninitTotals <- MCUninit
CONSTRAINT InOrder
CHECK_DEADLOCK FALSE
INVARIANTS
  BoundedBypass
  PromptStop
PROPERTIES
  EveryPacketServed
  StopObeyed
