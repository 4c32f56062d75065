SPECIFICATION Spec
CONSTANTS
  p1 = p1
  p2 = p2
  c1 = c1
  Producers = {p1, p2}
  Consumers = {c1}
  NumNodes = 3
  Pushes <- MCPushes
  Mortal = {p1}
CHECK_DEADLOCK FALSE
INVARIANTS
  FailsOnlyWhenEmpty
  SizeDrift
PROPERTIES
  FifoSpec
  CallsReturn
