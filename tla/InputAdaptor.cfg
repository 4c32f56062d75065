SPECIFICATION Spec
CONSTANTS
  NumOctets = 2
  OctetBits = 2
  Tables <- MCTables
  Inputs <- MCInputs
  MaxLoaded = 5
CHECK_DEADLOCK FALSE
INVARIANTS
  CountsAllButTheRest
  SwitchesTheFile
PROPERTIES
  NotifiesUnlessEmptyPacket
