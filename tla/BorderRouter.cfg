SPECIFICATION Spec
CONSTANTS
  NumInputs = 2
  NumOutputs = 2
  Loads <- MCLoads
  num_input_packets <- MCCounts
  MaxBurst = 1
CHECK_DEADLOCK FALSE
INVARIANTS
  FilledBeforeStart
  AnalysesLast
  MissesOneBurst
PROPERTIES
  SummarySpecs
  Finishes
