SPECIFICATION PlanSpec
CONSTANTS
  Loads <- MCLoads
  Rates <- MCRates
  MaxI = 64
CHECK_DEADLOCK FALSE
INVARIANTS
  SearchFindsFactor
  MeanIsRate
  ShortfallBounded
PROPERTIES
  PlanMade
