---------------------------- MODULE MCPoissonPlan ----------------------------
EXTENDS PoissonPlan

MCLoads == 0 .. 60
MCRates == 1 .. 5
=============================================================================
