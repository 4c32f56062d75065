--------------------------- MODULE MCBorderRouter ---------------------------
EXTENDS BorderRouter, TLC

\* The second packet of input 0 is the rest of its trace.
MCLoads  == (0 :> << 0, 1 >>) @@ (1 :> << 1 >>)
MCCounts == (0 :> 1) @@ (1 :> 1)
=============================================================================
