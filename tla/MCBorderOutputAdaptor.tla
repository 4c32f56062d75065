----------------------- MODULE MCBorderOutputAdaptor -----------------------
EXTENDS BorderOutputAdaptor, TLC

MCWeights == (0 :> 2) @@ (1 :> 1) @@ (2 :> 1)
MCRates   == (0 :> 1) @@ (1 :> 2) @@ (2 :> 1)
MCGarbage == {0, 1}
MCUninit  == {0, 2}
Perms     == Permutations(Packets)

(***************************************************************************)
(* Bound of the Poisson and the liveness runs: all the packets go to queue *)
(* 1, whose plan for three packets at rate 2 is one burst too short.  The  *)
(* input side owes no packet, so this cuts no fair behaviour short.        *)
(***************************************************************************)
OnlyQueueOne == \A q \in QIds \ {1} : offered[q] = << >>
=============================================================================
