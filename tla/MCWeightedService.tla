-------------------------- MODULE MCWeightedService --------------------------
EXTENDS WeightedService, TLC

CONSTANTS p1, p2, p3, p4, p5

MCPackets == {p1, p2, p3, p4, p5}
MCWeights == (0 :> 2) @@ (1 :> 1) @@ (2 :> 1)
MCUninit  == {7}

(***************************************************************************)
(* Bound of the run: the packets arrive in one order.  They are            *)
(* interchangeable and none is obliged to arrive, so nothing is lost.      *)
(***************************************************************************)
InOrder == \A k \in 2 .. 5 :
             << p1, p2, p3, p4, p5 >>[k] \in arrived
               => << p1, p2, p3, p4, p5 >>[k - 1] \in arrived
=============================================================================
