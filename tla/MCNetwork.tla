------------------------------ MODULE MCNetwork ------------------------------
(***************************************************************************)
(* Model values for Network: two core routers, the first with two output   *)
(* adaptors, so that its sum can be seen half done, the second with one.   *)
(***************************************************************************)
EXTENDS Network

RouterOutputs == [i \in Core |-> IF i = 1 THEN 2 ELSE 1]
=============================================================================
