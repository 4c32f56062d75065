--------------------------- MODULE MCLockFreeQueue ---------------------------
EXTENDS LockFreeQueue, TLC

CONSTANTS p1, p2, c1

(***************************************************************************)
(* p1 pushes once, so that it can be overtaken anywhere by p2, which       *)
(* pushes often enough to see the node that p1 has seen in a second life.  *)
(***************************************************************************)
MCPushes == (p1 :> 1) @@ (p2 :> 2)
=============================================================================
