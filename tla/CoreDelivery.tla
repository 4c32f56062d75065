---------------------------- MODULE CoreDelivery ----------------------------
(***************************************************************************)
(* What the main thread sees of the core network: the border router sends  *)
(* packets into it and the destination adaptors count those they have      *)
(* written.  It owes that until it is being stopped.  Network takes the    *)
(* core network to do this and no more.                                    *)
(***************************************************************************)
EXTENDS Naturals, Functions

CONSTANT Destinations   \* the output adaptors with a file behind them

VARIABLES sent,         \* how many packets the border router has sent
          toDest,       \* processedPacketsToDest of each destination
          stopping      \* the first terminate() has been called

vars == << sent, toDest, stopping >>

Init ==
  /\ sent = 0
  /\ toDest = [a \in Destinations |-> 0]
  /\ stopping = FALSE

Send ==
  /\ sent' = sent + 1
  /\ UNCHANGED << toDest, stopping >>

Arrive(a) ==
  /\ SumFunction(toDest) < sent
  /\ toDest' = [toDest EXCEPT ![a] = @ + 1]
  /\ UNCHANGED << sent, stopping >>

Stop ==
  /\ stopping' = TRUE
  /\ UNCHANGED << sent, toDest >>

Next == Send \/ (\E a \in Destinations : Arrive(a)) \/ Stop

Spec == /\ Init
        /\ [][Next]_vars
        /\ WF_vars(~ stopping /\ \E a \in Destinations : Arrive(a))
=============================================================================
