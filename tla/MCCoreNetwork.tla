--------------------------- MODULE MCCoreNetwork ---------------------------
EXTENDS CoreNetwork

CONSTANTS a1, a2, b1

(***************************************************************************)
(* Routers r1, r2 and r3 of config/DIFFSERV, without the outputs of r2 and *)
(* r3 that lead to other routers, with the links l3 and l6 among them      *)
(* (config/network.ini) and two rows of the tables in config/p4:           *)
(* "a" 177.215.200/21 by r1 and r3, and "b" 216.15/16 by r2, r1 and r3.    *)
(* The weights of the queues of class "a" are 1 instead of 3, so that two  *)
(* packets make two bursts; the output of r1 that leads elsewhere, which no*)
(* packet takes here, has one queue instead of two.                        *)
(***************************************************************************)
MCClassOf == [p \in Packets |-> IF p = b1 THEN "b" ELSE "a"]

MCCode  == [a |-> 20, b |-> 10]
MCEntry == [a |-> << 1, 1 >>, b |-> << 2, 1 >>]

MCNumInputs    == << 2, 1, 1 >>
MCNumQueues    == << << 1, 2 >>, << 1 >>, << 2 >> >>
MCWeights      == << << 1, 2, 1 >>, << 2 >>, << 1, 2 >> >>
MCDiffServices == << << 0, 10, 20 >>, << 10 >>, << 20, 10 >> >>

MCLinks == (<< 1, 2 >> :> << 3, 1 >>) @@ (<< 2, 1 >> :> << 1, 2 >>)

MCRoutes ==
  << [a |-> << 2, 3 >>, b |-> << 2, 1 >>],
     [a |-> << 1, 3 >>, b |-> << 1, 1 >>],
     [a |-> << 1, 3 >>, b |-> << 1, 1 >>] >>

\* The tables of this configuration send no packet to a queue that is missing.
ASSUME OfferedAssumption == QueuesOffered

(***************************************************************************)
(* Bound: the routers are stopped when all packets are sent and have come  *)
(* to r3's output adaptor, the one with the file, and the others are idle. *)
(* The user owes nothing, so this cuts no fair behaviour short.            *)
(***************************************************************************)
StoppedLate ==
  Stopping =>
    /\ Len(sent) = Cardinality(Packets)
    /\ \A a \in InAdaptors : inpQueue[a] = << >> /\ inpHand[a] = << >>
    /\ \A a \in OutAdaptors \ {<< 3, 1 >>} :
         /\ outPc[a] \in {"next", "end"}
         /\ \A q \in Queues(a) : outQueue[a][q] = << >>
=============================================================================
