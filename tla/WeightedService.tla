--------------------------- MODULE WeightedService ---------------------------
(***************************************************************************)
(* The pop task against any pattern of arrivals: packets reach the queues  *)
(* at any time, and terminate() may be called once.  Two histories measure *)
(* what the weighted round robin promises the other queues and the caller  *)
(* of terminate().                                                         *)
(***************************************************************************)
EXTENDS DeQueueProcessor, Functions

VARIABLES arrived,      \* the packets that have reached a queue
          bypass,       \* history: the packets of other queues sent while
                        \* this queue had packets waiting and was not served
          afterStop     \* history: the packets sent since terminate()

vars == << queues, deqVars, arrived, bypass, afterStop >>

Init ==
  /\ QueuesInit
  /\ DeqInit
  /\ arrived = {}
  /\ bypass = [q \in QIds |-> 0]
  /\ afterStop = 0

Start ==
  /\ deqPc = "off"
  /\ deqPc' = "run"
  /\ UNCHANGED << queues, deqQ, deqI, hand, deqTotal, deqStop, sent, itemsInQ,
                  residenceTime, arrived, bypass, afterStop >>

Arrive(q, p) ==
  /\ p \notin arrived
  /\ QueuePush(q, p)
  /\ arrived' = arrived \cup {p}
  /\ UNCHANGED << deqVars, bypass, afterStop >>

Stop ==
  /\ ~ deqStop
  /\ DeqTerminate
  /\ UNCHANGED << queues, deqPc, deqQ, deqI, hand, deqTotal, sent, itemsInQ,
                  residenceTime, arrived, bypass, afterStop >>

(***************************************************************************)
(* A queue is bypassed by each packet sent from another queue while it     *)
(* waits; its own pop resets the count.                                    *)
(***************************************************************************)
Serve ==
  /\ DeqStep
  /\ bypass' = [q \in QIds |->
                  IF (q = deqQ /\ deqPc = "burst") \/ QueueEmpty(q) THEN 0
                  ELSE IF deqPc = "transfer" /\ q # deqQ THEN bypass[q] + 1
                  ELSE bypass[q]]
  /\ afterStop' = IF deqPc = "transfer" /\ deqStop THEN afterStop + 1
                  ELSE afterStop
  /\ UNCHANGED arrived

Next ==
  \/ Start
  \/ \E q \in QIds, p \in Packets : Arrive(q, p)
  \/ Stop
  \/ Serve

(***************************************************************************)
(* The thread runs whenever it can; arrivals and Stop are not owed.        *)
(***************************************************************************)
Spec == Init /\ [][Next]_vars /\ WF_vars(Serve) /\ WF_vars(Start)
-----------------------------------------------------------------------------
(***************************************************************************)
(* Weighted fairness: while a visited queue of positive weight waits, the  *)
(* other queues together send at most one full round of their weights.     *)
(***************************************************************************)
BoundedBypass ==
  \A q \in 0 .. (Visited - 1) :
    qWeights[q] > 0 =>
      bypass[q] <= SumFunctionOnSet(qWeights, (0 .. (Visited - 1)) \ {q})

(***************************************************************************)
(* Stop is prompt: after terminate() the task sends at most the burst it   *)
(* is in or about to begin.                                                *)
(***************************************************************************)
PromptStop ==
  /\ afterStop <= qWeights[deqQ]
  /\ deqPc = "end" => hand = << >>

(***************************************************************************)
(* No starvation: unless it is told to end, the task eventually sends every*)
(* packet of a visited queue of positive weight.                           *)
(***************************************************************************)
EveryPacketServed ==
  \A q \in 0 .. (Visited - 1), p \in Packets :
    qWeights[q] > 0 =>
      ((\E k \in 1 .. Len(queues[q]) : queues[q][k] = p)
         ~> (deqStop \/ \E k \in 1 .. Len(sent[q]) : sent[q][k] = p))

(***************************************************************************)
(* terminate() is eventually obeyed.                                       *)
(***************************************************************************)
StopObeyed == deqStop ~> (deqPc = "end")
=============================================================================
