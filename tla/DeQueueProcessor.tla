-------------------------- MODULE DeQueueProcessor --------------------------
(***************************************************************************)
(* The pop task of a border output adaptor (dequeueprocessor.cpp): one     *)
(* thread that visits the queues in turn, forwards up to qWeights[q]       *)
(* packets of the queue it visits over the link, sleeps for the service    *)
(* time and then records one residence time for each packet of the burst.  *)
(*                                                                         *)
(* The reads of doTerminate and of the queue are steps of their own, as    *)
(* are the transfer and the increment of the counter that follows it: the  *)
(* adaptor reads that counter from another thread.                         *)
(***************************************************************************)
EXTENDS PacketQueues, Integers

CONSTANTS qWeights,     \* the packets a visit to each queue may forward
          UninitTotals  \* what totalPacketsProccessed, which the constructor
                        \* leaves unset, may hold until run() clears it

ASSUME WeightsAssumption == qWeights \in [QIds -> Nat]
ASSUME UninitTotalsAssumption == UninitTotals \subseteq Int /\ UninitTotals # {}

VARIABLES deqPc,          \* where the thread is
          deqQ,           \* the queue visited last: `temp % 3`
          deqI,           \* the packets forwarded in this visit
          hand,           \* the packet popped and not yet transferred
          deqTotal,       \* totalPacketsProccessed
          deqStop,        \* doTerminate
          sent,           \* what Link::transfer received from each queue
          itemsInQ,       \* the number of depth samples of each queue
          residenceTime   \* the number of residence samples of each queue

deqVars == << deqPc, deqQ, deqI, hand, deqTotal, deqStop, sent, itemsInQ,
              residenceTime >>

(***************************************************************************)
(* The round robin is over three queues whatever numQueues is.  With fewer *)
(* the code would index past the array, so a configuration has at least    *)
(* three.                                                                  *)
(***************************************************************************)
Visited == 3

ASSUME VisitedAssumption == NumQueues >= Visited

DeqPcs == {"off", "run", "loop", "visit", "burst", "transfer", "count",
           "service", "end"}

DeqTypeOK ==
  /\ deqPc \in DeqPcs
  /\ deqQ \in 0 .. (Visited - 1)
  /\ deqI \in Nat
  /\ hand \in Seq(Packets)
  /\ deqTotal \in Int
  /\ sent \in [QIds -> Seq(Packets)]
  /\ itemsInQ \in [QIds -> Nat]
  /\ residenceTime \in [QIds -> Nat]

DeqInit ==
  /\ deqPc = "off"
  /\ deqQ = Visited - 1           \* temp = -1: the first visit is to 0
  /\ deqI = 0
  /\ hand = << >>
  /\ deqTotal \in UninitTotals
  /\ deqStop = FALSE
  /\ sent = [q \in QIds |-> << >>]
  /\ itemsInQ = [q \in QIds |-> 0]
  /\ residenceTime = [q \in QIds |-> 0]

DeqRun ==
  /\ deqPc = "run"
  /\ deqPc' = "loop"
  /\ deqTotal' = 0
  /\ UNCHANGED << queues, deqQ, deqI, hand, deqStop, sent, itemsInQ,
                  residenceTime >>

\* Mutants of Stopped: the flag is not read; the queues are drained first.
StoppedNever == FALSE

StoppedWhenDrained == deqStop /\ \A q \in QIds : QueueEmpty(q)

Stopped == deqStop

DeqExit ==
  /\ deqPc = "loop"
  /\ Stopped
  /\ deqPc' = "end"
  /\ UNCHANGED << queues, deqQ, deqI, hand, deqTotal, deqStop, sent, itemsInQ,
                  residenceTime >>

\* Mutants of NextQueue: the round is one queue short; the modulus is missing.
NextQueueShort == (deqQ + 1) % (Visited - 1)

NextQueueUnbounded == deqQ + 1

NextQueue == (deqQ + 1) % Visited

DeqNextQueue ==
  /\ deqPc = "loop"
  /\ ~ Stopped
  /\ deqQ' = NextQueue
  /\ deqPc' = "visit"
  /\ UNCHANGED << queues, deqI, hand, deqTotal, deqStop, sent, itemsInQ,
                  residenceTime >>

DeqSkip ==
  /\ deqPc = "visit"
  /\ QueueEmpty(deqQ)
  /\ deqPc' = "loop"
  /\ UNCHANGED << queues, deqQ, deqI, hand, deqTotal, deqStop, sent, itemsInQ,
                  residenceTime >>

DeqVisit ==
  /\ deqPc = "visit"
  /\ ~ QueueEmpty(deqQ)
  /\ itemsInQ' = [itemsInQ EXCEPT ![deqQ] = @ + 1]
  /\ deqI' = 0
  /\ deqPc' = "burst"
  /\ UNCHANGED << queues, deqQ, hand, deqTotal, deqStop, sent, residenceTime >>

\* Mutant of DeqPop: one packet more than the weight.
DeqPopOneMore ==
  /\ deqPc = "burst"
  /\ deqI <= qWeights[deqQ]
  /\ ~ QueueEmpty(deqQ)
  /\ hand' = << Head(queues[deqQ]) >>
  /\ QueuePop(deqQ)
  /\ deqPc' = "transfer"
  /\ UNCHANGED << deqQ, deqI, deqTotal, deqStop, sent, itemsInQ,
                  residenceTime >>

DeqPop ==
  /\ deqPc = "burst"
  /\ deqI < qWeights[deqQ]
  /\ ~ QueueEmpty(deqQ)
  /\ hand' = << Head(queues[deqQ]) >>
  /\ QueuePop(deqQ)
  /\ deqPc' = "transfer"
  /\ UNCHANGED << deqQ, deqI, deqTotal, deqStop, sent, itemsInQ,
                  residenceTime >>

DeqTransfer ==
  /\ deqPc = "transfer"
  /\ sent' = [sent EXCEPT ![deqQ] = @ \o hand]
  /\ hand' = << >>
  /\ deqPc' = "count"
  /\ UNCHANGED << queues, deqQ, deqI, deqTotal, deqStop, itemsInQ,
                  residenceTime >>

DeqCount ==
  /\ deqPc = "count"
  /\ deqTotal' = deqTotal + 1
  /\ deqI' = deqI + 1
  /\ deqPc' = "burst"
  /\ UNCHANGED << queues, deqQ, hand, deqStop, sent, itemsInQ,
                  residenceTime >>

(***************************************************************************)
(* The burst ends at its weight or when pop finds the queue empty.  Only a *)
(* burst that forwarded something is followed by the service time and the  *)
(* residence samples.                                                      *)
(***************************************************************************)
DeqEndBurst ==
  /\ deqPc = "burst"
  /\ deqI >= qWeights[deqQ] \/ QueueEmpty(deqQ)
  /\ deqPc' = IF deqI = 0 THEN "loop" ELSE "service"
  /\ UNCHANGED << queues, deqQ, deqI, hand, deqTotal, deqStop, sent, itemsInQ,
                  residenceTime >>

\* Mutant of DeqService: one residence sample a burst, not one a packet.
DeqServiceOnce ==
  /\ deqPc = "service"
  /\ residenceTime' = [residenceTime EXCEPT ![deqQ] = @ + 1]
  /\ deqI' = 0
  /\ deqPc' = "loop"
  /\ UNCHANGED << queues, deqQ, hand, deqTotal, deqStop, sent, itemsInQ >>

DeqService ==
  /\ deqPc = "service"
  /\ residenceTime' = [residenceTime EXCEPT ![deqQ] = @ + deqI]
  /\ deqI' = 0
  /\ deqPc' = "loop"
  /\ UNCHANGED << queues, deqQ, hand, deqTotal, deqStop, sent, itemsInQ >>

DeqStep ==
  \/ DeqRun
  \/ DeqExit
  \/ DeqNextQueue
  \/ DeqSkip
  \/ DeqVisit
  \/ DeqPop
  \/ DeqTransfer
  \/ DeqCount
  \/ DeqEndBurst
  \/ DeqService

(***************************************************************************)
(* terminate(), called by another thread.                                  *)
(***************************************************************************)
DeqTerminate == deqStop' = TRUE
=============================================================================
