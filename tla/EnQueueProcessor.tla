-------------------------- MODULE EnQueueProcessor --------------------------
(***************************************************************************)
(* The push tasks of a border output adaptor (enqueueprocessor.cpp): one   *)
(* thread per queue, which moves the packets of its buffer into its queue  *)
(* in bursts, one burst a second, and then tells the adaptor how many it   *)
(* moved (that call, OutputAdaptor::notify, is in BorderOutputAdaptor).    *)
(*                                                                         *)
(* The buffer and the counters of a thread are its own while it runs; the  *)
(* queue is what it shares.  A burst is therefore one step per push.       *)
(***************************************************************************)
EXTENDS PacketQueues, PoissonArrivals

CONSTANTS arrivalRate,  \* the packets a second of each thread
          IsPoisson,    \* arrivalType = POISSON_ARRIVAL
          Garbage       \* what reading the last element of an empty vector
                        \* may yield

ASSUME ArrivalRateAssumption == arrivalRate \in [QIds -> Nat \ {0}]
ASSUME IsPoissonAssumption == IsPoisson \in BOOLEAN
ASSUME GarbageAssumption == Garbage \subseteq Int

VARIABLES pBuffers,        \* the packets still to be pushed
          enqPc,           \* where each thread is
          poissonArrivals, \* the bursts it still has planned (Poisson only)
          quota,           \* what is left of the burst it is in
          enqTotal         \* totalPacketsProccessed

enqVars == << pBuffers, enqPc, poissonArrivals, quota, enqTotal >>

EnqPcs == {"off", "plan", "loop", "burst"}

EnqTypeOK ==
  /\ pBuffers \in [QIds -> Seq(Packets)]
  /\ poissonArrivals \in [QIds -> Seq(Int)]
  /\ quota \in [QIds -> Int]
  /\ enqTotal \in [QIds -> Nat]

EnqInit ==
  /\ pBuffers = [q \in QIds |-> << >>]
  /\ enqPc = [q \in QIds |-> "off"]
  /\ poissonArrivals = [q \in QIds |-> << >>]
  /\ quota = [q \in QIds |-> 0]
  /\ enqTotal = [q \in QIds |-> 0]

EnqGoto(q, pc) == enqPc' = [enqPc EXCEPT ![q] = pc]

(***************************************************************************)
(* run(): a Poisson thread plans its bursts first.  When the split search  *)
(* accepts no factor the thread never gets past it and EnqPlan is not      *)
(* enabled.                                                                *)
(***************************************************************************)
EnqEntry == IF IsPoisson THEN "plan" ELSE "loop"

EnqPlan(q) ==
  /\ enqPc[q] = "plan"
  /\ \E l \in SplitFactors(Len(pBuffers[q]), arrivalRate[q]) :
       poissonArrivals' = [poissonArrivals EXCEPT
         ![q] = Schedule(Len(pBuffers[q]), arrivalRate[q], l)]
  /\ EnqGoto(q, "loop")
  /\ UNCHANGED << queues, pBuffers, quota, enqTotal >>

(***************************************************************************)
(* The size of the next burst: the rate, or the last planned value; with   *)
(* nothing left in the plan, back() is undefined.                          *)
(***************************************************************************)
BurstSizes(q) ==
  IF ~ IsPoisson                    THEN {arrivalRate[q]}
  ELSE IF poissonArrivals[q] = << >> THEN Garbage
  ELSE {poissonArrivals[q][Len(poissonArrivals[q])]}

EnqBegin(q) ==
  /\ enqPc[q] = "loop"
  /\ pBuffers[q] # << >>
  /\ \E size \in BurstSizes(q) : quota' = [quota EXCEPT ![q] = size]
  /\ EnqGoto(q, "burst")
  /\ UNCHANGED << queues, pBuffers, poissonArrivals, enqTotal >>

EnqPush(q) ==
  /\ enqPc[q] = "burst"
  /\ quota[q] > 0
  /\ pBuffers[q] # << >>
  /\ QueuePush(q, Head(pBuffers[q]))
  /\ pBuffers' = [pBuffers EXCEPT ![q] = Tail(@)]
  /\ enqTotal' = [enqTotal EXCEPT ![q] = @ + 1]
  /\ quota' = [quota EXCEPT ![q] = @ - 1]
  /\ UNCHANGED << enqPc, poissonArrivals >>

\* Mutant of EnqEndBurst: an empty buffer does not end the burst.
EnqEndBurstOnQuota(q) ==
  /\ enqPc[q] = "burst"
  /\ quota[q] <= 0
  /\ poissonArrivals' = [poissonArrivals EXCEPT
                        ![q] = SubSeq(@, 1, Len(@) - 1)]
  /\ quota' = [quota EXCEPT ![q] = 0]
  /\ EnqGoto(q, "loop")
  /\ UNCHANGED << queues, pBuffers, enqTotal >>

(***************************************************************************)
(* The end of a burst: a Poisson thread drops the value it used (there is  *)
(* nothing to drop once the plan is exhausted), and both sleep a second.   *)
(***************************************************************************)
EnqEndBurst(q) ==
  /\ enqPc[q] = "burst"
  /\ quota[q] <= 0 \/ pBuffers[q] = << >>
  /\ poissonArrivals' = [poissonArrivals EXCEPT
                        ![q] = SubSeq(@, 1, Len(@) - 1)]
  /\ quota' = [quota EXCEPT ![q] = 0]
  /\ EnqGoto(q, "loop")
  /\ UNCHANGED << queues, pBuffers, enqTotal >>

\* Mutant of EnqDrained: the loop ends after any burst.
EnqDrainedAnyway(q) == enqPc[q] = "loop"

(***************************************************************************)
(* The loop ends when the buffer is found empty.                           *)
(***************************************************************************)
EnqDrained(q) ==
  /\ enqPc[q] = "loop"
  /\ pBuffers[q] = << >>

EnqStep(q) ==
  \/ EnqPlan(q)
  \/ EnqBegin(q)
  \/ EnqPush(q)
  \/ EnqEndBurst(q)
=============================================================================
