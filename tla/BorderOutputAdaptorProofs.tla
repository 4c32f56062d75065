--------------------- MODULE BorderOutputAdaptorProofs ---------------------
(***************************************************************************)
(* Theorems about the border output adaptor, for any number of queues,     *)
(* packets, rates, weights and bursts, deterministic or Poisson, and for   *)
(* every interleaving of its threads, Stop included.                       *)
(***************************************************************************)
EXTENDS BorderOutputAdaptor, OperatorTheorems, SequenceTheorems

LEMMA VisitedQueues == 0 .. (Visited - 1) \subseteq QIds /\ QIds \subseteq Nat
  BY VisitedAssumption, NumQueuesAssumption DEF Visited, QIds

(***************************************************************************)
(* Type correctness.  The starting loop stays inside the array because it  *)
(* is left when the last queue has been started.                           *)
(***************************************************************************)
StartingInBounds == adPc \in {"idle", "startEnq"} => adI \in QIds

Types ==
  /\ QueuesTypeOK
  /\ EnqTypeOK
  /\ enqPc \in [QIds -> EnqPcs \cup NotifyPcs \cup {"end"}]
  /\ DeqTypeOK
  /\ AdaptorTypeOK
  /\ StartingInBounds

LEMMA TypeInit == Init => Types
  <1> SUFFICES ASSUME Init PROVE Types
    OBVIOUS
  <1> USE DEF Init, QIds
  <1>1. QueuesTypeOK
    BY DEF QueuesInit, QueuesTypeOK
  <1>2. EnqTypeOK /\ enqPc \in [QIds -> EnqPcs \cup NotifyPcs \cup {"end"}]
    BY DEF EnqInit, EnqTypeOK, EnqPcs
  <1>3. DeqTypeOK
    BY UninitTotalsAssumption DEF DeqInit, DeqTypeOK, DeqPcs, Visited
  <1>4. AdaptorTypeOK /\ StartingInBounds
    BY NumQueuesAssumption
    DEF AdaptorInit, AdaptorTypeOK, StartingInBounds, AdPcs
  <1> QED
    BY <1>1, <1>2, <1>3, <1>4 DEF Types

(***************************************************************************)
(* What a step of a push task, or of the pop task, has to keep.            *)
(***************************************************************************)
LEMMA TypesByPushTask ==
  ASSUME Types, QueuesTypeOK', EnqTypeOK',
         enqPc' \in [QIds -> EnqPcs \cup NotifyPcs \cup {"end"}],
         UNCHANGED << deqVars, adPc, adI, processedPackets, pPerQueue, stopPc,
                      offered >>,
         nEnqProcs' \in Nat, bprocessedPackets' \in Nat,
         nReg' \in [QIds -> Nat], bReg' \in [QIds -> Nat]
  PROVE  Types'
  <1>1. DeqTypeOK'
    BY DEF Types, DeqTypeOK, deqVars
  <1>2. AdaptorTypeOK'
    BY DEF Types, AdaptorTypeOK
  <1>3. StartingInBounds'
    BY DEF Types, StartingInBounds
  <1> QED
    BY ONLY QueuesTypeOK', EnqTypeOK', <1>1, <1>2, <1>3,
            enqPc' \in [QIds -> EnqPcs \cup NotifyPcs \cup {"end"}] DEF Types

LEMMA TypesByPopTask ==
  ASSUME Types, QueuesTypeOK', DeqTypeOK', UNCHANGED << enqVars, adVars, offered >>
  PROVE  Types'
  <1>1. EnqTypeOK' /\ enqPc' = enqPc
    BY DEF Types, EnqTypeOK, enqVars
  <1>2. AdaptorTypeOK'
    BY DEF Types, AdaptorTypeOK, adVars
  <1>3. StartingInBounds'
    BY DEF Types, StartingInBounds, adVars
  <1>4. enqPc' \in [QIds -> EnqPcs \cup NotifyPcs \cup {"end"}]
    BY <1>1 DEF Types
  <1> QED
    BY ONLY QueuesTypeOK', DeqTypeOK', <1>1, <1>2, <1>3, <1>4 DEF Types

LEMMA TypeNotify ==
  ASSUME Types, NEW q \in QIds, NotifyStep(q)
  PROVE  Types'
  <1> DEFINE Pcs == EnqPcs \cup NotifyPcs \cup {"end"}
  <1>1. UNCHANGED << queues, pBuffers, poissonArrivals, quota, enqTotal, deqVars,
                     adPc, adI, processedPackets, pPerQueue, stopPc, offered >>
    BY DEF NotifyStep, NLoad, NStore, BLoad, BStore, NTest
  <1>2. QueuesTypeOK /\ EnqTypeOK /\ enqPc \in [QIds -> Pcs] /\ AdaptorTypeOK
    BY DEF Types
  <1>3. QueuesTypeOK' /\ EnqTypeOK'
    BY <1>1, <1>2 DEF QueuesTypeOK, EnqTypeOK
  <1>4. \E pc \in NotifyPcs \cup {"end"} : enqPc' = [enqPc EXCEPT ![q] = pc]
    BY DEF NotifyStep, NLoad, NStore, BLoad, BStore, NTest, EnqGoto, NotifyPcs
  <1>5. enqPc' \in [QIds -> Pcs]
    BY ONLY <1>2, <1>4
  <1>6. /\ nEnqProcs \in Nat /\ bprocessedPackets \in Nat
        /\ nReg \in [QIds -> Nat] /\ bReg \in [QIds -> Nat]
        /\ enqTotal[q] \in Nat
    BY <1>2 DEF AdaptorTypeOK, EnqTypeOK
  <1>7. /\ nEnqProcs' \in {nEnqProcs, nReg[q] + 1}
        /\ bprocessedPackets' \in {bprocessedPackets, bReg[q] + enqTotal[q]}
    BY DEF NotifyStep, NLoad, NStore, BLoad, BStore, NTest
  <1>8. /\ nReg' = nReg \/ \E n \in {nEnqProcs, 0} : nReg' = [nReg EXCEPT ![q] = n]
        /\ \/ bReg' = bReg
           \/ \E n \in {bprocessedPackets, 0} : bReg' = [bReg EXCEPT ![q] = n]
    BY DEF NotifyStep, NLoad, NStore, BLoad, BStore, NTest
  <1>9. /\ nEnqProcs' \in Nat /\ bprocessedPackets' \in Nat
        /\ nReg' \in [QIds -> Nat] /\ bReg' \in [QIds -> Nat]
    BY ONLY q \in QIds, <1>6, <1>7, <1>8
  <1> QED
    BY <1>1, <1>3, <1>5, <1>9, TypesByPushTask

LEMMA TypePushTask ==
  ASSUME Types, NEW q \in QIds, PushTask(q)
  PROVE  Types'
  <1> USE DEF Types, QueuesTypeOK, EnqTypeOK, EnqPcs, NotifyPcs
  <1>1. CASE EnqPlan(q) /\ UNCHANGED << deqVars, adVars, offered, raced >>
    <2>1. PICK l \in SplitFactors(Len(pBuffers[q]), arrivalRate[q]) :
            poissonArrivals' = [poissonArrivals EXCEPT
              ![q] = Schedule(Len(pBuffers[q]), arrivalRate[q], l)]
      BY <1>1 DEF EnqPlan
    <2>2. Len(pBuffers[q]) \in Nat /\ arrivalRate[q] \in Nat \ {0}
      BY ArrivalRateAssumption
    <2>3. Schedule(Len(pBuffers[q]), arrivalRate[q], l) \in Seq(Nat \ {0})
      BY <2>2, PlannedBurstsPositive
    <2>4. Schedule(Len(pBuffers[q]), arrivalRate[q], l) \in Seq(Int)
      BY <2>3, SeqMonotonic, Nat \ {0} \subseteq Int
    <2>5. poissonArrivals' \in [QIds -> Seq(Int)]
      BY <2>1, <2>4
    <2> QED
      BY <1>1, <2>5 DEF EnqPlan, EnqGoto, deqVars, adVars, DeqTypeOK,
                        AdaptorTypeOK, StartingInBounds
  <1>2. CASE EnqBegin(q) /\ UNCHANGED << deqVars, adVars, offered, raced >>
    <2>1. BurstSizes(q) \subseteq Int
      <3>1. arrivalRate[q] \in Int
        BY ArrivalRateAssumption
      <3>2. ASSUME poissonArrivals[q] # << >>
            PROVE  poissonArrivals[q][Len(poissonArrivals[q])] \in Int
        <4>1. Len(poissonArrivals[q]) \in 1 .. Len(poissonArrivals[q])
          BY <3>2, EmptySeq
        <4> QED
          BY <4>1, ElementOfSeq
      <3> QED
        BY <3>1, <3>2, GarbageAssumption DEF BurstSizes
    <2>2. quota' \in [QIds -> Int]
      BY <1>2, <2>1 DEF EnqBegin
    <2> QED
      BY <1>2, <2>2 DEF EnqBegin, EnqGoto, deqVars, adVars, DeqTypeOK,
                        AdaptorTypeOK, StartingInBounds
  <1>3. CASE EnqPush(q) /\ UNCHANGED << deqVars, adVars, offered, raced >>
    <2>1. /\ Append(queues[q], Head(pBuffers[q])) \in Seq(Packets)
          /\ Tail(pBuffers[q]) \in Seq(Packets)
      BY <1>3, HeadTailProperties, AppendProperties DEF EnqPush
    <2>2. /\ queues' \in [QIds -> Seq(Packets)]
          /\ pBuffers' \in [QIds -> Seq(Packets)]
      BY <1>3, <2>1 DEF EnqPush, QueuePush
    <2>3. enqTotal' \in [QIds -> Nat] /\ quota' \in [QIds -> Int]
      BY <1>3 DEF EnqPush
    <2> QED
      BY <1>3, <2>2, <2>3 DEF EnqPush, deqVars, adVars, DeqTypeOK,
                              AdaptorTypeOK, StartingInBounds
  <1>4. CASE EnqEndBurst(q) /\ UNCHANGED << deqVars, adVars, offered, raced >>
    <2>1. SubSeq(poissonArrivals[q], 1, Len(poissonArrivals[q]) - 1)
            \in Seq(Int)
      <3>1. /\ poissonArrivals[q] \in Seq(Int)
            /\ Len(poissonArrivals[q]) \in Nat
        OBVIOUS
      <3>2. \A k \in 1 .. (Len(poissonArrivals[q]) - 1) :
              poissonArrivals[q][k] \in Int
        BY <3>1, ElementOfSeq
      <3> QED
        BY <3>1, <3>2, SubSeqProperties
    <2>2. poissonArrivals' \in [QIds -> Seq(Int)]
      BY <1>4, <2>1 DEF EnqEndBurst
    <2>3. quota' \in [QIds -> Int]
      BY <1>4 DEF EnqEndBurst
    <2>4. /\ queues' = queues /\ pBuffers' = pBuffers /\ enqTotal' = enqTotal
          /\ enqPc' = [enqPc EXCEPT ![q] = "loop"]
          /\ UNCHANGED << nReg, bReg, nEnqProcs, bprocessedPackets >>
      BY <1>4 DEF EnqEndBurst, EnqGoto, adVars
    <2>5. EnqTypeOK' /\ QueuesTypeOK'
      BY <2>2, <2>3, <2>4
    <2>6. enqPc' \in [QIds -> EnqPcs \cup NotifyPcs \cup {"end"}]
      BY <2>4
    <2>7. /\ nReg' \in [QIds -> Nat] /\ bReg' \in [QIds -> Nat]
          /\ nEnqProcs' \in Nat /\ bprocessedPackets' \in Nat
      BY <2>4 DEF AdaptorTypeOK
    <2>8. UNCHANGED << deqVars, adPc, adI, processedPackets, pPerQueue, stopPc,
                       offered >>
      BY <1>4 DEF adVars
    <2> QED
      BY ONLY Types, <2>5, <2>6, <2>7, <2>8, TypesByPushTask
  <1>5. CASE NotifyStep(q)
    BY ONLY Types, q \in QIds, <1>5, TypeNotify
  <1> QED
    BY <1>1, <1>2, <1>3, <1>4, <1>5 DEF PushTask, EnqStep

LEMMA PopTypes ==
  ASSUME QueuesTypeOK, DeqTypeOK, DeqStep
  PROVE  QueuesTypeOK' /\ DeqTypeOK'
  <1> USE DEF QueuesTypeOK, DeqTypeOK, DeqPcs
  <1>0. deqQ \in QIds
    BY VisitedQueues
  <1>1. CASE DeqRun
    BY <1>1 DEF DeqRun
  <1>2. CASE DeqExit
    BY <1>2 DEF DeqExit
  <1>3. CASE DeqNextQueue
    BY <1>3 DEF DeqNextQueue, NextQueue, Visited
  <1>4. CASE DeqSkip
    BY <1>4 DEF DeqSkip
  <1>5. CASE DeqVisit
    <2>1. itemsInQ' \in [QIds -> Nat]
      BY <1>0, <1>5 DEF DeqVisit
    <2> QED
      BY <1>5, <2>1 DEF DeqVisit
  <1>6. CASE DeqPop
    <2>1. /\ Head(queues[deqQ]) \in Packets
          /\ Tail(queues[deqQ]) \in Seq(Packets)
      BY <1>0, <1>6 DEF DeqPop, QueueEmpty
    <2>2. queues' \in [QIds -> Seq(Packets)]
      BY <1>6, <2>1 DEF DeqPop, QueuePop
    <2>3. hand' \in Seq(Packets)
      BY <1>6, <2>1 DEF DeqPop
    <2> QED
      BY <1>6, <2>2, <2>3 DEF DeqPop
  <1>7. CASE DeqTransfer
    <2>1. sent[deqQ] \o hand \in Seq(Packets)
      BY <1>0
    <2>2. sent' \in [QIds -> Seq(Packets)]
      BY <1>7, <2>1 DEF DeqTransfer
    <2>3. hand' \in Seq(Packets)
      BY <1>7, EmptySeq DEF DeqTransfer
    <2> QED
      BY <1>7, <2>2, <2>3 DEF DeqTransfer
  <1>8. CASE DeqCount
    BY <1>8 DEF DeqCount
  <1>9. CASE DeqEndBurst
    BY <1>9 DEF DeqEndBurst
  <1>10. CASE DeqService
    <2>1. residenceTime' = [residenceTime EXCEPT ![deqQ] = @ + deqI]
      BY <1>10 DEF DeqService
    <2>2. residenceTime \in [QIds -> Nat] /\ deqI \in Nat
      OBVIOUS
    <2>3. residenceTime' \in [QIds -> Nat]
      BY ONLY <1>0, <2>1, <2>2
    <2> QED
      BY <1>10, <2>3 DEF DeqService
  <1> QED
    BY <1>1, <1>2, <1>3, <1>4, <1>5, <1>6, <1>7, <1>8, <1>9, <1>10 DEF DeqStep

LEMMA TypePopTask ==
  ASSUME Types, PopTask
  PROVE  Types'
  <1>1. QueuesTypeOK /\ DeqTypeOK
    BY DEF Types
  <1>2. DeqStep /\ UNCHANGED << enqVars, adVars, offered >>
    BY DEF PopTask
  <1>3. QueuesTypeOK' /\ DeqTypeOK'
    BY <1>1, <1>2, PopTypes
  <1> QED
    BY <1>2, <1>3, TypesByPopTask

LEMMA TypeAdaptor ==
  ASSUME Types,
         \/ \E q \in QIds, p \in Packets : PutPacket(q, p)
         \/ Start \/ AdaptorStep \/ Terminate \/ Kill
  PROVE  Types'
  <1> USE DEF Types, QueuesTypeOK, EnqTypeOK, DeqTypeOK,
              AdaptorTypeOK, StartingInBounds, enqVars, deqVars, AdPcs,
              DeqTerminate
  <1>1. ASSUME NEW q \in QIds, NEW p \in Packets, PutPacket(q, p)
        PROVE  Types'
    <2>1. /\ Append(pBuffers[q], p) \in Seq(Packets)
          /\ Append(offered[q], p) \in Seq(Packets)
      BY AppendProperties
    <2>2. /\ pBuffers' \in [QIds -> Seq(Packets)]
          /\ offered' \in [QIds -> Seq(Packets)]
      BY <1>1, <2>1 DEF PutPacket
    <2> QED
      BY <1>1, <2>2 DEF PutPacket, adVars
  <1>2. CASE Start
    BY <1>2 DEF Start
  <1>3. CASE StartEnq
    <2>1. adI \in QIds /\ adI + 1 \in 0 .. NumQueues
      BY <1>3, NumQueuesAssumption DEF StartEnq, QIds
    <2>2. adPc' = "startEnq" => adI' \in QIds
      BY <1>3, <2>1, NumQueuesAssumption DEF StartEnq, QIds
    <2>3. enqPc' \in [QIds -> EnqPcs \cup NotifyPcs \cup {"end"}]
      BY <1>3 DEF StartEnq, EnqGoto, EnqEntry, EnqPcs
    <2>4. pPerQueue' \in [QIds -> Nat]
      BY <1>3, <2>1 DEF StartEnq
    <2> QED
      BY <1>3, <2>1, <2>2, <2>3, <2>4 DEF StartEnq
  <1>4. CASE StartDeq
    BY <1>4 DEF StartDeq, DeqPcs
  <1>5. CASE SeeComplete
    BY <1>5 DEF SeeComplete
  <1>6. CASE ReadTotal
    BY <1>6 DEF ReadTotal
  <1>7. CASE TestEqual
    BY <1>7 DEF TestEqual
  <1>8. CASE TestUnequal
    BY <1>8 DEF TestUnequal
  <1>9. CASE OutNotify
    BY <1>9 DEF OutNotify
  <1>10. CASE Terminate
    BY <1>10 DEF Terminate
  <1>11. CASE Kill
    BY <1>11 DEF Kill
  <1> QED
    BY <1>1, <1>2, <1>3, <1>4, <1>5, <1>6, <1>7, <1>8, <1>9, <1>10, <1>11
    DEF AdaptorStep

LEMMA TypeStep == Types /\ [Next]_vars => Types'
  <1> SUFFICES ASSUME Types, [Next]_vars PROVE Types'
    OBVIOUS
  <1>1. CASE UNCHANGED vars
    BY <1>1 DEF vars, enqVars, deqVars, adVars, Types, QueuesTypeOK,
                EnqTypeOK, DeqTypeOK, AdaptorTypeOK, StartingInBounds
  <1>2. CASE Next
    BY <1>2, TypePushTask, TypePopTask, TypeAdaptor DEF Next
  <1> QED
    BY <1>1, <1>2

(***************************************************************************)
(* The flags are Boolean whatever else happens.                            *)
(***************************************************************************)
LEMMA FlagsInit == Init => FlagsTypeOK
  BY DEF Init, DeqInit, AdaptorInit, FlagsTypeOK

LEMMA FlagsStep == FlagsTypeOK /\ [Next]_vars => FlagsTypeOK'
  <1> SUFFICES ASSUME FlagsTypeOK, [Next]_vars PROVE FlagsTypeOK'
    OBVIOUS
  <1> USE DEF FlagsTypeOK
  <1>1. CASE UNCHANGED << deqStop, bPacketsComplete, raced >>
    BY <1>1
  <1>2. ASSUME NEW q \in QIds, NLoad(q) PROVE FlagsTypeOK'
    BY <1>2 DEF NLoad, deqVars
  <1>3. ASSUME NEW q \in QIds, NTest(q) PROVE FlagsTypeOK'
    BY <1>3 DEF NTest, deqVars
  <1>4. CASE ReadTotal \/ TestUnequal
    BY <1>4 DEF ReadTotal, TestUnequal, deqVars
  <1>5. CASE TestEqual \/ Terminate
    BY <1>5 DEF TestEqual, Terminate, DeqTerminate
  <1>6. CASE UNCHANGED vars
    BY <1>1, <1>6 DEF vars, deqVars, adVars
  <1>7. ASSUME NEW q \in QIds, NEW p \in Packets, PutPacket(q, p)
        PROVE  FlagsTypeOK'
    BY <1>1, <1>7 DEF PutPacket, deqVars, adVars
  <1>8. CASE \/ Start \/ StartEnq \/ StartDeq \/ SeeComplete \/ OutNotify
             \/ Kill
    BY <1>1, <1>8
    DEF Start, StartEnq, StartDeq, SeeComplete, OutNotify, Kill, deqVars
  <1>9. CASE PopTask
    BY <1>1, <1>9
    DEF PopTask, adVars, DeqStep, DeqRun, DeqExit, DeqNextQueue, DeqSkip,
        DeqVisit, DeqPop, DeqTransfer, DeqCount, DeqEndBurst, DeqService
  <1>10. ASSUME NEW q \in QIds, PushTask(q) PROVE FlagsTypeOK'
    BY <1>1, <1>2, <1>3, <1>10
    DEF PushTask, NotifyStep, NStore, BLoad, BStore, deqVars, adVars
  <1> QED
    BY <1>4, <1>5, <1>6, <1>7, <1>8, <1>9, <1>10 DEF Next, AdaptorStep

(***************************************************************************)
(* Every variable of the adaptor and its tasks keeps its type.             *)
(***************************************************************************)
THEOREM TypeCorrect == Spec => []TypeOK
  <1>1. Spec => [](Types /\ FlagsTypeOK)
    BY TypeInit, TypeStep, FlagsInit, FlagsStep, PTL DEF Spec
  <1>2. Types /\ FlagsTypeOK => TypeOK
    BY DEF Types, TypeOK
  <1> QED
    BY <1>1, <1>2, PTL

-----------------------------------------------------------------------------
(***************************************************************************)
(* The phases of a run.  Nothing runs while buffers are being filled; the  *)
(* starting loop starts each task once; a task that has reached notify has *)
(* an empty buffer, and the pop task holds a packet only while it is       *)
(* transferring it.                                                        *)
(***************************************************************************)
Phases ==
  /\ adPc = "idle" => \A q \in QIds : enqPc[q] = "off"
  /\ adPc = "startEnq" => \A q \in QIds : q >= adI => enqPc[q] = "off"
  /\ adPc \in {"idle", "startEnq", "startDeq"} => deqPc = "off"
  /\ \A q \in QIds : enqPc[q] \in NotifyPcs \cup {"end"} => pBuffers[q] = << >>
  /\ IF deqPc = "transfer" THEN \E p \in Packets : hand = << p >>
                           ELSE hand = << >>

LEMMA PhasesInit == Init => Phases
  BY DEF Init, EnqInit, DeqInit, AdaptorInit, Phases, NotifyPcs

LEMMA PhasesPushTask ==
  ASSUME Types, Phases, NEW q \in QIds, PushTask(q)
  PROVE  Phases'
  <1> USE DEF Types, Phases, NotifyPcs, EnqGoto
  <1>1. /\ enqPc \in [QIds -> EnqPcs \cup NotifyPcs \cup {"end"}]
        /\ pBuffers \in [QIds -> Seq(Packets)]
    BY DEF EnqTypeOK
  <1>2. UNCHANGED << deqPc, hand, adPc, adI >>
    BY DEF PushTask, NotifyStep, NLoad, NStore, BLoad, BStore, NTest, deqVars,
           adVars
  <1>3. enqPc[q] # "off"
    BY DEF PushTask, NotifyStep, NLoad, NStore, BLoad, BStore, NTest, EnqStep,
           EnqPlan, EnqBegin, EnqPush, EnqEndBurst, EnqDrained
  <1>4. \A r \in QIds : r # q => enqPc'[r] = enqPc[r]
    BY <1>1
    DEF PushTask, NotifyStep, NLoad, NStore, BLoad, BStore, NTest, EnqStep,
        EnqPlan, EnqBegin, EnqPush, EnqEndBurst
  <1>5. \A r \in QIds : enqPc'[r] \in NotifyPcs \cup {"end"}
                          => pBuffers'[r] = << >>
    <2>1. CASE EnqStep(q)
      BY <1>1, <2>1 DEF EnqStep, EnqPlan, EnqBegin, EnqPush, EnqEndBurst
    <2>2. CASE NotifyStep(q)
      BY <1>1, <2>2
      DEF NotifyStep, NLoad, NStore, BLoad, BStore, NTest, EnqDrained
    <2> QED
      BY <2>1, <2>2 DEF PushTask
  <1> QED
    BY <1>2, <1>3, <1>4, <1>5

LEMMA PhasesPopTask ==
  ASSUME Types, Phases, PopTask
  PROVE  Phases'
  <1> USE DEF Phases
  <1>1. UNCHANGED << enqPc, pBuffers, adPc, adI >>
    BY DEF PopTask, enqVars, adVars
  <1>2. deqPc # "off"
    BY DEF PopTask, DeqStep, DeqRun, DeqExit, DeqNextQueue, DeqSkip,
           DeqVisit, DeqPop, DeqTransfer, DeqCount, DeqEndBurst, DeqService
  <1>3. IF deqPc' = "transfer" THEN \E p \in Packets : hand' = << p >>
                               ELSE hand' = << >>
    <2>1. CASE DeqPop
      <3>1. Head(queues[deqQ]) \in Packets
        BY <2>1, VisitedQueues, HeadTailProperties
        DEF DeqPop, QueueEmpty, Types, DeqTypeOK, QueuesTypeOK
      <3> QED
        BY <2>1, <3>1 DEF DeqPop
    <2>2. CASE ~ DeqPop
      BY <2>2
      DEF PopTask, DeqStep, DeqRun, DeqExit, DeqNextQueue, DeqSkip,
          DeqVisit, DeqTransfer, DeqCount, DeqEndBurst, DeqService
    <2> QED
      BY <2>1, <2>2
  <1> QED
    BY <1>1, <1>2, <1>3

LEMMA PhasesAdaptor ==
  ASSUME Types, Phases,
         \/ \E q \in QIds, p \in Packets : PutPacket(q, p)
         \/ Start \/ AdaptorStep \/ Terminate \/ Kill
  PROVE  Phases'
  <1> USE DEF Phases, deqVars, enqVars, NotifyPcs
  <1>1. ASSUME NEW q \in QIds, NEW p \in Packets, PutPacket(q, p)
        PROVE  Phases'
    BY <1>1 DEF PutPacket, adVars
  <1>2. CASE Start
    BY <1>2 DEF Start
  <1>3. CASE StartEnq
    <2>1. /\ adI \in QIds
          /\ enqPc[adI] = "off"
          /\ enqPc \in [QIds -> EnqPcs \cup NotifyPcs \cup {"end"}]
      <3>1. adI \in QIds
        BY <1>3 DEF StartEnq, Types, StartingInBounds
      <3>2. adI \in Nat
        BY <3>1, VisitedQueues
      <3> QED
        BY <1>3, <3>1, <3>2 DEF StartEnq, Types
    <2>2. \A q \in QIds : enqPc'[q] = IF q = adI THEN EnqEntry ELSE enqPc[q]
      BY <1>3, <2>1 DEF StartEnq, EnqGoto
    <2>3. EnqEntry \notin NotifyPcs \cup {"end"}
      BY DEF EnqEntry
    <2>4. \A q \in QIds : q >= adI' => enqPc'[q] = "off"
      BY <1>3, <2>1, <2>2, VisitedQueues DEF StartEnq
    <2> QED
      BY <1>3, <2>2, <2>3, <2>4 DEF StartEnq
  <1>4. CASE StartDeq
    BY <1>4 DEF StartDeq
  <1>5. CASE SeeComplete \/ ReadTotal \/ TestEqual \/ TestUnequal \/ OutNotify
    BY <1>5 DEF SeeComplete, ReadTotal, TestEqual, TestUnequal, OutNotify
  <1>6. CASE Terminate
    BY <1>6 DEF Terminate
  <1>7. CASE Kill
    BY <1>7 DEF Kill
  <1> QED
    BY <1>1, <1>2, <1>3, <1>4, <1>5, <1>6, <1>7 DEF AdaptorStep

LEMMA PhasesStep == Types /\ Phases /\ [Next]_vars => Phases'
  <1> SUFFICES ASSUME Types, Phases, [Next]_vars PROVE Phases'
    OBVIOUS
  <1>1. CASE UNCHANGED vars
    BY <1>1 DEF vars, enqVars, deqVars, adVars, Phases
  <1>2. CASE Next
    BY <1>2, PhasesPushTask, PhasesPopTask, PhasesAdaptor DEF Next
  <1> QED
    BY <1>1, <1>2

-----------------------------------------------------------------------------
(***************************************************************************)
(* Moving the head of one sequence to the end of the sequence before it.   *)
(***************************************************************************)
LEMMA MoveHead ==
  ASSUME NEW S, NEW s \in Seq(S), NEW t \in Seq(S), s # << >>
  PROVE  Append(t, Head(s)) \o Tail(s) = t \o s
  <1>1. /\ Head(s) \in S /\ Head(s) = s[1]
        /\ Tail(s) \in Seq(S) /\ Len(Tail(s)) = Len(s) - 1
        /\ \A i \in 1 .. Len(Tail(s)) : Tail(s)[i] = s[i + 1]
    BY HeadTailProperties
  <1>2. /\ Append(t, Head(s)) \in Seq(S)
        /\ Len(Append(t, Head(s))) = Len(t) + 1
        /\ \A i \in 1 .. Len(t) : Append(t, Head(s))[i] = t[i]
        /\ Append(t, Head(s))[Len(t) + 1] = s[1]
    BY <1>1, AppendProperties
  <1> DEFINE u == Append(t, Head(s))
             v == Tail(s)
  <1>3. Len(s) \in Nat \ {0} /\ Len(t) \in Nat
    BY EmptySeq, LenProperties
  <1> HIDE DEF u, v
  <1>4. /\ u \o v \in Seq(S) /\ t \o s \in Seq(S)
        /\ Len(u \o v) = Len(t) + Len(s) /\ Len(t \o s) = Len(t) + Len(s)
    BY <1>1, <1>2, <1>3, ConcatProperties DEF u, v
  <1>5. ASSUME NEW i \in 1 .. (Len(t) + Len(s))
        PROVE  (u \o v)[i] = (t \o s)[i]
    <2>1. (t \o s)[i] = IF i <= Len(t) THEN t[i] ELSE s[i - Len(t)]
      BY ConcatProperties
    <2>2. (u \o v)[i] = IF i <= Len(t) + 1 THEN u[i] ELSE v[i - (Len(t) + 1)]
      BY <1>1, <1>2, <1>3, ConcatProperties DEF u, v
    <2>3. CASE i <= Len(t)
      BY <2>1, <2>2, <2>3, <1>2, <1>3 DEF u
    <2>4. CASE i = Len(t) + 1
      BY <2>1, <2>2, <2>4, <1>2, <1>3 DEF u
    <2>5. CASE i > Len(t) + 1
      <3>1. i - (Len(t) + 1) \in 1 .. Len(v)
        BY <2>5, <1>1, <1>3 DEF v
      <3>2. v[i - (Len(t) + 1)] = s[i - Len(t)]
        BY <3>1, <1>1, <1>3 DEF v
      <3> QED
        BY <2>1, <2>2, <2>5, <3>2, <1>3
    <2>6. i <= Len(t) \/ i = Len(t) + 1 \/ i > Len(t) + 1
      BY <1>3
    <2> QED
      BY <2>3, <2>4, <2>5, <2>6
  <1> QED
    BY <1>4, <1>5, SeqEqual DEF u, v

(***************************************************************************)
(* Appending to the second of two sequences appends to their concatenation.*)
(***************************************************************************)
LEMMA AppendAfterConcat ==
  ASSUME NEW S, NEW s \in Seq(S), NEW t \in Seq(S), NEW e \in S
  PROVE  s \o Append(t, e) = Append(s \o t, e)
  <1> DEFINE one == << e >>
  <1>1. one \in Seq(S) /\ Append(t, e) = t \o one
    BY AppendIsConcat
  <1>2. s \o t \in Seq(S)
    BY ConcatProperties
  <1>3. Append(s \o t, e) = (s \o t) \o one
    BY <1>2, AppendIsConcat
  <1> HIDE DEF one
  <1>4. (s \o t) \o one = s \o (t \o one)
    BY <1>1, ConcatAssociative
  <1> QED
    BY <1>1, <1>3, <1>4

(***************************************************************************)
(* The unchanged parts of a step leave conservation as it was.             *)
(***************************************************************************)
LEMMA ConservationUnchanged ==
  ASSUME Conservation,
         UNCHANGED << offered, sent, hand, deqQ, queues, pBuffers >>
  PROVE  Conservation'
  BY DEF Conservation, InHand

LEMMA ConservationInit == Init => Conservation
  <1> SUFFICES ASSUME Init, NEW q \in QIds
               PROVE  offered[q] = sent[q] \o InHand(q) \o queues[q] \o pBuffers[q]
    BY DEF Conservation
  <1>1. /\ offered[q] = << >> /\ sent[q] = << >> /\ InHand(q) = << >>
        /\ queues[q] = << >> /\ pBuffers[q] = << >>
    BY DEF Init, QueuesInit, EnqInit, DeqInit, AdaptorInit, InHand
  <1>2. << >> \in Seq(Packets)
    BY EmptySeq
  <1> QED
    BY <1>1, <1>2, ConcatEmptySeq

(***************************************************************************)
(* The types conservation needs, and what is between the link and the      *)
(* buffer of a queue.                                                      *)
(***************************************************************************)
Ahead(q) == sent[q] \o InHand(q) \o queues[q]

LEMMA ConservationTypes ==
  ASSUME Types
  PROVE  /\ pBuffers \in [QIds -> Seq(Packets)]
         /\ queues \in [QIds -> Seq(Packets)]
         /\ offered \in [QIds -> Seq(Packets)]
         /\ sent \in [QIds -> Seq(Packets)]
         /\ hand \in Seq(Packets)
         /\ deqQ \in QIds
         /\ \A q \in QIds : /\ InHand(q) \in Seq(Packets)
                            /\ sent[q] \o InHand(q) \in Seq(Packets)
                            /\ Ahead(q) \in Seq(Packets)
  <1>1. /\ pBuffers \in [QIds -> Seq(Packets)]
        /\ queues \in [QIds -> Seq(Packets)]
        /\ offered \in [QIds -> Seq(Packets)]
        /\ sent \in [QIds -> Seq(Packets)]
        /\ hand \in Seq(Packets)
        /\ deqQ \in QIds
    BY VisitedQueues
    DEF Types, EnqTypeOK, QueuesTypeOK, AdaptorTypeOK, DeqTypeOK
  <1>2. \A q \in QIds : InHand(q) \in Seq(Packets)
    BY <1>1, EmptySeq DEF InHand
  <1>3. \A q \in QIds : sent[q] \o InHand(q) \in Seq(Packets)
    BY <1>1, <1>2, ConcatProperties
  <1>4. \A q \in QIds : Ahead(q) \in Seq(Packets)
    BY <1>1, <1>3, ConcatProperties DEF Ahead
  <1> QED
    BY <1>1, <1>2, <1>3, <1>4

LEMMA ConservationPut ==
  ASSUME Types, Conservation, NEW q \in QIds, NEW p \in Packets,
         PutPacket(q, p)
  PROVE  Conservation'
  <1>1. /\ pBuffers' = [pBuffers EXCEPT ![q] = Append(@, p)]
        /\ offered' = [offered EXCEPT ![q] = Append(@, p)]
        /\ UNCHANGED << queues, sent, hand, deqQ >>
    BY DEF PutPacket, deqVars
  <1>2. \A r \in QIds : Ahead(r)' = Ahead(r)
    BY <1>1 DEF Ahead, InHand
  <1>3. Append(offered[q], p) = Ahead(q) \o Append(pBuffers[q], p)
    <2>1. offered[q] = Ahead(q) \o pBuffers[q]
      BY DEF Conservation, Ahead
    <2>2. Ahead(q) \in Seq(Packets) /\ pBuffers[q] \in Seq(Packets)
      BY ConservationTypes
    <2>3. Ahead(q) \o Append(pBuffers[q], p) = Append(Ahead(q) \o pBuffers[q], p)
      BY <2>2, AppendAfterConcat
    <2> QED
      BY <2>1, <2>3
  <1>4. \A r \in QIds : offered'[r] = Ahead(r) \o pBuffers'[r]
    BY <1>1, <1>3, ConservationTypes DEF Conservation, Ahead
  <1> QED
    BY <1>2, <1>4 DEF Conservation, Ahead

LEMMA ConservationPush ==
  ASSUME Types, Conservation, NEW q \in QIds, EnqPush(q),
         UNCHANGED << deqVars, adVars, offered, raced >>
  PROVE  Conservation'
  <1>1. /\ pBuffers[q] # << >>
        /\ queues' = [queues EXCEPT ![q] = Append(@, Head(pBuffers[q]))]
        /\ pBuffers' = [pBuffers EXCEPT ![q] = Tail(@)]
        /\ UNCHANGED << offered, sent, hand, deqQ >>
    BY DEF EnqPush, QueuePush, deqVars
  <1> DEFINE x == sent[q] \o InHand(q)
  <1>2. /\ x \in Seq(Packets) /\ queues[q] \in Seq(Packets)
        /\ pBuffers[q] \in Seq(Packets) /\ Head(pBuffers[q]) \in Packets
    BY <1>1, ConservationTypes, HeadTailProperties
  <1> HIDE DEF x
  <1>3. (x \o Append(queues[q], Head(pBuffers[q]))) \o Tail(pBuffers[q])
          = (x \o queues[q]) \o pBuffers[q]
    <2>1. x \o Append(queues[q], Head(pBuffers[q]))
            = Append(x \o queues[q], Head(pBuffers[q]))
      BY <1>2, AppendAfterConcat
    <2>2. x \o queues[q] \in Seq(Packets)
      BY <1>2, ConcatProperties
    <2> QED
      BY <1>1, <1>2, <2>1, <2>2, MoveHead
  <1>4. offered[q] = (x \o queues[q]) \o pBuffers[q]
    BY DEF Conservation, x
  <1>5. offered'[q] = (x \o queues'[q]) \o pBuffers'[q] /\ x' = x
    BY <1>1, <1>3, <1>4, ConservationTypes DEF x, InHand
  <1>6. \A r \in QIds : offered'[r] = (Ahead(r) \o pBuffers[r])'
    BY <1>1, <1>5, ConservationTypes DEF Conservation, Ahead, InHand, x
  <1> QED
    BY <1>6 DEF Conservation, Ahead

LEMMA ConservationPop ==
  ASSUME Types, Phases, Conservation, PopTask
  PROVE  Conservation'
  <1>1. UNCHANGED << offered, pBuffers >>
    BY DEF PopTask, enqVars
  <1>2. CASE DeqNextQueue
    <2>1. hand = << >> /\ UNCHANGED << queues, sent, hand >>
      BY <1>2 DEF DeqNextQueue, Phases
    <2> QED
      BY <1>1, <2>1 DEF Conservation, InHand
  <1>3. CASE DeqPop
    <2>1. /\ queues[deqQ] # << >>
          /\ hand = << >> /\ hand' = << Head(queues[deqQ]) >>
          /\ queues' = [queues EXCEPT ![deqQ] = Tail(@)]
          /\ UNCHANGED << sent, deqQ >>
      BY <1>3 DEF DeqPop, QueuePop, QueueEmpty, Phases
    <2> DEFINE s == sent[deqQ]
               b == queues[deqQ]
    <2>2. /\ s \in Seq(Packets) /\ b \in Seq(Packets) /\ b # << >>
          /\ Head(b) \in Packets
      BY <2>1, ConservationTypes, HeadTailProperties
    <2>3. Ahead(deqQ) = s \o b
      BY <2>1, <2>2, ConcatEmptySeq DEF Ahead, InHand
    <2>4. Ahead(deqQ)' = (s \o << Head(b) >>) \o Tail(b)
      BY <2>1, ConservationTypes DEF Ahead, InHand
    <2> HIDE DEF s, b
    <2>5. (s \o << Head(b) >>) \o Tail(b) = s \o b
      BY <2>2, MoveHead, AppendIsConcat
    <2>6. \A r \in QIds : Ahead(r)' = Ahead(r)
      <3>1. \A r \in QIds : r # deqQ => Ahead(r)' = Ahead(r)
        BY <2>1, ConservationTypes DEF Ahead, InHand
      <3> QED
        BY <2>1, <2>3, <2>4, <2>5, <3>1
    <2> QED
      BY <1>1, <2>6 DEF Conservation, Ahead
  <1>4. CASE DeqTransfer
    <2>1. /\ sent' = [sent EXCEPT ![deqQ] = @ \o hand]
          /\ hand' = << >>
          /\ UNCHANGED << queues, deqQ >>
      BY <1>4 DEF DeqTransfer
    <2>2. sent'[deqQ] = sent[deqQ] \o hand
      BY <2>1, ConservationTypes
    <2>3. (sent[deqQ] \o hand) \o << >> = sent[deqQ] \o hand
      <3>1. sent[deqQ] \o hand \in Seq(Packets)
        BY ConservationTypes, ConcatProperties
      <3> QED
        BY <3>1, ConcatEmptySeq
    <2>4. Ahead(deqQ)' = Ahead(deqQ)
      BY <2>1, <2>2, <2>3 DEF Ahead, InHand
    <2>5. \A r \in QIds : r # deqQ => Ahead(r)' = Ahead(r)
      BY <2>1, ConservationTypes DEF Ahead, InHand
    <2> QED
      BY <1>1, <2>1, <2>4, <2>5 DEF Conservation, Ahead
  <1>5. CASE DeqRun \/ DeqExit \/ DeqSkip \/ DeqVisit \/ DeqCount
               \/ DeqEndBurst \/ DeqService
    BY <1>1, <1>5, ConservationUnchanged
    DEF DeqRun, DeqExit, DeqSkip, DeqVisit, DeqCount, DeqEndBurst, DeqService
  <1> QED
    BY <1>2, <1>3, <1>4, <1>5 DEF PopTask, DeqStep

LEMMA ConservationStep ==
  Types /\ Phases /\ Conservation /\ [Next]_vars => Conservation'
  <1> SUFFICES ASSUME Types, Phases, Conservation, [Next]_vars
               PROVE  Conservation'
    OBVIOUS
  <1>1. CASE UNCHANGED vars
    BY <1>1, ConservationUnchanged DEF vars, enqVars, deqVars
  <1>2. CASE Start \/ AdaptorStep \/ Terminate \/ Kill
    BY <1>2, ConservationUnchanged
    DEF Start, AdaptorStep, StartEnq, StartDeq, SeeComplete, ReadTotal,
        TestEqual, TestUnequal, OutNotify, Terminate, Kill, enqVars, deqVars
  <1>3. ASSUME NEW q \in QIds, PushTask(q)
        PROVE  Conservation'
    <2>1. CASE NotifyStep(q)
      BY <2>1, ConservationUnchanged
      DEF NotifyStep, NLoad, NStore, BLoad, BStore, NTest, deqVars
    <2>2. CASE (EnqPlan(q) \/ EnqBegin(q) \/ EnqEndBurst(q))
                 /\ UNCHANGED << deqVars, adVars, offered, raced >>
      BY <2>2, ConservationUnchanged
      DEF EnqPlan, EnqBegin, EnqEndBurst, deqVars
    <2> QED
      BY <1>3, <2>1, <2>2, ConservationPush DEF PushTask, EnqStep
  <1> QED
    BY <1>1, <1>2, <1>3, ConservationPut, ConservationPop DEF Next

(***************************************************************************)
(* No interleaving of the adaptor, its tasks and Stop loses, duplicates,   *)
(* misroutes or reorders a packet.                                         *)
(***************************************************************************)
THEOREM PacketsConserved == Spec => []Conservation
  <1>1. Init => Types /\ Phases /\ Conservation
    BY TypeInit, PhasesInit, ConservationInit
  <1>2. Types /\ Phases /\ Conservation /\ [Next]_vars
          => (Types /\ Phases /\ Conservation)'
    BY TypeStep, PhasesStep, ConservationStep
  <1> QED
    BY <1>1, <1>2, PTL DEF Spec

-----------------------------------------------------------------------------
(***************************************************************************)
(* Counting notifications.  Additions to nEnqProcs may be lost, never      *)
(* invented: the counter, and every value a notify call has loaded or is   *)
(* about to compare, is bounded by the number of tasks past their store.   *)
(***************************************************************************)
Counted == {q \in QIds : enqPc[q] \in {"bLoad", "bStore", "nTest", "end"}}

Counting ==
  /\ nEnqProcs <= Cardinality(Counted)
  /\ \A q \in QIds :
       /\ enqPc[q] = "nStore" => nReg[q] <= Cardinality(Counted)
       /\ enqPc[q] \in {"bLoad", "bStore", "nTest"}
            => nReg[q] + 1 <= Cardinality(Counted)
  /\ bPacketsComplete => Counted = QIds

LEMMA QIdsFinite == IsFiniteSet(QIds) /\ Cardinality(QIds) = NumQueues
  BY FS_Interval, NumQueuesAssumption DEF QIds

LEMMA CountedFinite ==
  /\ IsFiniteSet(Counted) /\ Cardinality(Counted) \in Nat
  /\ Cardinality(Counted) <= NumQueues
  /\ Cardinality(Counted) = NumQueues => Counted = QIds
  <1>1. Counted \in SUBSET QIds
    BY DEF Counted
  <1> QED
    BY <1>1, QIdsFinite, FS_Subset, FS_CardinalityType

LEMMA CountingInit == Init => Counting
  <1> SUFFICES ASSUME Init PROVE Counting
    OBVIOUS
  <1>1. /\ nEnqProcs = 0 /\ bPacketsComplete = FALSE
        /\ enqPc = [q \in QIds |-> "off"]
    BY DEF Init, EnqInit, AdaptorInit
  <1>2. Counted = {}
    BY <1>1 DEF Counted
  <1>3. Cardinality(Counted) = 0
    BY <1>2, FS_EmptySet
  <1> QED
    BY <1>1, <1>3 DEF Counting

(***************************************************************************)
(* A step that leaves the counters alone and moves no task into or out of  *)
(* the part of notify that counts.                                         *)
(***************************************************************************)
LEMMA CountingUnchanged ==
  ASSUME Counting, Counted' = Counted,
         UNCHANGED << nEnqProcs, bPacketsComplete, nReg >>,
         \A q \in QIds : \/ enqPc'[q] = enqPc[q]
                         \/ enqPc'[q] \notin NotifyPcs
  PROVE  Counting'
  <1>1. \A q \in QIds : enqPc'[q] \in NotifyPcs => enqPc'[q] = enqPc[q]
    OBVIOUS
  <1> QED
    BY <1>1 DEF Counting, NotifyPcs

LEMMA CountingNotify ==
  ASSUME Types, Counting, NEW q \in QIds, NotifyStep(q)
  PROVE  Counting'
  <1>1. /\ enqPc \in [QIds -> EnqPcs \cup NotifyPcs \cup {"end"}]
        /\ nReg \in [QIds -> Nat] /\ nEnqProcs \in Nat
    BY DEF Types, AdaptorTypeOK
  <1>2. CASE NLoad(q)
    <2>1. /\ enqPc[q] = "loop" /\ enqPc' = [enqPc EXCEPT ![q] = "nStore"]
          /\ nReg' = [nReg EXCEPT ![q] = nEnqProcs]
          /\ UNCHANGED << nEnqProcs, bPacketsComplete >>
      BY <1>2 DEF NLoad, EnqDrained, EnqGoto
    <2>2. Counted' = Counted
      BY <1>1, <2>1 DEF Counted
    <2> QED
      BY <1>1, <2>1, <2>2 DEF Counting
  <1>3. CASE NStore(q)
    <2>1. /\ enqPc[q] = "nStore" /\ enqPc' = [enqPc EXCEPT ![q] = "bLoad"]
          /\ nEnqProcs' = nReg[q] + 1
          /\ UNCHANGED << nReg, bPacketsComplete >>
      BY <1>3 DEF NStore, EnqGoto
    <2>2. Counted' = Counted \cup {q} /\ q \notin Counted
      BY <1>1, <2>1 DEF Counted
    <2>3. Cardinality(Counted)' = Cardinality(Counted) + 1
      BY <2>2, CountedFinite, FS_AddElement
    <2>4. nReg[q] <= Cardinality(Counted)
      BY <2>1 DEF Counting
    <2>5. ~ bPacketsComplete
      BY <2>2 DEF Counting
    <2>6. \A r \in QIds :
            /\ enqPc'[r] = "nStore" => nReg'[r] <= Cardinality(Counted)'
            /\ enqPc'[r] \in {"bLoad", "bStore", "nTest"}
                 => nReg'[r] + 1 <= Cardinality(Counted)'
      <3> TAKE r \in QIds
      <3>1. CASE r = q
        BY <1>1, <2>1, <2>3, <2>4, <3>1, CountedFinite
      <3>2. CASE r # q
        <4>1. enqPc'[r] = enqPc[r] /\ nReg'[r] = nReg[r] /\ nReg[r] \in Nat
          BY <1>1, <2>1, <3>2
        <4> QED
          BY <4>1, <2>3, CountedFinite DEF Counting
      <3> QED
        BY <3>1, <3>2
    <2>7. nEnqProcs' <= Cardinality(Counted)'
      BY <1>1, <2>1, <2>3, <2>4, CountedFinite
    <2> QED
      BY <2>1, <2>5, <2>6, <2>7 DEF Counting
  <1>4. CASE BLoad(q)
    <2>1. /\ enqPc[q] = "bLoad" /\ enqPc' = [enqPc EXCEPT ![q] = "bStore"]
          /\ UNCHANGED << nReg, nEnqProcs, bPacketsComplete >>
      BY <1>4 DEF BLoad, EnqGoto
    <2>2. Counted' = Counted
      BY <1>1, <2>1 DEF Counted
    <2> QED
      BY <1>1, <2>1, <2>2 DEF Counting
  <1>5. CASE BStore(q)
    <2>1. /\ enqPc[q] = "bStore" /\ enqPc' = [enqPc EXCEPT ![q] = "nTest"]
          /\ UNCHANGED << nReg, nEnqProcs, bPacketsComplete >>
      BY <1>5 DEF BStore, EnqGoto
    <2>2. Counted' = Counted
      BY <1>1, <2>1 DEF Counted
    <2> QED
      BY <1>1, <2>1, <2>2 DEF Counting
  <1>6. CASE NTest(q)
    <2>1. /\ enqPc[q] = "nTest" /\ enqPc' = [enqPc EXCEPT ![q] = "end"]
          /\ nReg' = [nReg EXCEPT ![q] = 0]
          /\ UNCHANGED nEnqProcs
      BY <1>6 DEF NTest, EnqGoto
    <2>2. Counted' = Counted
      BY <1>1, <2>1 DEF Counted
    <2>3. PICK seen \in {nEnqProcs, nReg[q] + 1} :
            bPacketsComplete' = (bPacketsComplete \/ seen = NumQueues)
      BY <1>6 DEF NTest
    <2>4. seen \in Nat /\ seen <= Cardinality(Counted)
      BY <1>1, <2>1, <2>3 DEF Counting
    <2>5. seen = NumQueues => Counted = QIds
      BY <2>4, CountedFinite, NumQueuesAssumption
    <2>6. bPacketsComplete' => Counted' = QIds
      BY <2>2, <2>3, <2>5 DEF Counting
    <2>7. \A r \in QIds :
            /\ enqPc'[r] = "nStore" => nReg'[r] <= Cardinality(Counted)'
            /\ enqPc'[r] \in {"bLoad", "bStore", "nTest"}
                 => nReg'[r] + 1 <= Cardinality(Counted)'
      BY <1>1, <2>1, <2>2 DEF Counting
    <2> QED
      BY <2>1, <2>2, <2>6, <2>7 DEF Counting
  <1> QED
    BY <1>2, <1>3, <1>4, <1>5, <1>6 DEF NotifyStep

LEMMA CountingStep == Types /\ Phases /\ Counting /\ [Next]_vars => Counting'
  <1> SUFFICES ASSUME Types, Phases, Counting, [Next]_vars
               PROVE  Counting'
    OBVIOUS
  <1>1. enqPc \in [QIds -> EnqPcs \cup NotifyPcs \cup {"end"}]
    BY DEF Types
  <1>2. CASE UNCHANGED << enqPc, nEnqProcs, bPacketsComplete, nReg >>
    BY <1>2, CountingUnchanged DEF Counted
  <1>3. ASSUME NEW q \in QIds, PushTask(q)
        PROVE  Counting'
    <2>1. CASE EnqStep(q) /\ UNCHANGED << deqVars, adVars, offered, raced >>
      <3>1. /\ enqPc[q] \in {"plan", "loop", "burst"}
            /\ \/ UNCHANGED enqPc
               \/ enqPc' = [enqPc EXCEPT ![q] = "loop"]
               \/ enqPc' = [enqPc EXCEPT ![q] = "burst"]
        BY <2>1
        DEF EnqStep, EnqPlan, EnqBegin, EnqPush, EnqEndBurst, EnqGoto
      <3>2. /\ Counted' = Counted
            /\ \A r \in QIds : \/ enqPc'[r] = enqPc[r]
                               \/ enqPc'[r] \notin NotifyPcs
        BY <1>1, <3>1 DEF Counted, NotifyPcs
      <3>3. UNCHANGED << nEnqProcs, bPacketsComplete, nReg >>
        BY <2>1 DEF adVars
      <3> QED
        BY <3>2, <3>3, CountingUnchanged
    <2> QED
      BY <1>3, <2>1, CountingNotify DEF PushTask
  <1>4. CASE StartEnq
    <2>1. /\ adI \in QIds /\ enqPc[adI] = "off"
          /\ enqPc' = [enqPc EXCEPT ![adI] = EnqEntry]
          /\ UNCHANGED << nEnqProcs, bPacketsComplete, nReg >>
      <3>1. adI \in QIds
        BY <1>4 DEF StartEnq, Types, StartingInBounds
      <3>2. adI \in Nat
        BY <3>1, VisitedQueues
      <3>3. enqPc[adI] = "off"
        BY <1>4, <3>1, <3>2 DEF StartEnq, Phases
      <3> QED
        BY <1>4, <3>1, <3>3 DEF StartEnq, EnqGoto
    <2>2. /\ Counted' = Counted
          /\ \A r \in QIds : \/ enqPc'[r] = enqPc[r]
                             \/ enqPc'[r] \notin NotifyPcs
      BY <1>1, <2>1 DEF Counted, NotifyPcs, EnqEntry
    <2> QED
      BY <2>1, <2>2, CountingUnchanged
  <1>5. CASE \/ \E q \in QIds, p \in Packets : PutPacket(q, p)
             \/ Start \/ StartDeq \/ SeeComplete \/ ReadTotal \/ TestEqual
             \/ TestUnequal \/ OutNotify \/ Terminate \/ Kill \/ PopTask
             \/ UNCHANGED vars
    BY <1>2, <1>5
    DEF PutPacket, Start, StartDeq, SeeComplete, ReadTotal, TestEqual,
        TestUnequal, OutNotify, Terminate, Kill, PopTask, vars, enqVars, adVars
  <1> QED
    BY <1>3, <1>4, <1>5 DEF Next, AdaptorStep

(***************************************************************************)
(* The completion flag is never early, however the unsynchronised notify   *)
(* calls interleave: when it is set every push task has emptied its buffer.*)
(***************************************************************************)
THEOREM CompletionNeverEarly == Spec => []CompleteMeansFlushed
  <1>1. Init => Types /\ Phases /\ Counting
    BY TypeInit, PhasesInit, CountingInit
  <1>2. Types /\ Phases /\ Counting /\ [Next]_vars
          => (Types /\ Phases /\ Counting)'
    BY TypeStep, PhasesStep, CountingStep
  <1>3. Phases /\ Counting => CompleteMeansFlushed
    BY DEF Phases, Counting, Counted, CompleteMeansFlushed, NotifyPcs
  <1> QED
    BY <1>1, <1>2, <1>3, PTL DEF Spec

-----------------------------------------------------------------------------
(***************************************************************************)
(* The element after a prefix of a concatenation.                          *)
(***************************************************************************)
LEMMA ConcatKeepsPrefix ==
  ASSUME NEW S, NEW s \in Seq(S), NEW t \in Seq(S), NEW i \in 1 .. Len(s)
  PROVE  /\ s \o t \in Seq(S)
         /\ Len(s) <= Len(s \o t)
         /\ (s \o t)[i] = s[i]
  <1>1. Len(s) \in Nat /\ Len(t) \in Nat
    BY LenProperties
  <1>2. s \o t \in Seq(S) /\ Len(s \o t) = Len(s) + Len(t)
    BY ConcatProperties
  <1>3. (s \o t)[i] = s[i]
    BY <1>1, ConcatProperties
  <1> QED
    BY <1>1, <1>2, <1>3

LEMMA ElementAfterPrefix ==
  ASSUME NEW S, NEW s \in Seq(S), NEW p \in S, NEW b \in Seq(S),
         NEW c \in Seq(S), NEW o, o = s \o << p >> \o b \o c
  PROVE  Len(s) < Len(o) /\ o[Len(s) + 1] = p
  <1> DEFINE i == Len(s) + 1
             x == Append(s, p)
             y == x \o b
  <1>1. x = s \o << p >>
    BY AppendIsConcat
  <1>2. x \in Seq(S) /\ Len(x) = i /\ x[i] = p /\ Len(s) \in Nat
    BY AppendProperties, LenProperties
  <1>3. o = y \o c
    BY <1>1
  <1> HIDE DEF x
  <1>4. i \in 1 .. Len(x)
    BY <1>2
  <1>5. y \in Seq(S) /\ Len(x) <= Len(y) /\ y[i] = p
    BY <1>2, <1>4, ConcatKeepsPrefix
  <1> HIDE DEF y
  <1>6. i \in 1 .. Len(y)
    BY <1>2, <1>4, <1>5, LenProperties
  <1>7. Len(y) <= Len(o) /\ o[i] = p /\ o \in Seq(S)
    BY <1>3, <1>5, <1>6, ConcatKeepsPrefix
  <1>8. Len(y) \in Nat /\ Len(o) \in Nat
    BY <1>5, <1>7, LenProperties
  <1> QED
    BY <1>2, <1>5, <1>7, <1>8

LEMMA ChannelInit == Init => Channel!Init
  BY DEF Init, DeqInit, AdaptorInit, Channel!Init

(***************************************************************************)
(* The only step that delivers is the transfer, and what it delivers is the*)
(* next packet of its queue.                                               *)
(***************************************************************************)
LEMMA TransferDelivers ==
  ASSUME Types, Phases, Conservation, PopTask, DeqTransfer
  PROVE  Channel!Deliver(deqQ)
  <1>1. /\ adPc # "idle" /\ adPc' = adPc /\ offered' = offered
        /\ sent' = [sent EXCEPT ![deqQ] = @ \o hand]
    BY DEF PopTask, DeqTransfer, adVars, Phases
  <1>2. PICK p \in Packets : hand = << p >>
    BY DEF DeqTransfer, Phases
  <1>3. /\ sent[deqQ] \in Seq(Packets) /\ queues[deqQ] \in Seq(Packets)
        /\ pBuffers[deqQ] \in Seq(Packets) /\ deqQ \in QIds
        /\ sent \in [QIds -> Seq(Packets)]
    BY ConservationTypes
  <1>4. offered[deqQ] = sent[deqQ] \o << p >> \o queues[deqQ] \o pBuffers[deqQ]
    BY <1>2, <1>3 DEF Conservation, InHand
  <1>5. /\ Len(sent[deqQ]) < Len(offered[deqQ])
        /\ offered[deqQ][Len(sent[deqQ]) + 1] = p
    <2> DEFINE o == offered[deqQ]
               s == sent[deqQ]
               b == queues[deqQ]
               c == pBuffers[deqQ]
    <2>1. /\ s \in Seq(Packets) /\ b \in Seq(Packets) /\ c \in Seq(Packets)
          /\ o = s \o << p >> \o b \o c
      BY <1>3, <1>4
    <2> HIDE DEF o, s, b, c
    <2>2. Len(s) < Len(o) /\ o[Len(s) + 1] = p
      BY <2>1, ElementAfterPrefix
    <2> QED
      BY <2>2 DEF o, s
  <1>6. sent[deqQ] \o hand = Append(sent[deqQ], p)
    BY <1>2, <1>3, AppendIsConcat
  <1>7. sent' = [sent EXCEPT ![deqQ] =
                   Append(@, offered[deqQ][Len(@) + 1])]
    BY <1>1, <1>3, <1>5, <1>6
  <1> QED
    BY <1>1, <1>5, <1>7 DEF Channel!Deliver

LEMMA ChannelStep ==
  ASSUME Types, Phases, Conservation, [Next]_vars
  PROVE  [Channel!Next]_(Channel!vars)
  <1>1. CASE \E q \in QIds, p \in Packets : PutPacket(q, p)
    BY <1>1 DEF PutPacket, deqVars, adVars, Channel!Next, Channel!Accept
  <1>2. CASE Start
    BY <1>2 DEF Start, deqVars, Channel!Next, Channel!Close
  <1>3. CASE AdaptorStep \/ Terminate \/ Kill
    BY <1>3
    DEF AdaptorStep, StartEnq, StartDeq, SeeComplete, ReadTotal, TestEqual,
        TestUnequal, OutNotify, Terminate, Kill, deqVars, Channel!vars
  <1>4. CASE PopTask /\ DeqTransfer
    <2>1. Channel!Deliver(deqQ) /\ deqQ \in QIds
      BY <1>4, TransferDelivers, ConservationTypes
    <2> QED
      BY <2>1 DEF Channel!Next
  <1>5. CASE PopTask /\ ~ DeqTransfer
    BY <1>5
    DEF PopTask, DeqStep, DeqRun, DeqExit, DeqNextQueue, DeqSkip, DeqVisit,
        DeqPop, DeqCount, DeqEndBurst, DeqService, adVars, Channel!vars
  <1>6. CASE \E q \in QIds : PushTask(q)
    BY <1>6
    DEF PushTask, NotifyStep, NLoad, NStore, BLoad, BStore, NTest, deqVars,
        adVars, Channel!vars
  <1>7. CASE UNCHANGED vars
    BY <1>7 DEF vars, deqVars, adVars, Channel!vars
  <1> QED
    BY <1>1, <1>2, <1>3, <1>4, <1>5, <1>6, <1>7 DEF Next

(***************************************************************************)
(* The border output adaptor implements the lossless FIFO channels of      *)
(* PacketChannel.                                                          *)
(***************************************************************************)
THEOREM ImplementsChannel == Spec => ChannelSpec
  <1>1. Init => Types /\ Phases /\ Conservation
    BY TypeInit, PhasesInit, ConservationInit
  <1>2. Types /\ Phases /\ Conservation /\ [Next]_vars
          => (Types /\ Phases /\ Conservation)'
    BY TypeStep, PhasesStep, ConservationStep
  <1>3. Types /\ Phases /\ Conservation /\ [Next]_vars
          => [Channel!Next]_(Channel!vars)
    BY ChannelStep
  <1> QED
    BY <1>1, <1>2, <1>3, ChannelInit, PTL DEF Spec, ChannelSpec, Channel!Spec

-----------------------------------------------------------------------------
(***************************************************************************)
(* The samples of a queue whose burst is over, and of the queue that is    *)
(* being served: its last depth sample is there, the residence samples of  *)
(* the burst are still to come.                                            *)
(***************************************************************************)
InBurst == deqPc \in {"burst", "transfer", "count", "service"}

Forwarded == IF deqPc = "count" THEN deqI + 1 ELSE deqI

SamplesWhole(q) ==
  /\ residenceTime[q] = Len(sent[q])
  /\ Len(sent[q]) <= qWeights[q] * itemsInQ[q]
  /\ qWeights[q] > 0 => itemsInQ[q] <= Len(sent[q])

SamplesPending(q) ==
  /\ itemsInQ[q] >= 1
  /\ residenceTime[q] + Forwarded = Len(sent[q])
  /\ residenceTime[q] <= qWeights[q] * (itemsInQ[q] - 1)
  /\ qWeights[q] > 0 => itemsInQ[q] - 1 <= residenceTime[q]

Samples ==
  /\ \A q \in QIds : IF q = deqQ /\ InBurst THEN SamplesPending(q)
                                            ELSE SamplesWhole(q)
  /\ InBurst => deqI <= qWeights[deqQ]
  /\ deqPc \in {"transfer", "count"} => deqI < qWeights[deqQ]
  /\ deqPc = "burst" /\ deqI = 0 => queues[deqQ] # << >>
  /\ deqPc = "service" => deqI >= 1

LEMMA SamplesInit == Init => Samples
  <1> SUFFICES ASSUME Init PROVE Samples
    OBVIOUS
  <1>1. /\ deqPc = "off" /\ deqI = 0
        /\ \A q \in QIds : sent[q] = << >> /\ itemsInQ[q] = 0
                           /\ residenceTime[q] = 0
    BY DEF Init, DeqInit
  <1>2. \A q \in QIds : qWeights[q] \in Nat /\ qWeights[q] * 0 = 0
    BY WeightsAssumption
  <1> QED
    BY <1>1, <1>2 DEF Samples, InBurst, SamplesWhole

(***************************************************************************)
(* The push tasks only add to a queue, and no other thread touches what    *)
(* the pop task has counted.                                               *)
(***************************************************************************)
LEMMA SamplesUnchanged ==
  ASSUME Samples,
         UNCHANGED << deqQ, deqI, sent, itemsInQ, residenceTime >>,
         deqPc' = deqPc \/ (deqPc = "off" /\ deqPc' = "run"),
         deqPc = "burst" /\ queues[deqQ] # << >> => queues'[deqQ] # << >>
  PROVE  Samples'
  <1>1. InBurst' = InBurst
    BY DEF InBurst
  <1>2. \A q \in QIds : /\ SamplesWhole(q)' = SamplesWhole(q)
                        /\ InBurst => SamplesPending(q)' = SamplesPending(q)
    BY DEF SamplesWhole, SamplesPending, Forwarded, InBurst
  <1> QED
    BY <1>1, <1>2 DEF Samples, InBurst

LEMMA SamplesPopTask ==
  ASSUME Types, Phases, Samples, PopTask
  PROVE  Samples'
  <1>0. /\ deqQ \in QIds /\ deqI \in Nat
        /\ itemsInQ \in [QIds -> Nat] /\ residenceTime \in [QIds -> Nat]
        /\ sent \in [QIds -> Seq(Packets)]
        /\ \A q \in QIds : qWeights[q] \in Nat /\ Len(sent[q]) \in Nat
    <2>1. sent \in [QIds -> Seq(Packets)]
      BY DEF Types, DeqTypeOK
    <2>2. \A q \in QIds : qWeights[q] \in Nat /\ Len(sent[q]) \in Nat
      BY <2>1, WeightsAssumption, LenProperties
    <2> QED
      BY <2>1, <2>2, VisitedQueues DEF Types, DeqTypeOK
  <1>1. ASSUME \A q \in QIds : SamplesWhole(q),
               UNCHANGED << sent, itemsInQ, residenceTime >>,
               deqPc' \in {"loop", "visit", "end"}
        PROVE  Samples'
    <2>1. ~ InBurst'
      BY <1>1 DEF InBurst
    <2>2. \A q \in QIds : SamplesWhole(q)'
      BY <1>1 DEF SamplesWhole
    <2> QED
      BY <1>1, <2>1, <2>2 DEF Samples
  <1>2. ~ InBurst => \A q \in QIds : SamplesWhole(q)
    BY DEF Samples
  <1>3. CASE DeqRun \/ DeqExit \/ DeqNextQueue \/ DeqSkip
    <2>1. /\ ~ InBurst /\ deqPc' \in {"loop", "visit", "end"}
          /\ UNCHANGED << sent, itemsInQ, residenceTime >>
      BY <1>3 DEF DeqRun, DeqExit, DeqNextQueue, DeqSkip, InBurst
    <2> QED
      BY <1>1, <1>2, <2>1
  <1>4. CASE DeqVisit
    <2>1. /\ ~ InBurst /\ deqPc' = "burst" /\ deqI' = 0 /\ deqQ' = deqQ
          /\ queues[deqQ] # << >> /\ queues' = queues
          /\ itemsInQ'[deqQ] = itemsInQ[deqQ] + 1
          /\ \A q \in QIds : q # deqQ => itemsInQ'[q] = itemsInQ[q]
          /\ UNCHANGED << sent, residenceTime >>
      BY <1>0, <1>4 DEF DeqVisit, InBurst, QueueEmpty
    <2>2. \A q \in QIds : q # deqQ => SamplesWhole(q)'
      BY <1>2, <2>1 DEF SamplesWhole
    <2>3. itemsInQ'[deqQ] - 1 = itemsInQ[deqQ] /\ itemsInQ'[deqQ] >= 1
      <3>1. itemsInQ[deqQ] \in Nat
        BY <1>0
      <3>2. itemsInQ'[deqQ] = itemsInQ[deqQ] + 1
        BY <2>1
      <3> QED
        BY <3>1, <3>2
    <2>4. SamplesWhole(deqQ) /\ deqQ' = deqQ
      BY <1>0, <1>2, <2>1
    <2>5. SamplesPending(deqQ)'
      BY <1>0, <2>1, <2>3, <2>4 DEF SamplesWhole, SamplesPending, Forwarded
    <2>6. deqI' <= qWeights[deqQ'] /\ queues'[deqQ'] # << >> /\ InBurst'
      BY <1>0, <2>1, <2>4 DEF InBurst
    <2>7. \A q \in QIds : IF q = deqQ' /\ InBurst' THEN SamplesPending(q)'
                                                  ELSE SamplesWhole(q)'
      BY <2>2, <2>4, <2>5, <2>6
    <2> QED
      BY <2>1, <2>6, <2>7 DEF Samples
  <1>5. ASSUME InBurst, InBurst',
               UNCHANGED << deqQ, itemsInQ, residenceTime >>,
               \A q \in QIds : q # deqQ => sent'[q] = sent[q],
               Len(sent'[deqQ]) - Len(sent[deqQ]) = Forwarded' - Forwarded,
               Forwarded \in Nat, Forwarded' \in Nat,
               Len(sent'[deqQ]) \in Nat
        PROVE  \A q \in QIds : IF q = deqQ' /\ InBurst' THEN SamplesPending(q)'
                                                       ELSE SamplesWhole(q)'
    <2>1. \A q \in QIds : q # deqQ => SamplesWhole(q)'
      BY <1>5 DEF Samples, SamplesWhole
    <2>2. SamplesPending(deqQ)
      BY <1>0, <1>5 DEF Samples
    <2>3. residenceTime'[deqQ] + Forwarded' = Len(sent'[deqQ])
      <3> DEFINE a == Len(sent[deqQ])
                 b == Len(sent'[deqQ])
      <3>1. residenceTime[deqQ] + Forwarded = a
        BY <2>2 DEF SamplesPending
      <3>2. residenceTime[deqQ] \in Nat /\ a \in Nat /\ b \in Nat
        BY <1>0, <1>5
      <3>3. b - a = Forwarded' - Forwarded /\ residenceTime' = residenceTime
            /\ Forwarded \in Nat /\ Forwarded' \in Nat
        BY <1>5
      <3>4. PICK g \in Nat : g = Forwarded'
        BY <3>3
      <3>5. b - a = g - Forwarded
        BY <3>3, <3>4
      <3> HIDE DEF a, b
      <3>6. residenceTime[deqQ] + g = b
        BY <3>1, <3>2, <3>3, <3>5
      <3> QED
        BY <3>3, <3>4, <3>6, <1>5 DEF b
    <2>4. SamplesPending(deqQ)'
      BY <1>5, <2>2, <2>3 DEF SamplesPending
    <2> QED
      BY <1>5, <2>1, <2>4
  <1>6. CASE DeqPop
    <2>1. /\ InBurst /\ InBurst' /\ deqPc = "burst" /\ deqPc' = "transfer"
          /\ deqI < qWeights[deqQ]
          /\ UNCHANGED << deqQ, itemsInQ, residenceTime, sent, deqI >>
      BY <1>6 DEF DeqPop, InBurst
    <2>2. Forwarded' = Forwarded /\ Forwarded \in Nat
      BY <1>0, <2>1 DEF Forwarded
    <2>3. \A q \in QIds : IF q = deqQ' /\ InBurst' THEN SamplesPending(q)'
                                                  ELSE SamplesWhole(q)'
      BY <1>0, <1>5, <2>1, <2>2
    <2> QED
      BY <1>0, <2>1, <2>3 DEF Samples
  <1>7. CASE DeqTransfer
    <2>1. /\ InBurst /\ InBurst' /\ deqPc = "transfer" /\ deqPc' = "count"
          /\ sent' = [sent EXCEPT ![deqQ] = sent[deqQ] \o hand]
          /\ UNCHANGED << deqQ, itemsInQ, residenceTime, deqI >>
      BY <1>7 DEF DeqTransfer, InBurst
    <2>2. PICK p \in Packets : hand = << p >>
      BY <2>1 DEF Phases
    <2>3. Len(sent'[deqQ]) = Len(sent[deqQ]) + 1
      <3>1. sent'[deqQ] = sent[deqQ] \o << p >> /\ sent[deqQ] \in Seq(Packets)
        BY <1>0, <2>1, <2>2
      <3>2. Len(sent[deqQ] \o << p >>) = Len(sent[deqQ]) + 1
        BY <3>1, AppendIsConcat, AppendProperties
      <3> QED
        BY <3>1, <3>2
    <2>4. /\ Forwarded = deqI /\ Forwarded' = deqI + 1
          /\ \A q \in QIds : q # deqQ => sent'[q] = sent[q]
      BY <1>0, <2>1 DEF Forwarded
    <2>5. \A q \in QIds : IF q = deqQ' /\ InBurst' THEN SamplesPending(q)'
                                                  ELSE SamplesWhole(q)'
      BY <1>0, <1>5, <2>1, <2>3, <2>4
    <2> QED
      BY <2>1, <2>5 DEF Samples
  <1>8. CASE DeqCount
    <2>1. /\ InBurst /\ InBurst' /\ deqPc = "count" /\ deqPc' = "burst"
          /\ deqI' = deqI + 1
          /\ UNCHANGED << deqQ, itemsInQ, residenceTime, sent >>
      BY <1>8 DEF DeqCount, InBurst
    <2>2. Forwarded' = Forwarded /\ Forwarded \in Nat
      BY <1>0, <2>1 DEF Forwarded
    <2>3. \A q \in QIds : IF q = deqQ' /\ InBurst' THEN SamplesPending(q)'
                                                  ELSE SamplesWhole(q)'
      BY <1>0, <1>5, <2>1, <2>2
    <2>4. deqI < qWeights[deqQ]
      BY <2>1 DEF Samples
    <2>5. deqI' <= qWeights[deqQ] /\ deqI' # 0
      BY <1>0, <2>1, <2>4
    <2> QED
      BY <2>1, <2>3, <2>5 DEF Samples
  <1>9. CASE DeqEndBurst /\ deqI # 0
    <2>1. /\ InBurst /\ InBurst' /\ deqPc = "burst" /\ deqPc' = "service"
          /\ UNCHANGED << deqQ, itemsInQ, residenceTime, sent, deqI >>
      BY <1>9 DEF DeqEndBurst, InBurst
    <2>2. Forwarded' = Forwarded /\ Forwarded \in Nat
      BY <1>0, <2>1 DEF Forwarded
    <2>3. \A q \in QIds : IF q = deqQ' /\ InBurst' THEN SamplesPending(q)'
                                                  ELSE SamplesWhole(q)'
      BY <1>0, <1>5, <2>1, <2>2
    <2>4. deqI' >= 1 /\ deqI' <= qWeights[deqQ]
      BY <1>0, <1>9, <2>1 DEF Samples
    <2> QED
      BY <2>1, <2>3, <2>4 DEF Samples
  <1>10. ASSUME InBurst, deqPc # "count",
                residenceTime[deqQ] + deqI >= itemsInQ[deqQ]
                  \/ qWeights[deqQ] = 0
         PROVE  /\ residenceTime[deqQ] + deqI = Len(sent[deqQ])
                /\ Len(sent[deqQ]) <= qWeights[deqQ] * itemsInQ[deqQ]
                /\ qWeights[deqQ] > 0 => itemsInQ[deqQ] <= Len(sent[deqQ])
    <2> DEFINE w == qWeights[deqQ]
               n == itemsInQ[deqQ]
               r == residenceTime[deqQ]
               s == Len(sent[deqQ])
    <2>1. /\ n >= 1 /\ r + deqI = s /\ r <= w * (n - 1) /\ deqI <= w
          /\ w \in Nat /\ n \in Nat /\ r \in Nat /\ s \in Nat
      BY <1>0, <1>10 DEF Samples, SamplesPending, Forwarded
    <2>2. w * n = w * (n - 1) + w
      BY <2>1
    <2>3. w * (n - 1) \in Int /\ w * n \in Int
      BY <2>1
    <2>4. (r + deqI >= n \/ w = 0)
      BY <1>10
    <2> HIDE DEF w, n, r, s
    <2>5. s <= w * n /\ (w > 0 => n <= s)
      BY <1>0, <2>1, <2>2, <2>3, <2>4
    <2> QED
      BY <2>1, <2>5 DEF w, n, r, s
  <1>11. CASE DeqEndBurst /\ deqI = 0
    <2>1. /\ InBurst /\ deqPc = "burst" /\ deqPc' = "loop"
          /\ deqI >= qWeights[deqQ] \/ queues[deqQ] = << >>
          /\ UNCHANGED << itemsInQ, residenceTime, sent >>
      BY <1>11 DEF DeqEndBurst, InBurst, QueueEmpty
    <2>2. qWeights[deqQ] = 0
      BY <1>0, <1>11, <2>1 DEF Samples
    <2>3. SamplesWhole(deqQ)
      <3>1. residenceTime[deqQ] + deqI = residenceTime[deqQ]
        BY <1>0, <1>11
      <3> QED
        BY <1>10, <2>1, <2>2, <3>1 DEF SamplesWhole
    <2>4. \A q \in QIds : SamplesWhole(q)
      BY <2>3 DEF Samples
    <2> QED
      BY <1>1, <2>1, <2>4
  <1>12. CASE DeqService
    <2>1. /\ InBurst /\ deqPc = "service" /\ deqPc' = "loop" /\ ~ InBurst'
          /\ residenceTime' = [residenceTime EXCEPT
                                 ![deqQ] = residenceTime[deqQ] + deqI]
          /\ UNCHANGED << itemsInQ, sent, deqQ >>
      BY <1>12 DEF DeqService, InBurst
    <2>2. residenceTime[deqQ] + deqI >= itemsInQ[deqQ] \/ qWeights[deqQ] = 0
      <3>1. deqI >= 1 /\ SamplesPending(deqQ)
        BY <1>0, <2>1 DEF Samples
      <3>2. qWeights[deqQ] > 0 => itemsInQ[deqQ] - 1 <= residenceTime[deqQ]
        BY <3>1 DEF SamplesPending
      <3> QED
        BY <1>0, <3>1, <3>2
    <2>3. /\ residenceTime'[deqQ] = residenceTime[deqQ] + deqI
          /\ \A q \in QIds : q # deqQ => residenceTime'[q] = residenceTime[q]
      BY <1>0, <2>1
    <2>4. SamplesWhole(deqQ)'
      BY <1>10, <2>1, <2>2, <2>3 DEF SamplesWhole
    <2>5. \A q \in QIds : q # deqQ => SamplesWhole(q)'
      BY <2>1, <2>3 DEF Samples, SamplesWhole
    <2>6. \A q \in QIds : SamplesWhole(q)'
      BY <2>1, <2>4, <2>5
    <2> QED
      BY <2>1, <2>6 DEF Samples
  <1> QED
    BY <1>3, <1>4, <1>6, <1>7, <1>8, <1>9, <1>11, <1>12 DEF PopTask, DeqStep

LEMMA SamplesStep == Types /\ Phases /\ Samples /\ [Next]_vars => Samples'
  <1> SUFFICES ASSUME Types, Phases, Samples, [Next]_vars PROVE Samples'
    OBVIOUS
  <1>1. CASE \/ \E q \in QIds, p \in Packets : PutPacket(q, p)
             \/ Start \/ AdaptorStep \/ Terminate \/ Kill \/ UNCHANGED vars
    <2>1. /\ UNCHANGED << deqQ, deqI, sent, itemsInQ, residenceTime, queues >>
          /\ deqPc' = deqPc \/ (deqPc = "off" /\ deqPc' = "run")
      <3>1. CASE StartDeq
        BY <3>1 DEF StartDeq, Phases
      <3>2. CASE ~ StartDeq
        BY <1>1, <3>2
        DEF PutPacket, Start, AdaptorStep, StartEnq, SeeComplete, ReadTotal,
            TestEqual, TestUnequal, OutNotify, Terminate, Kill, vars, deqVars
      <3> QED
        BY <3>1, <3>2
    <2> QED
      BY <2>1, SamplesUnchanged
  <1>2. ASSUME NEW q \in QIds, PushTask(q)
        PROVE  Samples'
    <2>1. UNCHANGED << deqPc, deqQ, deqI, sent, itemsInQ, residenceTime >>
      BY <1>2 DEF PushTask, NotifyStep, NLoad, NStore, BLoad, BStore, NTest,
                  deqVars
    <2>2. queues[deqQ] # << >> => queues'[deqQ] # << >>
      <3>1. CASE EnqPush(q)
        <4>1. queues' = [queues EXCEPT ![q] = Append(queues[q], Head(pBuffers[q]))]
          BY <3>1 DEF EnqPush, QueuePush
        <4>2. /\ queues \in [QIds -> Seq(Packets)] /\ deqQ \in QIds
              /\ pBuffers \in [QIds -> Seq(Packets)] /\ pBuffers[q] # << >>
          BY <3>1, ConservationTypes DEF EnqPush
        <4>3. Append(queues[q], Head(pBuffers[q])) # << >>
          <5>1. /\ Head(pBuffers[q]) \in Packets /\ queues[q] \in Seq(Packets)
            BY <4>2, HeadTailProperties
          <5>2. Len(Append(queues[q], Head(pBuffers[q]))) = Len(queues[q]) + 1
                /\ Len(queues[q]) \in Nat
            BY <5>1, AppendProperties, LenProperties
          <5> QED
            BY <5>2
        <4> QED
          BY <4>1, <4>2, <4>3
      <3>2. CASE ~ EnqPush(q)
        BY <1>2, <3>2
        DEF PushTask, EnqStep, EnqPlan, EnqBegin, EnqEndBurst, NotifyStep,
            NLoad, NStore, BLoad, BStore, NTest
      <3> QED
        BY <3>1, <3>2
    <2> QED
      BY <2>1, <2>2, SamplesUnchanged
  <1> QED
    BY <1>1, <1>2, SamplesPopTask DEF Next

(***************************************************************************)
(* The pop task's statistics agree with its traffic, for any weights: one  *)
(* residence sample a packet, and a depth sample for every visit that sent *)
(* something.                                                              *)
(***************************************************************************)
THEOREM StatisticsAgree == Spec => []SamplesMatchTraffic
  <1>1. Init => Types /\ Phases /\ Samples
    BY TypeInit, PhasesInit, SamplesInit
  <1>2. Types /\ Phases /\ Samples /\ [Next]_vars
          => (Types /\ Phases /\ Samples)'
    BY TypeStep, PhasesStep, SamplesStep
  <1>3. Samples => SamplesMatchTraffic
    BY DEF Samples, SamplesMatchTraffic, SamplesWhole, InBurst
  <1> QED
    BY <1>1, <1>2, <1>3, PTL DEF Spec

-----------------------------------------------------------------------------
(***************************************************************************)
(* Each task has moved what is missing from its buffer, and the pop task   *)
(* has counted what is over the link, but for the packet it has in hand.   *)
(***************************************************************************)
Sizes(f) == [q \in QIds |-> Len(f[q])]

Moved ==
  \A q \in QIds : /\ enqTotal[q] + Len(pBuffers[q]) = Len(offered[q])
                  /\ enqPc[q] = "off" => enqTotal[q] = 0

Sent ==
  IF deqPc \in {"off", "run"} THEN \A q \in QIds : sent[q] = << >>
  ELSE SumFunction(Sizes(sent)) =
         IF deqPc = "count" THEN deqTotal + 1 ELSE deqTotal

(***************************************************************************)
(* What the adaptor has been told is at most what the tasks that stored it *)
(* moved, and exactly that while no two notify calls overlapped.           *)
(***************************************************************************)
Stored == {q \in QIds : enqPc[q] \in {"nTest", "end"}}

Reports ==
  /\ bprocessedPackets <= SumFunctionOnSet(enqTotal, Stored)
  /\ \A q \in QIds : enqPc[q] = "bStore" =>
       bReg[q] <= SumFunctionOnSet(enqTotal, Stored)

OneAtATime ==
  ~ raced =>
    /\ \A q, r \in QIds : enqPc[q] \in NotifyPcs /\ enqPc[r] \in NotifyPcs
                            => q = r
    /\ bprocessedPackets = SumFunctionOnSet(enqTotal, Stored)
    /\ \A q \in QIds : enqPc[q] = "bStore" => bReg[q] = bprocessedPackets
    /\ bPacketsComplete => \A q \in QIds : enqPc[q] = "end"

(***************************************************************************)
(* The adaptor's own thread: it has noted the sizes of the buffers it has  *)
(* passed, and it finishes on a counter that is the number of packets.     *)
(***************************************************************************)
Started ==
  /\ adPc = "idle" => adI = 0
  /\ adPc = "startEnq" =>
       \A q \in QIds : q < adI => pPerQueue[q] = Len(offered[q])
  /\ adPc \in {"startDeq", "await", "read", "test", "notify", "done"} =>
       \A q \in QIds : pPerQueue[q] = Len(offered[q])
  /\ adPc \in {"await", "read", "test", "notify", "done"} => deqPc # "off"
  /\ adPc \in {"read", "test"} => bPacketsComplete

Finished ==
  adPc \in {"notify", "done"} /\ ~ raced =>
    deqPc \notin {"off", "run"} /\ deqTotal = SumFunction(Sizes(offered))

-----------------------------------------------------------------------------
(***************************************************************************)
(* Outside notify a step leaves the shared counters alone, moves no task   *)
(* into or out of notify, and does not change what a task in it has moved. *)
(***************************************************************************)
InNotify(q) == enqPc[q] \in NotifyPcs \cup {"end"}

Quiet ==
  /\ UNCHANGED << nEnqProcs, bprocessedPackets, bPacketsComplete, nReg, bReg >>
  /\ \A q \in QIds : /\ InNotify(q) => UNCHANGED << enqPc[q], enqTotal[q] >>
                     /\ InNotify(q)' => UNCHANGED enqPc[q]

LEMMA QuietStep ==
  ASSUME Types, Phases, [Next]_vars, \A q \in QIds : ~ NotifyStep(q)
  PROVE  Quiet
  <1> USE DEF Quiet, InNotify, NotifyPcs
  <1>1. /\ enqPc \in [QIds -> EnqPcs \cup NotifyPcs \cup {"end"}]
        /\ enqTotal \in [QIds -> Nat]
    BY DEF Types, EnqTypeOK
  <1>2. ASSUME NEW q \in QIds, EnqStep(q),
               UNCHANGED << deqVars, adVars, offered, raced >>
        PROVE  Quiet
    <2>1. /\ enqPc[q] \in {"plan", "loop", "burst"}
          /\ enqPc'[q] \in {"plan", "loop", "burst"}
          /\ \A r \in QIds : r # q => /\ enqPc'[r] = enqPc[r]
                                      /\ enqTotal'[r] = enqTotal[r]
      BY <1>1, <1>2
      DEF EnqStep, EnqPlan, EnqBegin, EnqPush, EnqEndBurst, EnqGoto
    <2> QED
      BY <1>2, <2>1 DEF adVars
  <1>3. CASE StartEnq
    <2>1. adI \in QIds /\ enqPc[adI] = "off"
      <3>1. adI \in QIds
        BY <1>3 DEF StartEnq, Types, StartingInBounds
      <3>2. adI \in Nat
        BY <3>1, VisitedQueues
      <3> QED
        BY <1>3, <3>1, <3>2 DEF StartEnq, Phases
    <2>2. /\ enqPc' = [enqPc EXCEPT ![adI] = EnqEntry]
          /\ EnqEntry \in {"plan", "loop"}
          /\ UNCHANGED << nEnqProcs, bprocessedPackets, bPacketsComplete,
                          nReg, bReg, enqTotal >>
      BY <1>3 DEF StartEnq, EnqGoto, EnqEntry
    <2> QED
      BY <1>1, <2>1, <2>2
  <1>4. CASE \/ \E q \in QIds, p \in Packets : PutPacket(q, p)
             \/ Start \/ StartDeq \/ SeeComplete \/ ReadTotal \/ TestEqual
             \/ TestUnequal \/ OutNotify \/ Terminate \/ Kill \/ PopTask
             \/ UNCHANGED vars
    <2>1. UNCHANGED << nEnqProcs, bprocessedPackets, bPacketsComplete, nReg,
                       bReg, enqPc, enqTotal >>
      BY <1>4
      DEF PutPacket, Start, StartDeq, SeeComplete, ReadTotal, TestEqual,
          TestUnequal, OutNotify, Terminate, Kill, PopTask, vars, enqVars,
          adVars
    <2> QED
      BY <2>1
  <1> QED
    BY <1>2, <1>3, <1>4 DEF Next, AdaptorStep, PushTask

(***************************************************************************)
(* Only the store of a total adds to what the tasks that have stored theirs*)
(* moved, and it adds that total.                                          *)
(***************************************************************************)
StoredTotal == SumFunctionOnSet(enqTotal, Stored)

LEMMA StoredKept ==
  ASSUME Types, Stored' = Stored,
         \A q \in Stored : enqTotal'[q] = enqTotal[q]
  PROVE  StoredTotal' = StoredTotal
  <1>1. Stored \in SUBSET QIds /\ enqTotal \in [QIds -> Nat]
    BY DEF Stored, Types, EnqTypeOK
  <1>2. IsFiniteSet(Stored)
    BY <1>1, QIdsFinite, FS_Subset
  <1>3. \A q \in Stored : enqTotal[q] \in Int /\ enqTotal[q] = enqTotal'[q]
    BY <1>1
  <1>4. SumFunctionOnSet(enqTotal, Stored) = SumFunctionOnSet(enqTotal', Stored)
    BY <1>2, <1>3, SumSame
  <1> QED
    BY <1>4 DEF StoredTotal

LEMMA StoredGrows ==
  ASSUME Types, NEW q \in QIds, BStore(q)
  PROVE  StoredTotal' = StoredTotal + enqTotal[q]
  <1>1. Stored \in SUBSET QIds /\ enqTotal \in [QIds -> Nat]
    BY DEF Stored, Types, EnqTypeOK
  <1>2. enqPc[q] = "bStore" /\ enqPc' = [enqPc EXCEPT ![q] = "nTest"]
        /\ enqTotal' = enqTotal
    BY DEF BStore, EnqGoto
  <1>3. Stored' = Stored \cup {q} /\ q \notin Stored
    BY <1>2 DEF Stored, Types
  <1> DEFINE S == Stored \cup {q}
  <1>4. S \ {q} = Stored /\ q \in S /\ S \in SUBSET QIds
    BY <1>1, <1>3
  <1>5. IsFiniteSet(S) /\ \A x \in S : enqTotal[x] \in Int
    BY <1>1, <1>4, QIdsFinite, FS_Subset
  <1> HIDE DEF S
  <1>6. SumFunctionOnSet(enqTotal, S)
          = enqTotal[q] + SumFunctionOnSet(enqTotal, S \ {q})
    BY <1>4, <1>5, SumTake
  <1>7. SumFunctionOnSet(enqTotal, Stored) \in Int
    <2>1. IsFiniteSet(QIds) /\ \A x \in QIds : enqTotal[x] \in Int
      BY <1>1, QIdsFinite
    <2> QED
      BY <1>1, <2>1, SumInt
  <1>8. StoredTotal' = SumFunctionOnSet(enqTotal, S)
    BY <1>2, <1>3 DEF StoredTotal, S
  <1>9. SumFunctionOnSet(enqTotal, S \ {q}) = StoredTotal
    BY <1>4, Zenon DEF StoredTotal
  <1>10. enqTotal[q] \in Int /\ StoredTotal \in Int
    BY <1>1, <1>7 DEF StoredTotal
  <1> QED
    BY <1>6, <1>8, <1>9, <1>10

LEMMA StoredTotalNat == Types => StoredTotal \in Nat
  <1> SUFFICES ASSUME Types PROVE StoredTotal \in Nat
    OBVIOUS
  <1>1. Stored \in SUBSET QIds /\ enqTotal \in [QIds -> Nat]
    BY DEF Stored, Types, EnqTypeOK
  <1>2. IsFiniteSet(Stored) /\ \A q \in Stored : enqTotal[q] \in Nat
    BY <1>1, QIdsFinite, FS_Subset
  <1> QED
    BY <1>2, SumNat DEF StoredTotal

LEMMA StoredStep ==
  ASSUME Types, Phases, [Next]_vars, \A q \in QIds : ~ BStore(q)
  PROVE  StoredTotal' = StoredTotal
  <1>1. enqPc \in [QIds -> EnqPcs \cup NotifyPcs \cup {"end"}]
    BY DEF Types
  <1>2. CASE \A q \in QIds : ~ NotifyStep(q)
    <2>1. Quiet
      BY <1>2, QuietStep
    <2>2. Stored' = Stored /\ \A q \in Stored : enqTotal'[q] = enqTotal[q]
      BY <2>1 DEF Quiet, InNotify, NotifyPcs, Stored
    <2> QED
      BY <2>2, StoredKept
  <1>3. ASSUME NEW q \in QIds, NLoad(q) \/ NStore(q) \/ BLoad(q) \/ NTest(q)
        PROVE  StoredTotal' = StoredTotal
    <2>1. /\ enqTotal' = enqTotal
          /\ \E pc \in {"nStore", "bLoad", "bStore", "end"} :
               /\ enqPc' = [enqPc EXCEPT ![q] = pc]
               /\ enqPc[q] \in {"nTest", "end"} <=> pc \in {"nTest", "end"}
      BY <1>3 DEF NLoad, NStore, BLoad, NTest, EnqGoto, EnqDrained
    <2>2. Stored' = Stored
      BY <1>1, <2>1 DEF Stored
    <2> QED
      BY <2>1, <2>2, StoredKept
  <1> QED
    BY <1>2, <1>3 DEF NotifyStep

(***************************************************************************)
(* What has been reported, and what a notify call has loaded, is bounded by*)
(* what was moved by the tasks that have stored their total.               *)
(***************************************************************************)
LEMMA ReportsInit == Init => Reports
  <1> SUFFICES ASSUME Init PROVE Reports
    OBVIOUS
  <1>1. bprocessedPackets = 0 /\ enqPc = [q \in QIds |-> "off"]
    BY DEF Init, EnqInit, AdaptorInit
  <1>2. Types
    BY TypeInit
  <1>3. StoredTotal >= 0
    BY <1>2, StoredTotalNat
  <1> QED
    BY <1>1, <1>3 DEF Reports, StoredTotal

LEMMA ReportsStep ==
  Types /\ Phases /\ Reports /\ [Next]_vars => Reports'
  <1> SUFFICES ASSUME Types, Phases, Reports, [Next]_vars PROVE Reports'
    OBVIOUS
  <1>1. /\ enqPc \in [QIds -> EnqPcs \cup NotifyPcs \cup {"end"}]
        /\ bReg \in [QIds -> Nat] /\ enqTotal \in [QIds -> Nat]
        /\ bprocessedPackets \in Nat /\ StoredTotal \in Nat
    BY StoredTotalNat DEF Types, AdaptorTypeOK, EnqTypeOK
  <1>2. /\ bprocessedPackets <= StoredTotal
        /\ \A r \in QIds : enqPc[r] = "bStore" => bReg[r] <= StoredTotal
    BY DEF Reports, StoredTotal
  <1>3. SUFFICES /\ bprocessedPackets' <= StoredTotal'
                 /\ \A r \in QIds : enqPc'[r] = "bStore"
                                      => bReg'[r] <= StoredTotal'
    BY DEF Reports, StoredTotal
  <1>4. CASE \A q \in QIds : ~ NotifyStep(q)
    <2>1. Quiet /\ StoredTotal' = StoredTotal
      BY <1>4, QuietStep, StoredStep DEF NotifyStep
    <2>2. bprocessedPackets' = bprocessedPackets /\ bReg' = bReg
      BY <2>1 DEF Quiet
    <2>3. \A r \in QIds : enqPc'[r] = "bStore" => enqPc[r] = "bStore"
      BY <2>1 DEF Quiet, InNotify, NotifyPcs
    <2> QED
      BY <1>2, <2>1, <2>2, <2>3
  <1>5. ASSUME NEW q \in QIds, NLoad(q) \/ NStore(q) \/ NTest(q)
        PROVE  /\ bprocessedPackets' <= StoredTotal'
               /\ \A r \in QIds : enqPc'[r] = "bStore"
                                    => bReg'[r] <= StoredTotal'
    <2>1. /\ UNCHANGED << bprocessedPackets, bReg >>
          /\ \E pc \in {"nStore", "bLoad", "end"} :
               enqPc' = [enqPc EXCEPT ![q] = pc]
          /\ enqPc[q] # "bStore"
      BY <1>5 DEF NLoad, NStore, NTest, EnqGoto, EnqDrained
    <2>2. Stored' = Stored /\ enqTotal' = enqTotal
      <3>1. enqPc[q] = "nTest" <=> NTest(q)
        BY <1>5 DEF NLoad, NStore, NTest, EnqDrained
      <3> QED
        BY <1>1, <1>5, <3>1 DEF NLoad, NStore, NTest, EnqGoto, EnqDrained, Stored
    <2>3. StoredTotal' = StoredTotal
      BY <2>2, StoredKept
    <2>4. \A r \in QIds : enqPc'[r] = "bStore" => enqPc[r] = "bStore"
      BY <1>1, <2>1
    <2> QED
      BY <1>2, <2>1, <2>3, <2>4
  <1>6. ASSUME NEW q \in QIds, BLoad(q)
        PROVE  /\ bprocessedPackets' <= StoredTotal'
               /\ \A r \in QIds : enqPc'[r] = "bStore"
                                    => bReg'[r] <= StoredTotal'
    <2>1. /\ bReg' = [bReg EXCEPT ![q] = bprocessedPackets]
          /\ enqPc' = [enqPc EXCEPT ![q] = "bStore"] /\ enqPc[q] = "bLoad"
          /\ UNCHANGED << bprocessedPackets, enqTotal >>
      BY <1>6 DEF BLoad, EnqGoto
    <2>2. Stored' = Stored
      BY <1>1, <2>1 DEF Stored
    <2>3. StoredTotal' = StoredTotal
      BY <2>1, <2>2, StoredKept
    <2>4. \A r \in QIds : r # q => bReg'[r] = bReg[r] /\ enqPc'[r] = enqPc[r]
      BY <1>1, <2>1
    <2>5. bReg'[q] = bprocessedPackets
      BY <1>1, <2>1
    <2> QED
      BY <1>2, <2>1, <2>3, <2>4, <2>5
  <1>7. ASSUME NEW q \in QIds, BStore(q)
        PROVE  /\ bprocessedPackets' <= StoredTotal'
               /\ \A r \in QIds : enqPc'[r] = "bStore"
                                    => bReg'[r] <= StoredTotal'
    <2>1. StoredTotal' = StoredTotal + enqTotal[q]
      BY <1>7, StoredGrows
    <2>2. /\ bprocessedPackets' = bReg[q] + enqTotal[q]
          /\ bReg' = [bReg EXCEPT ![q] = 0]
          /\ enqPc' = [enqPc EXCEPT ![q] = "nTest"] /\ enqPc[q] = "bStore"
      BY <1>7 DEF BStore, EnqGoto
    <2>3. bReg[q] \in Nat /\ enqTotal[q] \in Nat /\ bReg[q] <= StoredTotal
      BY <1>1, <1>2, <2>2
    <2>4. bprocessedPackets' <= StoredTotal'
      BY <1>1, <2>1, <2>2, <2>3
    <2>5. ASSUME NEW r \in QIds, enqPc'[r] = "bStore"
          PROVE  bReg'[r] <= StoredTotal'
      <3>1. r # q /\ enqPc[r] = "bStore" /\ bReg'[r] = bReg[r] /\ bReg[r] \in Nat
        BY <1>1, <2>2, <2>5
      <3>2. bReg[r] <= StoredTotal
        BY <1>2, <3>1
      <3> QED
        BY <1>1, <2>1, <2>3, <3>1, <3>2
    <2> QED
      BY <2>4, <2>5
  <1> QED
    BY <1>4, <1>5, <1>6, <1>7 DEF NotifyStep

(***************************************************************************)
(* Whatever additions overlap, bprocessedPackets is never more than what   *)
(* the push tasks that have stored it moved into the queues.               *)
(***************************************************************************)
THEOREM ReportsAreReal == Spec => []ReportsNeverInvent
  <1>1. Init => Types /\ Phases /\ Reports
    BY TypeInit, PhasesInit, ReportsInit
  <1>2. Types /\ Phases /\ Reports /\ [Next]_vars
          => (Types /\ Phases /\ Reports)'
    BY TypeStep, PhasesStep, ReportsStep
  <1>3. Reports => ReportsNeverInvent
    BY DEF Reports, Stored, ReportsNeverInvent
  <1> QED
    BY <1>1, <1>2, <1>3, PTL DEF Spec

(***************************************************************************)
(* While no two notify calls overlapped, the report is exact, and when the *)
(* tasks are seen to be complete all of them have returned.                *)
(***************************************************************************)
LEMMA RacedStays ==
  ASSUME Types, FlagsTypeOK, [Next]_vars, ~ raced'
  PROVE  ~ raced
  <1>1. raced' = raced \/ raced' = (raced \/ deqPc = "run")
        \/ \E q \in QIds : NLoad(q)
    BY DEF Next, AdaptorStep, PushTask, NotifyStep, PutPacket, Start, StartEnq,
           StartDeq, SeeComplete, ReadTotal, TestEqual, TestUnequal, OutNotify,
           Terminate, Kill, PopTask, NStore, BLoad, BStore, NTest, vars
  <1>2. ASSUME NEW q \in QIds, NLoad(q) PROVE ~ raced
    BY <1>2 DEF NLoad
  <1> QED
    BY <1>1, <1>2

LEMMA OneAtATimeInit == Init => OneAtATime
  <1> SUFFICES ASSUME Init PROVE OneAtATime
    OBVIOUS
  <1>1. /\ bprocessedPackets = 0 /\ enqPc = [q \in QIds |-> "off"]
        /\ bPacketsComplete = FALSE
    BY DEF Init, EnqInit, AdaptorInit
  <1>2. Stored = {}
    BY <1>1 DEF Stored
  <1>3. SumFunctionOnSet(enqTotal, Stored) = 0
    BY <1>2, SumEmpty
  <1> QED
    BY <1>1, <1>3 DEF OneAtATime, NotifyPcs

LEMMA OneAtATimeStep ==
  Types /\ FlagsTypeOK /\ Phases /\ Counting /\ OneAtATime /\ [Next]_vars
    => OneAtATime'
  <1> DEFINE alone == \A q, r \in QIds :
                        enqPc[q] \in NotifyPcs /\ enqPc[r] \in NotifyPcs
                          => q = r
             exact == bprocessedPackets = StoredTotal
             loaded == \A q \in QIds :
                         enqPc[q] = "bStore" => bReg[q] = bprocessedPackets
             over == bPacketsComplete => \A q \in QIds : enqPc[q] = "end"
  <1>1. SUFFICES ASSUME Types, FlagsTypeOK, Phases, Counting, OneAtATime,
                        [Next]_vars, ~ raced'
                 PROVE  alone' /\ exact' /\ loaded' /\ over'
    BY DEF OneAtATime, StoredTotal
  <1>2. alone /\ exact /\ loaded /\ over
    BY <1>1, RacedStays DEF OneAtATime, StoredTotal
  <1>3. /\ enqPc \in [QIds -> EnqPcs \cup NotifyPcs \cup {"end"}]
        /\ bReg \in [QIds -> Nat] /\ enqTotal \in [QIds -> Nat]
        /\ nReg \in [QIds -> Nat] /\ nEnqProcs \in Nat
    BY <1>1 DEF Types, AdaptorTypeOK, EnqTypeOK
  <1>4. CASE \A q \in QIds : ~ NotifyStep(q)
    <2>1. Quiet /\ StoredTotal' = StoredTotal
      BY <1>1, <1>4, QuietStep, StoredStep DEF NotifyStep
    <2>2. UNCHANGED << bprocessedPackets, bReg, bPacketsComplete >>
      BY <2>1 DEF Quiet
    <2>3. \A r \in QIds : InNotify(r)' => enqPc'[r] = enqPc[r]
      BY <2>1 DEF Quiet
    <2>4. alone' /\ loaded'
      BY <1>2, <2>2, <2>3 DEF InNotify, NotifyPcs
    <2>5. over'
      <3>1. \A r \in QIds : InNotify(r) => enqPc'[r] = enqPc[r]
        BY <2>1 DEF Quiet
      <3> QED
        BY <1>2, <2>2, <3>1 DEF InNotify
    <2> QED
      BY <1>2, <2>1, <2>2, <2>4, <2>5
  <1>5. ASSUME NEW q \in QIds, NLoad(q)
        PROVE  alone' /\ exact' /\ loaded' /\ over'
    <2>1. /\ enqPc[q] = "loop" /\ enqPc' = [enqPc EXCEPT ![q] = "nStore"]
          /\ \A r \in QIds : enqPc[r] \notin NotifyPcs
          /\ UNCHANGED << bprocessedPackets, bReg, bPacketsComplete, enqTotal >>
      BY <1>1, <1>5 DEF NLoad, EnqDrained, EnqGoto
    <2>2. Stored' = Stored
      BY <1>3, <2>1 DEF Stored
    <2>3. StoredTotal' = StoredTotal
      BY <1>1, <2>1, <2>2, StoredKept
    <2>4. \A r \in QIds : r # q => enqPc'[r] = enqPc[r]
      BY <1>3, <2>1
    <2> QED
      BY <1>2, <1>3, <2>1, <2>3, <2>4 DEF NotifyPcs
  <1>6. ASSUME NEW q \in QIds, NStore(q) \/ BLoad(q)
        PROVE  alone' /\ exact' /\ loaded' /\ over'
    <2>1. /\ enqPc[q] \in {"nStore", "bLoad"}
          /\ \/ enqPc' = [enqPc EXCEPT ![q] = "bLoad"] /\ bReg' = bReg
             \/ /\ enqPc' = [enqPc EXCEPT ![q] = "bStore"]
                /\ bReg' = [bReg EXCEPT ![q] = bprocessedPackets]
          /\ UNCHANGED << bprocessedPackets, bPacketsComplete, enqTotal >>
      BY <1>6 DEF NStore, BLoad, EnqGoto
    <2>2. Stored' = Stored
      BY <1>3, <2>1 DEF Stored
    <2>3. StoredTotal' = StoredTotal
      BY <1>1, <2>1, <2>2, StoredKept
    <2>4. \A r \in QIds : r # q => enqPc'[r] = enqPc[r] /\ bReg'[r] = bReg[r]
      BY <1>3, <2>1
    <2>5. enqPc'[q] = "bStore" => bReg'[q] = bprocessedPackets
      BY <1>3, <2>1
    <2>6. alone' /\ loaded'
      BY <1>2, <2>1, <2>4, <2>5 DEF NotifyPcs
    <2> QED
      BY <1>2, <2>1, <2>3, <2>6
  <1>7. ASSUME NEW q \in QIds, BStore(q)
        PROVE  alone' /\ exact' /\ loaded' /\ over'
    <2>1. StoredTotal' = StoredTotal + enqTotal[q]
      BY <1>1, <1>7, StoredGrows
    <2>2. /\ bprocessedPackets' = bReg[q] + enqTotal[q]
          /\ enqPc' = [enqPc EXCEPT ![q] = "nTest"] /\ enqPc[q] = "bStore"
          /\ UNCHANGED bPacketsComplete
      BY <1>7 DEF BStore, EnqGoto
    <2>3. \A r \in QIds : r # q => enqPc'[r] = enqPc[r]
                                   /\ enqPc[r] \notin NotifyPcs
      BY <1>2, <1>3, <2>2 DEF NotifyPcs
    <2>4. alone' /\ loaded'
      BY <1>3, <2>2, <2>3 DEF NotifyPcs
    <2>5. exact'
      BY <1>2, <2>1, <2>2
    <2>6. over'
      BY <1>2, <2>2
    <2> QED
      BY <2>4, <2>5, <2>6
  <1>8. ASSUME NEW q \in QIds, NTest(q)
        PROVE  alone' /\ exact' /\ loaded' /\ over'
    <2>1. /\ enqPc[q] = "nTest" /\ enqPc' = [enqPc EXCEPT ![q] = "end"]
          /\ UNCHANGED << bprocessedPackets, bReg, enqTotal, nEnqProcs >>
      BY <1>8 DEF NTest, EnqGoto
    <2>2. Stored' = Stored
      BY <1>3, <2>1 DEF Stored
    <2>3. StoredTotal' = StoredTotal
      BY <1>1, <2>1, <2>2, StoredKept
    <2>4. \A r \in QIds : r # q => enqPc'[r] = enqPc[r]
                                   /\ enqPc[r] \notin NotifyPcs
      BY <1>2, <1>3, <2>1 DEF NotifyPcs
    <2>5. alone' /\ loaded'
      BY <1>3, <2>1, <2>4 DEF NotifyPcs
    <2>6. exact'
      BY <1>2, <2>1, <2>3
    <2>7. over'
      <3>1. bPacketsComplete' => Counted' = QIds
        BY <1>1, <1>8, CountingNotify DEF Counting, NotifyStep
      <3>2. \A r \in QIds : r # q /\ r \in Counted' => enqPc'[r] = "end"
        BY <2>4 DEF Counted, NotifyPcs
      <3>3. enqPc'[q] = "end"
        BY <1>3, <2>1
      <3> QED
        BY <3>1, <3>2, <3>3
    <2> QED
      BY <2>5, <2>6, <2>7
  <1> QED
    BY <1>4, <1>5, <1>6, <1>7, <1>8 DEF NotifyStep

-----------------------------------------------------------------------------
(***************************************************************************)
(* The sizes of the queues of packets.                                     *)
(***************************************************************************)
LEMMA SizesAreNat ==
  ASSUME NEW f \in [QIds -> Seq(Packets)]
  PROVE  /\ Sizes(f) \in [QIds -> Nat]
         /\ SumFunction(Sizes(f)) = SumFunctionOnSet(Sizes(f), QIds)
         /\ SumFunction(Sizes(f)) \in Nat
  <1>1. Sizes(f) \in [QIds -> Nat]
    BY LenProperties DEF Sizes
  <1>2. SumFunction(Sizes(f)) = SumFunctionOnSet(Sizes(f), QIds)
    BY <1>1 DEF SumFunction
  <1> QED
    BY <1>1, <1>2, QIdsFinite, SumNat

(***************************************************************************)
(* The first of two sequences, and of four, is no longer than their        *)
(* concatenation, and is all of it when it is as long.                     *)
(***************************************************************************)
LEMMA FirstOfTwo ==
  ASSUME NEW S, NEW s \in Seq(S), NEW t \in Seq(S)
  PROVE  /\ s \o t \in Seq(S) /\ Len(s) <= Len(s \o t)
         /\ Len(s) = Len(s \o t) => s \o t = s
  <1>1. /\ s \o t \in Seq(S) /\ Len(s \o t) = Len(s) + Len(t)
        /\ Len(s) \in Nat /\ Len(t) \in Nat
    BY ConcatProperties, LenProperties
  <1>2. Len(t) = 0 => s \o t = s
    BY EmptySeq, ConcatEmptySeq
  <1> QED
    BY <1>1, <1>2

LEMMA FirstOfFour ==
  ASSUME NEW S, NEW s \in Seq(S), NEW t \in Seq(S), NEW u \in Seq(S),
         NEW v \in Seq(S), NEW o, o = s \o t \o u \o v
  PROVE  Len(s) <= Len(o) /\ (Len(s) = Len(o) => s = o)
  <1> DEFINE y == s \o t
             z == y \o u
  <1>1. o = z \o v
    OBVIOUS
  <1>2. y \in Seq(S) /\ Len(s) <= Len(y) /\ (Len(s) = Len(y) => y = s)
    BY FirstOfTwo
  <1> HIDE DEF y
  <1>3. z \in Seq(S) /\ Len(y) <= Len(z) /\ (Len(y) = Len(z) => z = y)
    BY <1>2, FirstOfTwo
  <1> HIDE DEF z
  <1>4. /\ o \in Seq(S) /\ Len(z) <= Len(o) /\ (Len(z) = Len(o) => o = z)
    <2> DEFINE w == z \o v
    <2>1. /\ w \in Seq(S) /\ Len(z) <= Len(w)
          /\ Len(z) = Len(w) => w = z
      BY ONLY <1>3, v \in Seq(S), FirstOfTwo
    <2>2. o = w
      BY <1>1
    <2> HIDE DEF w
    <2> QED
      BY <2>1, <2>2
  <1>5. {Len(s), Len(y), Len(z), Len(o)} \subseteq Nat
    BY <1>2, <1>3, <1>4, LenProperties
  <1> QED
    BY <1>2, <1>3, <1>4, <1>5

LEMMA SentAtMostOffered ==
  ASSUME Types, Conservation
  PROVE  /\ \A q \in QIds : Sizes(sent)[q] <= Sizes(offered)[q]
         /\ SumFunction(Sizes(sent)) <= SumFunction(Sizes(offered))
         /\ \A q \in QIds : Sizes(sent)[q] = Sizes(offered)[q]
                              => sent[q] = offered[q]
  <1>1. /\ sent \in [QIds -> Seq(Packets)] /\ offered \in [QIds -> Seq(Packets)]
        /\ queues \in [QIds -> Seq(Packets)]
        /\ pBuffers \in [QIds -> Seq(Packets)]
    BY ConservationTypes
  <1>2. ASSUME NEW q \in QIds
        PROVE  /\ Len(sent[q]) <= Len(offered[q])
               /\ Len(sent[q]) = Len(offered[q]) => sent[q] = offered[q]
    <2> DEFINE a == sent[q]
               b == InHand(q)
               c == queues[q]
               d == pBuffers[q]
               e == offered[q]
    <2>1. /\ a \in Seq(Packets) /\ b \in Seq(Packets)
          /\ c \in Seq(Packets) /\ d \in Seq(Packets)
          /\ e = a \o b \o c \o d
      BY <1>1, ConservationTypes DEF Conservation
    <2> HIDE DEF a, b, c, d, e
    <2>2. Len(a) <= Len(e) /\ (Len(a) = Len(e) => a = e)
      BY <2>1, FirstOfFour
    <2> QED
      BY <2>2 DEF a, e
  <1>3. \A q \in QIds : /\ Sizes(sent)[q] <= Sizes(offered)[q]
                        /\ Sizes(sent)[q] = Sizes(offered)[q]
                             => sent[q] = offered[q]
    BY <1>2 DEF Sizes
  <1>4. /\ Sizes(sent) \in [QIds -> Nat] /\ Sizes(offered) \in [QIds -> Nat]
        /\ SumFunction(Sizes(sent)) = SumFunctionOnSet(Sizes(sent), QIds)
        /\ SumFunction(Sizes(offered)) = SumFunctionOnSet(Sizes(offered), QIds)
    BY <1>1, SizesAreNat
  <1>5. \A q \in QIds : /\ Sizes(sent)[q] \in Int /\ Sizes(offered)[q] \in Int
                        /\ Sizes(sent)[q] <= Sizes(offered)[q]
    BY <1>3, <1>4
  <1>6. \A T \in SUBSET QIds : SumFunctionOnSet(Sizes(sent), T)
                                 <= SumFunctionOnSet(Sizes(offered), T)
    BY <1>5, QIdsFinite, SumMonotone
  <1>7. SumFunctionOnSet(Sizes(sent), QIds)
          <= SumFunctionOnSet(Sizes(offered), QIds)
    BY <1>6
  <1> QED
    BY <1>3, <1>4, <1>7

(***************************************************************************)
(* What a push task has moved.                                             *)
(***************************************************************************)
LEMMA MovedInit == Init => Moved
  <1> SUFFICES ASSUME Init, NEW q \in QIds
               PROVE  /\ enqTotal[q] + Len(pBuffers[q]) = Len(offered[q])
                      /\ enqPc[q] = "off" => enqTotal[q] = 0
    BY DEF Moved
  <1>1. enqTotal[q] = 0 /\ pBuffers[q] = << >> /\ offered[q] = << >>
    BY DEF Init, EnqInit, AdaptorInit
  <1> QED
    BY <1>1, EmptySeq

LEMMA MovedUnchanged ==
  ASSUME Moved, UNCHANGED << enqTotal, pBuffers, offered >>,
         \A q \in QIds : enqPc'[q] = "off" => enqPc[q] = "off"
  PROVE  Moved'
  BY DEF Moved

LEMMA MovedStep == Types /\ Phases /\ Moved /\ [Next]_vars => Moved'
  <1> SUFFICES ASSUME Types, Phases, Moved, [Next]_vars PROVE Moved'
    OBVIOUS
  <1>1. /\ enqPc \in [QIds -> EnqPcs \cup NotifyPcs \cup {"end"}]
        /\ enqTotal \in [QIds -> Nat]
        /\ pBuffers \in [QIds -> Seq(Packets)]
        /\ offered \in [QIds -> Seq(Packets)]
    BY ConservationTypes DEF Types, EnqTypeOK
  <1>2. ASSUME NEW q \in QIds, NEW p \in Packets, PutPacket(q, p)
        PROVE  Moved'
    <2>1. /\ pBuffers' = [pBuffers EXCEPT ![q] = Append(pBuffers[q], p)]
          /\ offered' = [offered EXCEPT ![q] = Append(offered[q], p)]
          /\ UNCHANGED << enqPc, enqTotal >>
      BY <1>2 DEF PutPacket
    <2>2. /\ Len(Append(pBuffers[q], p)) = Len(pBuffers[q]) + 1
          /\ Len(Append(offered[q], p)) = Len(offered[q]) + 1
          /\ Len(pBuffers[q]) \in Nat /\ Len(offered[q]) \in Nat
      BY <1>1, AppendProperties, LenProperties
    <2>3. /\ Len(pBuffers'[q]) = Len(pBuffers[q]) + 1
          /\ Len(offered'[q]) = Len(offered[q]) + 1
      BY <1>1, <2>1, <2>2
    <2>4. enqTotal[q] \in Nat /\ enqTotal[q] + Len(pBuffers[q]) = Len(offered[q])
      BY <1>1 DEF Moved
    <2>5. enqTotal'[q] + Len(pBuffers'[q]) = Len(offered'[q])
      BY <2>1, <2>2, <2>3, <2>4
    <2>6. \A r \in QIds : r # q => /\ pBuffers'[r] = pBuffers[r]
                                   /\ offered'[r] = offered[r]
      BY <1>1, <2>1
    <2> QED
      BY <2>1, <2>5, <2>6 DEF Moved
  <1>3. ASSUME NEW q \in QIds, EnqPush(q), UNCHANGED offered
        PROVE  Moved'
    <2>1. /\ pBuffers[q] # << >> /\ enqPc[q] = "burst"
          /\ pBuffers' = [pBuffers EXCEPT ![q] = Tail(pBuffers[q])]
          /\ enqTotal' = [enqTotal EXCEPT ![q] = enqTotal[q] + 1]
          /\ UNCHANGED << enqPc, offered >>
      BY <1>3 DEF EnqPush
    <2>2. /\ Len(Tail(pBuffers[q])) = Len(pBuffers[q]) - 1
          /\ Len(pBuffers[q]) \in Nat /\ Len(offered[q]) \in Nat
      BY <1>1, <2>1, HeadTailProperties, LenProperties
    <2>3. /\ Len(pBuffers'[q]) = Len(pBuffers[q]) - 1
          /\ enqTotal'[q] = enqTotal[q] + 1
      BY <1>1, <2>1, <2>2
    <2>4. enqTotal[q] \in Nat /\ enqTotal[q] + Len(pBuffers[q]) = Len(offered[q])
      BY <1>1 DEF Moved
    <2>5. enqTotal'[q] + Len(pBuffers'[q]) = Len(offered'[q])
      BY <2>1, <2>2, <2>3, <2>4
    <2>6. \A r \in QIds : r # q => /\ pBuffers'[r] = pBuffers[r]
                                   /\ enqTotal'[r] = enqTotal[r]
      BY <1>1, <2>1
    <2> QED
      BY <2>1, <2>5, <2>6 DEF Moved
  <1>4. ASSUME NEW q \in QIds, PushTask(q), ~ EnqPush(q)
        PROVE  Moved'
    <2>1. /\ UNCHANGED << enqTotal, pBuffers, offered >>
          /\ \A r \in QIds : r # q => enqPc'[r] = enqPc[r]
          /\ enqPc'[q] # "off"
      BY <1>1, <1>4
      DEF PushTask, EnqStep, EnqPlan, EnqBegin, EnqEndBurst, NotifyStep,
          NLoad, NStore, BLoad, BStore, NTest, EnqGoto
    <2> QED
      BY <2>1, MovedUnchanged
  <1>5. CASE StartEnq
    <2>1. /\ UNCHANGED << enqTotal, pBuffers, offered >>
          /\ enqPc' = [enqPc EXCEPT ![adI] = EnqEntry] /\ EnqEntry # "off"
      BY <1>5 DEF StartEnq, EnqGoto, EnqEntry
    <2>2. \A r \in QIds : enqPc'[r] = "off" => enqPc[r] = "off"
      BY <1>1, <2>1
    <2> QED
      BY <2>1, <2>2, MovedUnchanged
  <1>6. CASE \/ Start \/ StartDeq \/ SeeComplete \/ ReadTotal \/ TestEqual
             \/ TestUnequal \/ OutNotify \/ Terminate \/ Kill \/ PopTask
             \/ UNCHANGED vars
    <2>1. UNCHANGED << enqPc, enqTotal, pBuffers, offered >>
      BY <1>6
      DEF Start, StartDeq, SeeComplete, ReadTotal, TestEqual,
          TestUnequal, OutNotify, Terminate, Kill, PopTask, vars, enqVars
    <2> QED
      BY <2>1, MovedUnchanged
  <1>7. ASSUME NEW q \in QIds, PushTask(q) PROVE UNCHANGED offered
    BY <1>7 DEF PushTask, NotifyStep, NLoad, NStore, BLoad, BStore, NTest
  <1> QED
    BY <1>2, <1>3, <1>4, <1>5, <1>6, <1>7 DEF Next, AdaptorStep

(***************************************************************************)
(* What the pop task has counted.                                          *)
(***************************************************************************)
LEMMA SentInit == Init => Sent
  BY DEF Init, DeqInit, Sent

LEMMA SentUnchanged ==
  ASSUME Sent, UNCHANGED << sent, deqTotal >>,
         \/ deqPc' = deqPc
         \/ deqPc = "off" /\ deqPc' = "run"
         \/ {deqPc, deqPc'} \cap {"off", "run", "count"} = {}
  PROVE  Sent'
  <1>1. Sizes(sent)' = Sizes(sent)
    BY DEF Sizes
  <1> QED
    BY <1>1 DEF Sent

LEMMA TransferAddsOne ==
  ASSUME Types, Phases, DeqTransfer
  PROVE  /\ SumFunction(Sizes(sent))' = SumFunction(Sizes(sent)) + 1
         /\ SumFunction(Sizes(sent)) \in Nat
  <1>1. /\ sent \in [QIds -> Seq(Packets)] /\ deqQ \in QIds
    BY ConservationTypes
  <1>2. PICK p \in Packets : hand = << p >>
    BY DEF DeqTransfer, Phases
  <1>3. sent' = [sent EXCEPT ![deqQ] = sent[deqQ] \o << p >>]
    BY <1>2 DEF DeqTransfer
  <1>4. sent[deqQ] \o << p >> = Append(sent[deqQ], p)
    BY <1>1, AppendIsConcat
  <1>5. Len(Append(sent[deqQ], p)) = Len(sent[deqQ]) + 1
        /\ Len(sent[deqQ]) \in Nat
    BY <1>1, AppendProperties, LenProperties
  <1> DEFINE g == Sizes(sent)
             n == g[deqQ] + 1
             h == [g EXCEPT ![deqQ] = n]
  <1>6. g \in [QIds -> Nat] /\ SumFunction(g) \in Nat
    BY <1>1, SizesAreNat
  <1>7. g[deqQ] = Len(sent[deqQ])
    BY <1>1 DEF Sizes
  <1>8. Sizes(sent)' = h
    <2>1. \A q \in QIds : Len(sent'[q]) = IF q = deqQ THEN Len(sent[q]) + 1
                                                      ELSE Len(sent[q])
      BY <1>1, <1>3, <1>4, <1>5
    <2>2. \A q \in QIds : Len(sent'[q]) = h[q]
      BY <1>1, <2>1 DEF Sizes
    <2>3. h = [q \in QIds |-> Len(sent'[q])]
      BY <2>2 DEF Sizes
    <2> QED
      BY <2>3 DEF Sizes
  <1> HIDE DEF g
  <1>9. g \in [QIds -> Int] /\ n \in Int /\ g[deqQ] \in Int
    BY <1>1, <1>6
  <1> HIDE DEF n
  <1>10. SumFunction(h) = SumFunction(g) + n - g[deqQ]
    BY <1>1, <1>9, QIdsFinite, SumUpdate
  <1> HIDE DEF h
  <1>11. SumFunction(h) = SumFunction(g) + 1
    BY <1>6, <1>9, <1>10 DEF n
  <1>12. SumFunction(Sizes(sent))' = SumFunction(h)
    BY <1>8, Zenon
  <1> QED
    BY <1>6, <1>11, <1>12 DEF g

LEMMA SentStep == Types /\ Phases /\ Sent /\ [Next]_vars => Sent'
  <1> SUFFICES ASSUME Types, Phases, Sent, [Next]_vars PROVE Sent'
    OBVIOUS
  <1>1. CASE DeqRun
    <2>1. /\ deqPc = "run" /\ deqPc' = "loop" /\ deqTotal' = 0
          /\ sent' = sent
      BY <1>1 DEF DeqRun
    <2>2. \A q \in QIds : Sizes(sent)[q] = 0
      BY <2>1, EmptySeq DEF Sent, Sizes
    <2>3. sent \in [QIds -> Seq(Packets)]
      BY ConservationTypes
    <2>4. SumFunction(Sizes(sent)) = SumFunctionOnSet(Sizes(sent), QIds)
      BY <2>3, SizesAreNat
    <2>5. SumFunctionOnSet(Sizes(sent), QIds) = 0
      BY <2>2, QIdsFinite, SumZero
    <2>6. Sizes(sent)' = Sizes(sent)
      BY <2>1 DEF Sizes
    <2> QED
      BY <2>1, <2>4, <2>5, <2>6 DEF Sent
  <1>2. CASE DeqTransfer
    <2>1. /\ deqPc = "transfer" /\ deqPc' = "count" /\ deqTotal' = deqTotal
      BY <1>2 DEF DeqTransfer
    <2>2. SumFunction(Sizes(sent)) = deqTotal
      BY <2>1 DEF Sent
    <2>3. SumFunction(Sizes(sent))' = deqTotal' + 1
      BY <1>2, <2>1, <2>2, TransferAddsOne
    <2> QED
      BY <2>1, <2>3 DEF Sent
  <1>3. CASE DeqCount
    <2>1. /\ deqPc = "count" /\ deqPc' = "burst" /\ deqTotal' = deqTotal + 1
          /\ sent' = sent
      BY <1>3 DEF DeqCount
    <2>2. Sizes(sent)' = Sizes(sent)
      BY <2>1 DEF Sizes
    <2> QED
      BY <2>1, <2>2 DEF Sent
  <1>4. CASE DeqExit \/ DeqNextQueue \/ DeqSkip \/ DeqVisit \/ DeqPop
             \/ DeqEndBurst \/ DeqService
    <2>1. /\ UNCHANGED << sent, deqTotal >>
          /\ {deqPc, deqPc'} \cap {"off", "run", "count"} = {}
      BY <1>4 DEF DeqExit, DeqNextQueue, DeqSkip, DeqVisit, DeqPop,
                  DeqEndBurst, DeqService
    <2> QED
      BY <2>1, SentUnchanged
  <1>5. ASSUME NEW q \in QIds, PushTask(q) PROVE Sent'
    <2>1. UNCHANGED << sent, deqTotal, deqPc >>
      BY <1>5 DEF PushTask, NotifyStep, NLoad, NStore, BLoad, BStore, NTest,
                  deqVars
    <2> QED
      BY <2>1, SentUnchanged
  <1>6. CASE \/ \E q \in QIds, p \in Packets : PutPacket(q, p)
             \/ Start \/ AdaptorStep \/ Terminate \/ Kill \/ UNCHANGED vars
    <2>1. /\ UNCHANGED << sent, deqTotal >>
          /\ deqPc' = deqPc \/ (deqPc = "off" /\ deqPc' = "run")
      <3>1. CASE StartDeq
        BY <3>1 DEF StartDeq, Phases
      <3>2. CASE ~ StartDeq
        BY <1>6, <3>2
        DEF PutPacket, Start, AdaptorStep, StartEnq, SeeComplete, ReadTotal,
            TestEqual, TestUnequal, OutNotify, Terminate, Kill, vars, deqVars
      <3> QED
        BY <3>1, <3>2
    <2> QED
      BY <2>1, SentUnchanged
  <1> QED
    BY <1>1, <1>2, <1>3, <1>4, <1>5, <1>6 DEF Next, PopTask, DeqStep

(***************************************************************************)
(* The adaptor's own thread.                                               *)
(***************************************************************************)
LEMMA StartedInit == Init => Started
  BY DEF Init, AdaptorInit, Started

LEMMA StartedUnchanged ==
  ASSUME Started, UNCHANGED << adPc, adI, pPerQueue, offered >>,
         bPacketsComplete => bPacketsComplete', deqPc # "off" => deqPc' # "off"
  PROVE  Started'
  BY DEF Started

LEMMA StartedStep ==
  Types /\ FlagsTypeOK /\ Phases /\ Moved /\ Started /\ [Next]_vars
    => Started'
  <1> SUFFICES ASSUME Types, FlagsTypeOK, Phases, Moved, Started, [Next]_vars
               PROVE  Started'
    OBVIOUS
  <1>1. CASE (\E q \in QIds, p \in Packets : PutPacket(q, p)) \/ Start
    <2>1. /\ adPc = "idle" /\ adI' = adI /\ adPc' \in {"idle", "startEnq"}
          /\ adI = 0
      BY <1>1 DEF PutPacket, Start, adVars, Started
    <2>2. \A q \in QIds : ~ (q < 0)
      BY VisitedQueues
    <2> QED
      BY <2>1, <2>2 DEF Started
  <1>2. CASE StartEnq
    <2>1. /\ adPc = "startEnq" /\ adI' = adI + 1
          /\ adPc' = IF adI + 1 = NumQueues THEN "startDeq" ELSE "startEnq"
          /\ pPerQueue' = [pPerQueue EXCEPT ![adI] = Len(pBuffers[adI])]
          /\ offered' = offered
      BY <1>2 DEF StartEnq
    <2>2. adI \in QIds /\ adI \in Nat /\ pPerQueue \in [QIds -> Nat]
      BY <2>1, VisitedQueues DEF Types, StartingInBounds, AdaptorTypeOK
    <2>3. enqPc[adI] = "off"
      BY <2>1, <2>2 DEF Phases
    <2>4. Len(pBuffers[adI]) = Len(offered[adI])
      <3>1. /\ enqTotal[adI] + Len(pBuffers[adI]) = Len(offered[adI])
            /\ enqTotal[adI] = 0
        BY <2>2, <2>3 DEF Moved
      <3>2. Len(pBuffers[adI]) \in Nat
        BY <2>2, ConservationTypes, LenProperties
      <3> QED
        BY <3>1, <3>2
    <2>5. \A q \in QIds : q < adI + 1 => pPerQueue'[q] = Len(offered'[q])
      <3>1. \A q \in QIds : q < adI + 1 => q < adI \/ q = adI
        BY <2>2, VisitedQueues
      <3> QED
        BY <2>1, <2>2, <2>4, <3>1 DEF Started
    <2>6. adI + 1 = NumQueues => \A q \in QIds : q < adI + 1
      BY NumQueuesAssumption DEF QIds
    <2> QED
      BY <2>1, <2>5, <2>6 DEF Started
  <1>3. CASE StartDeq
    BY <1>3 DEF StartDeq, Started
  <1>4. CASE SeeComplete \/ ReadTotal \/ TestEqual \/ TestUnequal \/ OutNotify
    BY <1>4 DEF SeeComplete, ReadTotal, TestEqual, TestUnequal, OutNotify,
                Started, deqVars
  <1>5. CASE Kill
    <2>1. /\ adPc' \in {adPc, "killed"}
          /\ UNCHANGED << adI, pPerQueue, offered, bPacketsComplete, deqPc >>
      BY <1>5 DEF Kill, deqVars
    <2> QED
      BY <2>1 DEF Started
  <1>6. CASE Terminate \/ PopTask \/ UNCHANGED vars
    <2>1. /\ UNCHANGED << adPc, adI, pPerQueue, offered, bPacketsComplete >>
          /\ deqPc # "off" => deqPc' # "off"
      BY <1>6
      DEF Terminate, PopTask, DeqStep, DeqRun, DeqExit, DeqNextQueue, DeqSkip,
          DeqVisit, DeqPop, DeqTransfer, DeqCount, DeqEndBurst, DeqService,
          adVars, vars, deqVars
    <2> QED
      BY <2>1, StartedUnchanged
  <1>7. ASSUME NEW q \in QIds, PushTask(q) PROVE Started'
    <2>1. /\ UNCHANGED << adPc, adI, pPerQueue, offered, deqPc >>
          /\ bPacketsComplete => bPacketsComplete'
      <3>1. CASE NTest(q)
        BY <3>1 DEF NTest, deqVars, FlagsTypeOK
      <3>2. CASE ~ NTest(q)
        BY <1>7, <3>2 DEF PushTask, NotifyStep, NLoad, NStore, BLoad, BStore,
                          adVars, deqVars
      <3> QED
        BY <3>1, <3>2
    <2> QED
      BY <2>1, StartedUnchanged
  <1> QED
    BY <1>1, <1>2, <1>3, <1>4, <1>5, <1>6, <1>7 DEF Next, AdaptorStep

(***************************************************************************)
(* With every task back from notify, exactly the offered packets have been *)
(* reported.                                                               *)
(***************************************************************************)
LEMMA AllReported ==
  ASSUME Types, Phases, Moved, OneAtATime, bPacketsComplete, ~ raced
  PROVE  bprocessedPackets = SumFunction(Sizes(offered))
  <1>1. \A q \in QIds : enqPc[q] = "end"
    BY DEF OneAtATime
  <1>2. Stored = QIds
    BY <1>1 DEF Stored
  <1>3. bprocessedPackets = SumFunctionOnSet(enqTotal, QIds)
    BY <1>2 DEF OneAtATime
  <1>4. \A q \in QIds : enqTotal[q] \in Int /\ enqTotal[q] = Sizes(offered)[q]
    <2> TAKE q \in QIds
    <2>1. pBuffers[q] = << >> /\ enqTotal[q] \in Nat
      BY <1>1 DEF Phases, Types, EnqTypeOK
    <2>2. enqTotal[q] + Len(pBuffers[q]) = Len(offered[q])
      BY DEF Moved
    <2>3. enqTotal[q] = Len(offered[q])
      BY <2>1, <2>2, EmptySeq
    <2> QED
      BY <2>1, <2>3 DEF Sizes
  <1>5. SumFunctionOnSet(enqTotal, QIds) = SumFunctionOnSet(Sizes(offered), QIds)
    BY <1>4, QIdsFinite, SumSame
  <1>6. SumFunction(Sizes(offered)) = SumFunctionOnSet(Sizes(offered), QIds)
    BY ConservationTypes, SizesAreNat
  <1> QED
    BY <1>3, <1>5, <1>6

LEMMA FinishedInit == Init => Finished
  BY DEF Init, AdaptorInit, Finished

LEMMA FinishedStep ==
  ASSUME Types, FlagsTypeOK, Phases, Conservation, Moved, Sent, OneAtATime,
         Started, Finished, [Next]_vars
  PROVE  Finished'
  <1>1. SUFFICES ASSUME adPc' \in {"notify", "done"}, ~ raced'
                 PROVE  /\ deqPc' \notin {"off", "run"}
                        /\ deqTotal' = SumFunction(Sizes(offered))'
    BY DEF Finished
  <1>2. ~ raced
    BY <1>1, RacedStays
  <1>3. CASE TestEqual
    <2>1. /\ adPc = "test" /\ deqTotal = bprocessedPackets
          /\ raced' = (raced \/ deqPc = "run")
          /\ UNCHANGED << deqPc, deqTotal, offered >>
      BY <1>3 DEF TestEqual
    <2>2. deqPc \notin {"off", "run"} /\ bPacketsComplete
      BY <1>1, <2>1 DEF Started
    <2>3. deqTotal = SumFunction(Sizes(offered))
      BY <1>2, <2>1, <2>2, AllReported
    <2>4. Sizes(offered)' = Sizes(offered)
      BY <2>1 DEF Sizes
    <2> QED
      BY <2>1, <2>2, <2>3, <2>4
  <1>4. ASSUME UNCHANGED << deqPc, deqTotal, offered >>,
               adPc \in {"notify", "done"}
        PROVE  /\ deqPc' \notin {"off", "run"}
               /\ deqTotal' = SumFunction(Sizes(offered))'
    <2>1. deqPc \notin {"off", "run"} /\ deqTotal = SumFunction(Sizes(offered))
      BY <1>2, <1>4 DEF Finished
    <2>2. Sizes(offered)' = Sizes(offered)
      BY <1>4 DEF Sizes
    <2> QED
      BY <1>4, <2>1, <2>2
  <1>5. CASE PopTask
    <2>1. adPc' = adPc /\ offered' = offered
      BY <1>5 DEF PopTask, adVars
    <2>2. deqPc \notin {"off", "run"} /\ deqTotal = SumFunction(Sizes(offered))
      BY <1>1, <1>2, <2>1 DEF Finished
    <2>3. deqPc # "count"
      <3>1. SUFFICES ASSUME deqPc = "count" PROVE FALSE
        OBVIOUS
      <3>2. SumFunction(Sizes(sent)) = deqTotal + 1
        BY <3>1 DEF Sent
      <3>3. SumFunction(Sizes(sent)) <= SumFunction(Sizes(offered))
        BY SentAtMostOffered
      <3>4. deqTotal \in Int
        BY DEF Types, DeqTypeOK
      <3> QED
        BY <2>2, <3>2, <3>3, <3>4
    <2>4. deqPc' \notin {"off", "run"} /\ deqTotal' = deqTotal
      BY <1>5, <2>2, <2>3
      DEF PopTask, DeqStep, DeqRun, DeqExit, DeqNextQueue, DeqSkip, DeqVisit,
          DeqPop, DeqTransfer, DeqCount, DeqEndBurst, DeqService
    <2>5. Sizes(offered)' = Sizes(offered)
      BY <2>1 DEF Sizes
    <2> QED
      BY <2>2, <2>4, <2>5
  <1>6. ASSUME NEW q \in QIds, PushTask(q)
        PROVE  UNCHANGED << deqPc, deqTotal, offered >> /\ adPc' = adPc
    BY <1>6 DEF PushTask, NotifyStep, NLoad, NStore, BLoad, BStore, NTest,
                deqVars, adVars
  <1>7. CASE \/ \E q \in QIds, p \in Packets : PutPacket(q, p)
             \/ Start \/ StartEnq \/ StartDeq \/ SeeComplete \/ ReadTotal
             \/ TestUnequal
    BY <1>1, <1>7
    DEF PutPacket, Start, StartEnq, StartDeq, SeeComplete, ReadTotal,
        TestUnequal, adVars
  <1>8. CASE OutNotify \/ Terminate \/ Kill \/ UNCHANGED vars
    <2>1. UNCHANGED << deqPc, deqTotal, offered >>
          /\ adPc \in {"notify", "done"}
      BY <1>1, <1>8 DEF OutNotify, Terminate, Kill, vars, adVars, deqVars
    <2> QED
      BY <2>1, <1>4
  <1> QED
    BY <1>1, <1>3, <1>4, <1>5, <1>6, <1>7, <1>8 DEF Next, AdaptorStep

(***************************************************************************)
(* Without a race the adaptor says it has finished only when every packet  *)
(* of every queue is over the link, and the totals it keeps per queue are  *)
(* those of what was sent.                                                 *)
(***************************************************************************)
LEMMA FinishedMeansSent ==
  ASSUME Types, Conservation, Sent, Started, Finished
  PROVE  RaceFreeCompletion
  <1> SUFFICES ASSUME adPc \in {"notify", "done"}, ~ raced, NEW q \in QIds
               PROVE  sent[q] = offered[q] /\ pPerQueue[q] = Len(sent[q])
    BY DEF RaceFreeCompletion
  <1>1. deqPc \notin {"off", "run"} /\ deqTotal = SumFunction(Sizes(offered))
    BY DEF Finished
  <1>2. /\ sent \in [QIds -> Seq(Packets)] /\ offered \in [QIds -> Seq(Packets)]
        /\ deqTotal \in Int
    BY ConservationTypes DEF Types, DeqTypeOK
  <1>3. /\ Sizes(sent) \in [QIds -> Nat] /\ Sizes(offered) \in [QIds -> Nat]
        /\ SumFunction(Sizes(sent)) = SumFunctionOnSet(Sizes(sent), QIds)
        /\ SumFunction(Sizes(offered)) = SumFunctionOnSet(Sizes(offered), QIds)
    BY <1>2, SizesAreNat
  <1>4. SumFunction(Sizes(sent)) >= deqTotal
    BY <1>1, <1>2 DEF Sent
  <1>5. SumFunctionOnSet(Sizes(sent), QIds)
          >= SumFunctionOnSet(Sizes(offered), QIds)
    BY <1>1, <1>3, <1>4
  <1>6. \A r \in QIds : /\ Sizes(sent)[r] \in Int /\ Sizes(offered)[r] \in Int
                        /\ Sizes(sent)[r] <= Sizes(offered)[r]
    BY <1>3, SentAtMostOffered
  <1>7. \A r \in QIds : Sizes(sent)[r] = Sizes(offered)[r]
    BY <1>5, <1>6, QIdsFinite, SumCaughtUp
  <1>8. sent[q] = offered[q]
    BY <1>7, SentAtMostOffered
  <1>9. pPerQueue[q] = Len(offered[q])
    BY DEF Started
  <1> QED
    BY <1>8, <1>9

(***************************************************************************)
(* The adaptor never tells its router it has finished too early, whatever  *)
(* the order of its threads, Stop included, unless two notify calls        *)
(* overlapped or the pop task's counter was read before it was cleared.    *)
(***************************************************************************)
THEOREM NeverDoneTooEarly == Spec => []RaceFreeCompletion
  <1> DEFINE IInv == /\ Types /\ FlagsTypeOK /\ Phases /\ Conservation
                     /\ Counting /\ Moved /\ Sent /\ OneAtATime /\ Started
                     /\ Finished
  <1>1. Init => IInv
    BY TypeInit, FlagsInit, PhasesInit, ConservationInit, CountingInit,
       MovedInit, SentInit, OneAtATimeInit, StartedInit, FinishedInit
  <1>2. IInv /\ [Next]_vars => IInv'
    BY TypeStep, FlagsStep, PhasesStep, ConservationStep, CountingStep,
       MovedStep, SentStep, OneAtATimeStep, StartedStep, FinishedStep
  <1>3. IInv => RaceFreeCompletion
    BY FinishedMeansSent
  <1> QED
    BY <1>1, <1>2, <1>3, PTL DEF Spec

-----------------------------------------------------------------------------
(***************************************************************************)
(* The adaptor implements its summary.  Stop is left out: the summary has  *)
(* no adaptor that is killed.                                              *)
(***************************************************************************)
AllOffered == SumFunction(Sizes(offered))

Tally == IF deqPc \in {"off", "run"} THEN 0 ELSE deqTotal

Role == CASE adPc = "idle"               -> "idle"
          [] adPc \in {"done", "killed"} -> "done"
          [] OTHER                       -> "running"

NotStopped == stopPc = "flag" /\ adPc # "killed"

LEMMA NotStoppedStep ==
  ASSUME ~ AllowStop
  PROVE  NotStopped /\ [Next]_vars => NotStopped'
  BY DEF NotStopped, Next, PutPacket, Start, AdaptorStep, StartEnq, StartDeq,
         SeeComplete, ReadTotal, TestEqual, TestUnequal, OutNotify, Terminate,
         Kill, PopTask, PushTask, NotifyStep, NLoad, NStore, BLoad, BStore,
         NTest, vars, adVars

LEMMA PutAddsOne ==
  ASSUME Types, NEW q \in QIds, NEW p \in Packets, PutPacket(q, p)
  PROVE  AllOffered' = AllOffered + 1
  <1>1. offered \in [QIds -> Seq(Packets)]
    BY ConservationTypes
  <1>2. offered' = [offered EXCEPT ![q] = Append(offered[q], p)]
    BY DEF PutPacket
  <1>3. Len(Append(offered[q], p)) = Len(offered[q]) + 1
        /\ Len(offered[q]) \in Nat
    BY <1>1, AppendProperties, LenProperties
  <1> DEFINE g == Sizes(offered)
             n == g[q] + 1
             h == [g EXCEPT ![q] = n]
  <1>4. g \in [QIds -> Nat] /\ SumFunction(g) \in Nat
    BY <1>1, SizesAreNat
  <1>5. Sizes(offered)' = h
    <2>1. \A r \in QIds : Len(offered'[r]) = IF r = q THEN Len(offered[r]) + 1
                                                      ELSE Len(offered[r])
      BY <1>1, <1>2, <1>3
    <2>2. \A r \in QIds : Len(offered'[r]) = h[r]
      BY <1>1, <2>1 DEF Sizes
    <2>3. h = [r \in QIds |-> Len(offered'[r])]
      BY <2>2 DEF Sizes
    <2> QED
      BY <2>3 DEF Sizes
  <1> HIDE DEF g
  <1>6. g \in [QIds -> Int] /\ n \in Int /\ g[q] \in Int
    BY <1>4
  <1> HIDE DEF n
  <1>7. SumFunction(h) = SumFunction(g) + n - g[q]
    BY <1>6, QIdsFinite, SumUpdate
  <1> HIDE DEF h
  <1>8. SumFunction(h) = SumFunction(g) + 1
    BY <1>4, <1>6, <1>7 DEF n
  <1>9. AllOffered' = SumFunction(h)
    BY <1>5, Zenon DEF AllOffered
  <1> QED
    BY <1>8, <1>9 DEF g, AllOffered

LEMMA SummaryInit == Init => Summary!Init
  <1> SUFFICES ASSUME Init PROVE Summary!Init
    OBVIOUS
  <1>1. /\ adPc = "idle" /\ raced = FALSE /\ processedPackets = 0
        /\ deqPc = "off" /\ offered = [q \in QIds |-> << >>]
    BY DEF Init, DeqInit, AdaptorInit
  <1> DEFINE g == [q \in QIds |-> Len(offered[q])]
  <1>2. \A q \in QIds : g[q] = 0
    BY <1>1, EmptySeq
  <1>3. SumFunction(g) = SumFunctionOnSet(g, QIds)
    BY DEF SumFunction
  <1> HIDE DEF g
  <1>4. SumFunction(g) = 0
    BY <1>2, <1>3, QIdsFinite, SumZero
  <1> QED
    BY <1>1, <1>4 DEF Summary!Init, g

(***************************************************************************)
(* The summary's steps, in the names of the mapping.                       *)
(***************************************************************************)
LEMMA SummaryMapping ==
  ASSUME \/ /\ Role = "idle" /\ AllOffered' = AllOffered + 1
            /\ UNCHANGED << Tally, processedPackets, Role, raced >>
         \/ /\ Role = "idle" /\ Role' = "running"
            /\ UNCHANGED << AllOffered, Tally, processedPackets, raced >>
         \/ /\ Role # "idle" /\ Tally < AllOffered /\ Tally' = Tally + 1
            /\ UNCHANGED << AllOffered, processedPackets, Role, raced >>
         \/ /\ Role = "running" /\ processedPackets' = Tally
            /\ UNCHANGED << AllOffered, Tally, Role, raced >>
         \/ /\ Role = "running" /\ Tally = AllOffered /\ Role' = "done"
            /\ UNCHANGED << AllOffered, Tally, processedPackets, raced >>
         \/ /\ Role # "idle" /\ raced' /\ processedPackets' \in Int
            /\ Role' \in {Role, "done"}
            /\ UNCHANGED << AllOffered, Tally >>
         \/ UNCHANGED << AllOffered, Tally, processedPackets, Role, raced >>
  PROVE  [Summary!Next]_(Summary!vars)
  BY DEF AllOffered, Sizes, Tally, Role, Summary!Next, Summary!Fill,
         Summary!Begin, Summary!Count, Summary!Copy, Summary!Finish,
         Summary!Race, Summary!vars

LEMMA SummaryPopTask ==
  ASSUME Types, Phases, Conservation, Sent, PopTask
  PROVE  [Summary!Next]_(Summary!vars)
  <1>1. UNCHANGED << adPc, processedPackets, offered, raced >>
    BY DEF PopTask, adVars
  <1>2. UNCHANGED << AllOffered, processedPackets, Role, raced >>
    BY <1>1 DEF AllOffered, Sizes, Role
  <1>3. CASE DeqCount
    <2>1. deqPc = "count" /\ deqPc' = "burst" /\ deqTotal' = deqTotal + 1
      BY <1>3 DEF DeqCount
    <2>2. Role # "idle"
      BY <2>1 DEF Phases, Role
    <2>3. SumFunction(Sizes(sent)) = deqTotal + 1 /\ deqTotal \in Int
      BY <2>1 DEF Sent, Types, DeqTypeOK
    <2>4. SumFunction(Sizes(sent)) <= AllOffered /\ AllOffered \in Nat
      BY SentAtMostOffered, ConservationTypes, SizesAreNat DEF AllOffered
    <2>5. deqTotal < AllOffered
      BY <2>3, <2>4
    <2>6. Tally = deqTotal /\ Tally' = deqTotal + 1
      BY <2>1 DEF Tally
    <2> QED
      BY <1>2, <2>2, <2>5, <2>6, SummaryMapping
  <1>4. CASE ~ DeqCount
    <2>1. Tally' = Tally
      BY <1>4
      DEF Tally, PopTask, DeqStep, DeqRun, DeqExit, DeqNextQueue, DeqSkip,
          DeqVisit, DeqPop, DeqTransfer, DeqEndBurst, DeqService
    <2> QED
      BY <1>2, <2>1, SummaryMapping
  <1> QED
    BY <1>3, <1>4

LEMMA SummaryPushTask ==
  ASSUME Types, FlagsTypeOK, Phases, NEW q \in QIds, PushTask(q)
  PROVE  [Summary!Next]_(Summary!vars)
  <1>1. UNCHANGED << adPc, processedPackets, offered, deqPc, deqTotal >>
    BY DEF PushTask, NotifyStep, NLoad, NStore, BLoad, BStore, NTest, deqVars,
           adVars
  <1>2. UNCHANGED << AllOffered, Tally, processedPackets, Role >>
    BY <1>1 DEF AllOffered, Sizes, Tally, Role
  <1>3. CASE NLoad(q)
    <2>1. enqPc[q] = "loop" /\ raced' \in BOOLEAN /\ (raced => raced')
      BY <1>3 DEF NLoad, EnqDrained, FlagsTypeOK
    <2>2. Role # "idle"
      BY <2>1 DEF Phases, Role
    <2>3. processedPackets' \in Int
      BY <1>1 DEF Types, AdaptorTypeOK
    <2>4. raced' \/ raced' = raced
      BY <2>1 DEF FlagsTypeOK
    <2> QED
      BY <1>2, <2>2, <2>3, <2>4, SummaryMapping
  <1>4. CASE ~ NLoad(q)
    <2>1. raced' = raced
      BY <1>4 DEF PushTask, NotifyStep, NStore, BLoad, BStore, NTest
    <2> QED
      BY <1>2, <2>1, SummaryMapping
  <1> QED
    BY <1>3, <1>4

LEMMA SummaryAdaptor ==
  ASSUME Types, FlagsTypeOK, Phases, Started, Finished, NotStopped,
         \/ \E q \in QIds, p \in Packets : PutPacket(q, p)
         \/ Start \/ AdaptorStep \/ Terminate \/ Kill
  PROVE  [Summary!Next]_(Summary!vars)
  <1>1. /\ processedPackets \in Int /\ deqTotal \in Int
        /\ raced \in BOOLEAN
    BY DEF Types, AdaptorTypeOK, DeqTypeOK, FlagsTypeOK
  <1>2. ASSUME NEW q \in QIds, NEW p \in Packets, PutPacket(q, p)
        PROVE  [Summary!Next]_(Summary!vars)
    <2>1. AllOffered' = AllOffered + 1
      BY <1>2, PutAddsOne
    <2>2. /\ Role = "idle"
          /\ UNCHANGED << Tally, processedPackets, Role, raced >>
      BY <1>2 DEF PutPacket, adVars, deqVars, Role, Tally
    <2> QED
      BY <2>1, <2>2, SummaryMapping
  <1>3. CASE Start
    <2>1. /\ Role = "idle" /\ Role' = "running"
          /\ UNCHANGED << AllOffered, Tally, processedPackets, raced >>
      BY <1>3 DEF Start, deqVars, Role, Tally, AllOffered, Sizes
    <2> QED
      BY <2>1, SummaryMapping
  <1>4. CASE StartEnq \/ StartDeq \/ SeeComplete \/ Terminate
    <2>1. Role' = Role
      BY <1>4 DEF StartEnq, StartDeq, SeeComplete, Terminate, Role
    <2>2. Tally' = Tally
      BY <1>4 DEF StartEnq, StartDeq, SeeComplete, Terminate, Tally, deqVars,
                  Phases
    <2>3. UNCHANGED << AllOffered, processedPackets, raced >>
      BY <1>4 DEF StartEnq, StartDeq, SeeComplete, Terminate, AllOffered, Sizes
    <2> QED
      BY <2>1, <2>2, <2>3, SummaryMapping
  <1>5. CASE ReadTotal
    <2>1. /\ adPc = "read" /\ adPc' = "test" /\ processedPackets' = deqTotal
          /\ raced' = (raced \/ deqPc = "run")
          /\ UNCHANGED << deqPc, deqTotal, offered >>
      BY <1>5 DEF ReadTotal, deqVars
    <2>2. /\ Role = "running" /\ Role' = Role
          /\ UNCHANGED << AllOffered, Tally >>
      BY <2>1 DEF Role, AllOffered, Sizes, Tally
    <2>3. CASE deqPc = "run"
      BY <1>1, <2>1, <2>2, <2>3, SummaryMapping
    <2>4. CASE deqPc # "run"
      <3>1. Tally = deqTotal /\ raced' = raced
        BY <1>1, <2>1, <2>4 DEF Tally, Started
      <3> QED
        BY <2>1, <2>2, <3>1, SummaryMapping
    <2> QED
      BY <2>3, <2>4
  <1>6. CASE TestEqual \/ TestUnequal
    <2>1. /\ adPc = "test" /\ adPc' \in {"notify", "read"}
          /\ raced' = (raced \/ deqPc = "run")
          /\ UNCHANGED << deqPc, deqTotal, offered, processedPackets >>
      BY <1>6 DEF TestEqual, TestUnequal, deqVars
    <2>2. /\ Role = "running" /\ Role' = Role
          /\ UNCHANGED << AllOffered, Tally, processedPackets >>
      BY <2>1 DEF Role, AllOffered, Sizes, Tally
    <2>3. raced' \/ raced' = raced
      BY <1>1, <2>1
    <2> QED
      BY <1>1, <2>2, <2>3, SummaryMapping
  <1>7. CASE OutNotify
    <2>1. /\ adPc = "notify" /\ adPc' = "done"
          /\ UNCHANGED << deqPc, deqTotal, offered, processedPackets, raced >>
      BY <1>7 DEF OutNotify, deqVars
    <2>2. /\ Role = "running" /\ Role' = "done"
          /\ UNCHANGED << AllOffered, Tally, processedPackets, raced >>
      BY <2>1 DEF Role, AllOffered, Sizes, Tally
    <2>3. ~ raced => Tally = AllOffered
      BY <2>1 DEF Finished, Tally, AllOffered
    <2> QED
      BY <1>1, <2>1, <2>2, <2>3, SummaryMapping
  <1>8. ~ Kill
    BY DEF Kill, NotStopped
  <1> QED
    BY <1>2, <1>3, <1>4, <1>5, <1>6, <1>7, <1>8 DEF AdaptorStep

(***************************************************************************)
(* Without Stop the adaptor is, to its router, what AdaptorSummary says of *)
(* it: the packets it counts were put there, the total it copies is one the*)
(* pop task had counted, and it is done only with all of them sent, or else*)
(* after a race.  The router is verified against that summary.             *)
(***************************************************************************)
THEOREM ImplementsSummary ==
  ASSUME ~ AllowStop
  PROVE  Spec => SummarySpec
  <1> DEFINE IInv == /\ Types /\ FlagsTypeOK /\ Phases /\ Conservation
                     /\ Counting /\ Moved /\ Sent /\ OneAtATime /\ Started
                     /\ Finished /\ NotStopped
  <1>1. Init => IInv
    <2>1. Init => NotStopped
      BY DEF Init, AdaptorInit, NotStopped
    <2> QED
      BY <2>1, TypeInit, FlagsInit, PhasesInit, ConservationInit, CountingInit,
         MovedInit, SentInit, OneAtATimeInit, StartedInit, FinishedInit
  <1>2. IInv /\ [Next]_vars => IInv'
    BY TypeStep, FlagsStep, PhasesStep, ConservationStep, CountingStep,
       MovedStep, SentStep, OneAtATimeStep, StartedStep, FinishedStep,
       NotStoppedStep
  <1>3. IInv /\ [Next]_vars => [Summary!Next]_(Summary!vars)
    <2> SUFFICES ASSUME IInv, [Next]_vars
                 PROVE  [Summary!Next]_(Summary!vars)
      OBVIOUS
    <2>1. CASE UNCHANGED vars
      <3>1. UNCHANGED << AllOffered, Tally, processedPackets, Role, raced >>
        BY <2>1 DEF vars, deqVars, adVars, AllOffered, Sizes, Tally, Role
      <3> QED
        BY <3>1, SummaryMapping
    <2> QED
      BY <2>1, SummaryPopTask, SummaryPushTask, SummaryAdaptor DEF Next
  <1> QED
    BY <1>1, <1>2, <1>3, SummaryInit, PTL DEF Spec, SummarySpec, Summary!Spec
=============================================================================
