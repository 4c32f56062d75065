------------------------ MODULE BorderOutputAdaptor ------------------------
(***************************************************************************)
(* An output adaptor of the border router (outputadaptor.cpp, borderRun)   *)
(* with the threads it starts: a push task per queue (EnQueueProcessor)    *)
(* and one pop task (DeQueueProcessor).                                    *)
(*                                                                         *)
(* Before it runs, the input adaptors fill its buffers through putPacket.  *)
(* It then starts the tasks, waits until the push tasks have called        *)
(* notify, polls the pop task's counter until it equals the number of      *)
(* packets the push tasks reported, and tells the router it has finished.  *)
(*                                                                         *)
(* notify is called by the push tasks with no lock, so each of its two     *)
(* additions is a load and a store, and its comparison reads either memory *)
(* or the value just stored.                                               *)
(***************************************************************************)
EXTENDS EnQueueProcessor, DeQueueProcessor, FiniteSets, Functions

CONSTANT AllowStop      \* whether the user may press Stop

ASSUME AllowStopAssumption == AllowStop \in BOOLEAN

VARIABLES adPc,              \* where the adaptor's thread is
          adI,               \* the loop variable of the starting loop
          nEnqProcs,         \* push tasks that have notified
          bprocessedPackets, \* the packets they reported
          bPacketsComplete,  \* set when all of them have notified
          nReg, bReg,        \* what each notify call loaded of the two, and
                             \* 0 once it has been used
          processedPackets,  \* the adaptor's total, read by the router
          pPerQueue,         \* the packets of each buffer at the start
          stopPc             \* where the main thread is in terminate()

VARIABLES offered,           \* history: what putPacket accepted per queue
          raced              \* history: two notify calls overlapped, or the
                             \* pop task's counter was read before run()
                             \* cleared it

adVars == << adPc, adI, nEnqProcs, bprocessedPackets, bPacketsComplete,
             nReg, bReg, processedPackets, pPerQueue, stopPc >>

vars == << queues, enqVars, deqVars, adVars, offered, raced >>

AdPcs == {"idle", "startEnq", "startDeq", "await", "read", "test", "notify",
          "done", "killed"}

NotifyPcs == {"nStore", "bLoad", "bStore", "nTest"}

AdaptorInit ==
  /\ adPc = "idle"
  /\ adI = 0
  /\ nEnqProcs = 0
  /\ bprocessedPackets = 0
  /\ bPacketsComplete = FALSE
  /\ nReg = [q \in QIds |-> 0]
  /\ bReg = [q \in QIds |-> 0]
  /\ processedPackets = 0
  /\ pPerQueue = [q \in QIds |-> 0]
  /\ stopPc = "flag"
  /\ offered = [q \in QIds |-> << >>]
  /\ raced = FALSE

Init == QueuesInit /\ EnqInit /\ DeqInit /\ AdaptorInit

(***************************************************************************)
(* putPacket under its mutex, before the adaptor runs.  A packet is read   *)
(* from an input file once.                                                *)
(***************************************************************************)
Unread(p) == \A q \in QIds : \A k \in 1 .. Len(offered[q]) : offered[q][k] # p

\* Mutant of PutPacket: the input side is not waited for.
PutPacketLate(q, p) ==
  /\ Unread(p)
  /\ pBuffers' = [pBuffers EXCEPT ![q] = Append(@, p)]
  /\ offered' = [offered EXCEPT ![q] = Append(@, p)]
  /\ UNCHANGED << queues, enqPc, poissonArrivals, quota, enqTotal, deqVars,
                  adVars, raced >>

PutPacket(q, p) ==
  /\ adPc = "idle"
  /\ Unread(p)
  /\ pBuffers' = [pBuffers EXCEPT ![q] = Append(@, p)]
  /\ offered' = [offered EXCEPT ![q] = Append(@, p)]
  /\ UNCHANGED << queues, enqPc, poissonArrivals, quota, enqTotal, deqVars,
                  adVars, raced >>

(***************************************************************************)
(* borderRun                                                               *)
(***************************************************************************)
Start ==
  /\ adPc = "idle"
  /\ adPc' = "startEnq"
  /\ UNCHANGED << queues, enqVars, deqVars, adI, nEnqProcs, bprocessedPackets,
                  bPacketsComplete, nReg, bReg, processedPackets, pPerQueue,
                  stopPc, offered, raced >>

StartEnq ==
  /\ adPc = "startEnq"
  /\ pPerQueue' = [pPerQueue EXCEPT ![adI] = Len(pBuffers[adI])]
  /\ EnqGoto(adI, EnqEntry)
  /\ adI' = adI + 1
  /\ adPc' = IF adI + 1 = NumQueues THEN "startDeq" ELSE "startEnq"
  /\ UNCHANGED << queues, pBuffers, poissonArrivals, quota, enqTotal, deqVars,
                  nEnqProcs, bprocessedPackets, bPacketsComplete, nReg, bReg,
                  processedPackets, stopPc, offered, raced >>

StartDeq ==
  /\ adPc = "startDeq"
  /\ deqPc' = "run"
  /\ adPc' = "await"
  /\ UNCHANGED << queues, enqVars, deqQ, deqI, hand, deqTotal, deqStop, sent,
                  itemsInQ, residenceTime, adI, nEnqProcs, bprocessedPackets,
                  bPacketsComplete, nReg, bReg, processedPackets, pPerQueue,
                  stopPc, offered, raced >>

\* Mutant of SeeComplete: the adaptor does not wait for the push tasks.
SeeCompleteAtOnce ==
  /\ adPc = "await"
  /\ adPc' = "read"
  /\ UNCHANGED << queues, enqVars, deqVars, adI, nEnqProcs, bprocessedPackets,
                  bPacketsComplete, nReg, bReg, processedPackets, pPerQueue,
                  stopPc, offered, raced >>

SeeComplete ==
  /\ adPc = "await"
  /\ bPacketsComplete
  /\ adPc' = "read"
  /\ UNCHANGED << queues, enqVars, deqVars, adI, nEnqProcs, bprocessedPackets,
                  bPacketsComplete, nReg, bReg, processedPackets, pPerQueue,
                  stopPc, offered, raced >>

(***************************************************************************)
(* The polling loop reads the pop task's counter twice: once for the       *)
(* total the router will use, once to decide whether it has finished.      *)
(***************************************************************************)
ReadTotal ==
  /\ adPc = "read"
  /\ processedPackets' = deqTotal
  /\ raced' = (raced \/ deqPc = "run")
  /\ adPc' = "test"
  /\ UNCHANGED << queues, enqVars, deqVars, adI, nEnqProcs, bprocessedPackets,
                  bPacketsComplete, nReg, bReg, pPerQueue, stopPc, offered >>

TestEqual ==
  /\ adPc = "test"
  /\ deqTotal = bprocessedPackets
  /\ DeqTerminate
  /\ raced' = (raced \/ deqPc = "run")
  /\ adPc' = "notify"
  /\ UNCHANGED << queues, enqVars, deqPc, deqQ, deqI, hand, deqTotal, sent,
                  itemsInQ, residenceTime, adI, nEnqProcs, bprocessedPackets,
                  bPacketsComplete, nReg, bReg, processedPackets, pPerQueue,
                  stopPc, offered >>

TestUnequal ==
  /\ adPc = "test"
  /\ deqTotal # bprocessedPackets
  /\ raced' = (raced \/ deqPc = "run")
  /\ adPc' = "read"
  /\ UNCHANGED << queues, enqVars, deqVars, adI, nEnqProcs, bprocessedPackets,
                  bPacketsComplete, nReg, bReg, processedPackets, pPerQueue,
                  stopPc, offered >>

OutNotify ==
  /\ adPc = "notify"
  /\ adPc' = "done"
  /\ UNCHANGED << queues, enqVars, deqVars, adI, nEnqProcs, bprocessedPackets,
                  bPacketsComplete, nReg, bReg, processedPackets, pPerQueue,
                  stopPc, offered, raced >>

AdaptorStep ==
  \/ StartEnq
  \/ StartDeq
  \/ SeeComplete
  \/ ReadTotal
  \/ TestEqual
  \/ TestUnequal
  \/ OutNotify

(***************************************************************************)
(* terminate(), called by the main thread when the user presses Stop: the  *)
(* pop task is told to end at its next round, and then the adaptor's thread*)
(* is killed wherever it is.  The push tasks are not told.                 *)
(* QThread::terminate does nothing to a thread that is not running.        *)
(***************************************************************************)
Terminate ==
  /\ AllowStop
  /\ stopPc = "flag"
  /\ DeqTerminate
  /\ stopPc' = "kill"
  /\ UNCHANGED << queues, enqVars, deqPc, deqQ, deqI, hand, deqTotal, sent,
                  itemsInQ, residenceTime, adPc, adI, nEnqProcs,
                  bprocessedPackets, bPacketsComplete, nReg, bReg,
                  processedPackets, pPerQueue, offered, raced >>

Kill ==
  /\ stopPc = "kill"
  /\ stopPc' = "stopped"
  /\ adPc' = IF adPc \in {"idle", "done"} THEN adPc ELSE "killed"
  /\ UNCHANGED << queues, enqVars, deqVars, adI, nEnqProcs, bprocessedPackets,
                  bPacketsComplete, nReg, bReg, processedPackets, pPerQueue,
                  offered, raced >>

(***************************************************************************)
(* notify(), on the thread of push task q.                                 *)
(***************************************************************************)
NLoad(q) ==
  /\ EnqDrained(q)
  /\ nReg' = [nReg EXCEPT ![q] = nEnqProcs]
  /\ EnqGoto(q, "nStore")
  /\ raced' = (raced \/ \E r \in QIds : enqPc[r] \in NotifyPcs)
  /\ UNCHANGED << queues, pBuffers, poissonArrivals, quota, enqTotal, deqVars,
                  adPc, adI, nEnqProcs, bprocessedPackets, bPacketsComplete,
                  bReg, processedPackets, pPerQueue, stopPc, offered >>

NStore(q) ==
  /\ enqPc[q] = "nStore"
  /\ nEnqProcs' = nReg[q] + 1
  /\ EnqGoto(q, "bLoad")
  /\ UNCHANGED << queues, pBuffers, poissonArrivals, quota, enqTotal, deqVars,
                  adPc, adI, bprocessedPackets, bPacketsComplete, nReg, bReg,
                  processedPackets, pPerQueue, stopPc, offered, raced >>

BLoad(q) ==
  /\ enqPc[q] = "bLoad"
  /\ bReg' = [bReg EXCEPT ![q] = bprocessedPackets]
  /\ EnqGoto(q, "bStore")
  /\ UNCHANGED << queues, pBuffers, poissonArrivals, quota, enqTotal, deqVars,
                  adPc, adI, nEnqProcs, bprocessedPackets, bPacketsComplete,
                  nReg, processedPackets, pPerQueue, stopPc, offered, raced >>

\* Mutant of BStore: the counter is one for all the push tasks (static).
BStoreShared(q) ==
  /\ enqPc[q] = "bStore"
  /\ bprocessedPackets' = bReg[q] + SumFunction(enqTotal)
  /\ bReg' = [bReg EXCEPT ![q] = 0]
  /\ EnqGoto(q, "nTest")
  /\ UNCHANGED << queues, pBuffers, poissonArrivals, quota, enqTotal, deqVars,
                  adPc, adI, nEnqProcs, bPacketsComplete, nReg,
                  processedPackets, pPerQueue, stopPc, offered, raced >>

BStore(q) ==
  /\ enqPc[q] = "bStore"
  /\ bprocessedPackets' = bReg[q] + enqTotal[q]
  /\ bReg' = [bReg EXCEPT ![q] = 0]
  /\ EnqGoto(q, "nTest")
  /\ UNCHANGED << queues, pBuffers, poissonArrivals, quota, enqTotal, deqVars,
                  adPc, adI, nEnqProcs, bPacketsComplete, nReg,
                  processedPackets, pPerQueue, stopPc, offered, raced >>

\* Mutant of NTest: more than all of the tasks must have notified.
NTestBeyond(q) ==
  /\ enqPc[q] = "nTest"
  /\ \E seen \in {nEnqProcs, nReg[q] + 1} :
       bPacketsComplete' = (bPacketsComplete \/ seen > NumQueues)
  /\ nReg' = [nReg EXCEPT ![q] = 0]
  /\ EnqGoto(q, "end")
  /\ UNCHANGED << queues, pBuffers, poissonArrivals, quota, enqTotal, deqVars,
                  adPc, adI, nEnqProcs, bprocessedPackets, bReg,
                  processedPackets, pPerQueue, stopPc, offered, raced >>

NTest(q) ==
  /\ enqPc[q] = "nTest"
  /\ \E seen \in {nEnqProcs, nReg[q] + 1} :
       bPacketsComplete' = (bPacketsComplete \/ seen = NumQueues)
  /\ nReg' = [nReg EXCEPT ![q] = 0]
  /\ EnqGoto(q, "end")
  /\ UNCHANGED << queues, pBuffers, poissonArrivals, quota, enqTotal, deqVars,
                  adPc, adI, nEnqProcs, bprocessedPackets, bReg,
                  processedPackets, pPerQueue, stopPc, offered, raced >>

NotifyStep(q) == NLoad(q) \/ NStore(q) \/ BLoad(q) \/ BStore(q) \/ NTest(q)

(***************************************************************************)
(* Each thread's step leaves the others' variables alone.                  *)
(***************************************************************************)
PushTask(q) ==
  \/ NotifyStep(q)
  \/ EnqStep(q) /\ UNCHANGED << deqVars, adVars, offered, raced >>

PopTask == DeqStep /\ UNCHANGED << enqVars, adVars, offered, raced >>

Next ==
  \/ \E q \in QIds, p \in Packets : PutPacket(q, p)
  \/ Start
  \/ AdaptorStep
  \/ Terminate
  \/ Kill
  \/ PopTask
  \/ \E q \in QIds : PushTask(q)

(***************************************************************************)
(* Every thread that can take a step eventually takes it: they are         *)
(* operating system threads that only sleep for bounded times.  Nothing    *)
(* obliges the input side to put a packet or the user to press Stop.       *)
(***************************************************************************)
Fairness ==
  /\ WF_vars(AdaptorStep)
  /\ WF_vars(PopTask)
  /\ WF_vars(Kill)
  /\ \A q \in QIds : WF_vars(PushTask(q))

Spec == Init /\ [][Next]_vars /\ Fairness
-----------------------------------------------------------------------------
(***************************************************************************)
(* Type correctness of the adaptor and the tasks it runs.                  *)
(***************************************************************************)
AdaptorTypeOK ==
  /\ adPc \in AdPcs
  /\ adI \in 0 .. NumQueues
  /\ nEnqProcs \in Nat
  /\ bprocessedPackets \in Nat
  /\ nReg \in [QIds -> Nat]
  /\ bReg \in [QIds -> Nat]
  /\ processedPackets \in Int
  /\ pPerQueue \in [QIds -> Nat]
  /\ stopPc \in {"flag", "kill", "stopped"}
  /\ offered \in [QIds -> Seq(Packets)]

FlagsTypeOK == {deqStop, bPacketsComplete, raced} \subseteq BOOLEAN

TypeOK ==
  /\ QueuesTypeOK
  /\ EnqTypeOK
  /\ enqPc \in [QIds -> EnqPcs \cup NotifyPcs \cup {"end"}]
  /\ DeqTypeOK
  /\ AdaptorTypeOK
  /\ FlagsTypeOK

(***************************************************************************)
(* Whatever the threads do, no packet is lost, duplicated, moved to another*)
(* queue or overtaken: what was sent, is in the pop task's hand, queued and*)
(* buffered is, in that order, what the input side put there.              *)
(***************************************************************************)
InHand(q) == IF q = deqQ THEN hand ELSE << >>

Conservation ==
  \A q \in QIds :
    offered[q] = sent[q] \o InHand(q) \o queues[q] \o pBuffers[q]

(***************************************************************************)
(* The completion flag is never early: although notify calls may overlap   *)
(* and lose additions, when bPacketsComplete is set every push task has    *)
(* emptied its buffer.                                                     *)
(***************************************************************************)
CompleteMeansFlushed ==
  bPacketsComplete => \A q \in QIds : /\ enqPc[q] \in NotifyPcs \cup {"end"}
                                      /\ pBuffers[q] = << >>

(***************************************************************************)
(* Unless notify calls overlapped (or the counter was read before the pop  *)
(* task cleared it), the adaptor tells the router it has finished only when*)
(* every packet of every queue is over the link, and the per-queue totals  *)
(* it keeps agree with what was sent.                                      *)
(***************************************************************************)
RaceFreeCompletion ==
  adPc \in {"notify", "done"} /\ ~ raced =>
    \A q \in QIds : sent[q] = offered[q] /\ pPerQueue[q] = Len(sent[q])

(***************************************************************************)
(* The pop task's statistics agree with its traffic: between bursts each   *)
(* queue has one residence sample per packet sent, no more depth samples   *)
(* than packets, and enough of them for bursts of at most its weight.      *)
(***************************************************************************)
SamplesMatchTraffic ==
  deqPc \in {"loop", "visit", "end"} =>
    \A q \in QIds :
      /\ residenceTime[q] = Len(sent[q])
      /\ Len(sent[q]) <= qWeights[q] * itemsInQ[q]
      /\ qWeights[q] > 0 => itemsInQ[q] <= Len(sent[q])

(***************************************************************************)
(* A lost addition can only make bprocessedPackets, the number that the    *)
(* pop task's count is compared with, too small: it never exceeds what the *)
(* push tasks that have stored it moved from their buffers into the queues.*)
(***************************************************************************)
ReportsNeverInvent ==
  bprocessedPackets <=
    SumFunctionOnSet(enqTotal, {q \in QIds : enqPc[q] \in {"nTest", "end"}})

(***************************************************************************)
(* The adaptor implements the FIFO channels of PacketChannel.              *)
(***************************************************************************)
Channel == INSTANCE PacketChannel WITH accepted  <- offered,
                                       delivered <- sent,
                                       closed    <- adPc # "idle"

ChannelSpec == Channel!Spec

(***************************************************************************)
(* The adaptor is, to its router, what AdaptorSummary says of it.  Before  *)
(* the pop task runs its counter stands for 0.                             *)
(***************************************************************************)
Summary == INSTANCE AdaptorSummary WITH
  offered <- SumFunction([q \in QIds |-> Len(offered[q])]),
  counted <- IF deqPc \in {"off", "run"} THEN 0 ELSE deqTotal,
  copied  <- processedPackets,
  phase   <- CASE adPc = "idle" -> "idle"
               [] adPc \in {"done", "killed"} -> "done"
               [] OTHER -> "running",
  raced   <- raced

SummarySpec == Summary!Spec

(***************************************************************************)
(* Once started the adaptor tells its router that it has finished, or is   *)
(* killed by Stop, unless notify calls raced.  One that is started after   *)
(* Stop has been through with it is left out: its pop task ends at once and*)
(* it polls the totals until the program ends.                             *)
(***************************************************************************)
Finishes == (adPc = "startEnq" /\ stopPc # "stopped")
              ~> (adPc \in {"done", "killed"} \/ raced)

(***************************************************************************)
(* No push task is left behind: once one has started, a state is reached in*)
(* which every task that was started has emptied its buffer and returned   *)
(* from notify, even when Stop kills the adaptor in the middle of its      *)
(* starting loop or ends the pop task while packets are still queued.      *)
(***************************************************************************)
PushTasksReturn ==
  (\E q \in QIds : enqPc[q] = EnqEntry)
    ~> (\A q \in QIds : /\ enqPc[q] \in {"off", "end"}
                        /\ enqPc[q] = "end" => pBuffers[q] = << >>)
=============================================================================
