------------------------------- MODULE Network -------------------------------
(***************************************************************************)
(* The whole simulation seen from the main thread (network.cpp): it starts *)
(* the routers, samples every three seconds how many packets have reached  *)
(* their destination, stops the core routers when that number equals what  *)
(* the border router r0 reported, and prints the analysis when as many     *)
(* rfinished signals have come in as there are routers.                    *)
(*                                                                         *)
(* r0's thread emits its signal into the main thread's event queue, while  *)
(* Router::stop, which the main thread runs, emits it as a direct call.    *)
(* Each core router's thread recomputes its number of delivered packets    *)
(* in place (router.cpp, coreRun), so the main thread may read it half     *)
(* done.  Both r0's thread and the main thread append an analysis of r0 to *)
(* the same vectors, queue by queue.  The path of a packet between r0 and  *)
(* its destination is left out: a packet that r0 sent may be delivered by  *)
(* any destination adaptor.                                                *)
(***************************************************************************)
EXTENDS Naturals, Sequences, Functions, FiniteSetsExt

CONSTANTS NumRouters,   \* r0 and the core routers
          NumOutputs,   \* the number of output adaptors of each core router
          NumQueues,    \* the queues of each router
          Total,        \* the packets r0 sends
          Shortfalls,   \* by how many packets r0's total may be short
          MaxStops      \* bound: how often the user may press Stop

ASSUME NumRoutersAssumption == NumRouters \in Nat /\ NumRouters > 1
ASSUME NumQueuesAssumption == NumQueues \in Nat \ {0}
ASSUME TotalAssumption == Total \in Nat
ASSUME ShortfallsAssumption == Shortfalls \subseteq 0 .. Total
ASSUME MaxStopsAssumption == MaxStops \in Nat

Routers == 0 .. (NumRouters - 1)
Core    == Routers \ {0}

ASSUME NumOutputsAssumption == NumOutputs \in [Core -> Nat \ {0}]

Outputs(i) == 0 .. (NumOutputs[i] - 1)

VARIABLES borderPc,          \* where r0's thread is
          allOutPacketsProcessed,
          borderQ,           \* the queue it analyses next
          lost,              \* history: a count of r0's notifications came out
                             \* too small
          sent,              \* the packets r0 has sent
          processedPackets   \* r0's total

VARIABLES corePc,            \* where each core router's thread is
          coreI,             \* the adaptor it adds next
          toDest,            \* OutputAdaptor::processedPacketsToDest
          routerToDest       \* Router::processedPacketsToDest

VARIABLES mainPc,            \* the handler the main thread is in
          mainI,             \* its loop variable
          mainQ,             \* the queue it analyses next
          timerOn,           \* statusTimer is running
          signals,           \* queued rfinished(0) signals
          isborderRouterFinished,
          totalPacketsinNetwork,
          packetsProcessedToDest,
          rCounter,
          stops              \* how often Stop was pressed

VARIABLES halted,            \* routers whose adaptors were terminated
          results,           \* the queues whose figures each router's vectors
                             \* hold, in order
          mixed,             \* history: two threads analysed r0 at once
          printed,           \* the figures of each router that were printed,
                             \* each time Network::performAnalysis ran
          torn               \* history: this check read a router's sum while
                             \* it was being recomputed

borderVars == << borderPc, allOutPacketsProcessed, borderQ, lost, sent,
                 processedPackets >>
coreVars   == << corePc, coreI, toDest, routerToDest >>
checkVars  == << timerOn, packetsProcessedToDest, torn >>
mainVars   == << mainPc, mainI, mainQ >>
anaVars    == << results, mixed >>
countVars  == << isborderRouterFinished, totalPacketsinNetwork, rCounter,
                 printed >>

vars == << borderVars, coreVars, checkVars, countVars, mainVars, signals,
           stops, halted, anaVars >>

Delivered == SumFunction([i \in Core |-> SumFunction(toDest[i])])

Init ==
  /\ borderPc = "off"
  /\ allOutPacketsProcessed = FALSE
  /\ borderQ = 1
  /\ lost = FALSE
  /\ sent = 0
  /\ processedPackets = 0
  /\ corePc = [i \in Core |-> "off"]
  /\ coreI = [i \in Core |-> 0]
  /\ toDest = [i \in Core |-> [o \in Outputs(i) |-> 0]]
  /\ routerToDest = [i \in Core |-> 0]
  /\ mainPc = "idle"
  /\ mainI = 0
  /\ mainQ = 1
  /\ timerOn = FALSE
  /\ signals = 0
  /\ isborderRouterFinished = FALSE
  /\ totalPacketsinNetwork = 0
  /\ packetsProcessedToDest = 0
  /\ rCounter = 0
  /\ stops = 0
  /\ halted = {}
  /\ results = [i \in Routers |-> << >>]
  /\ mixed = FALSE
  /\ printed = << >>
  /\ torn = FALSE
-----------------------------------------------------------------------------
(***************************************************************************)
(* Router r0 (router.cpp, borderRun): its output adaptors send the packets;*)
(* when they are done its thread analyses the queues, which also sums up   *)
(* its total, and emits rfinished.  A pop task that is told to end may     *)
(* still send the rest of its burst.                                       *)
(***************************************************************************)
BorderSend ==
  /\ borderPc # "off"
  /\ sent < Total
  /\ sent' = sent + 1
  /\ UNCHANGED << borderPc, allOutPacketsProcessed, borderQ, lost,
                  processedPackets, coreVars, checkVars, countVars, mainVars,
                  signals, stops, halted, anaVars >>

\* The last of r0's output adaptors has notified it.
OutNotify ==
  /\ borderPc = "run"
  /\ sent = Total
  /\ 0 \notin halted
  /\ ~ lost
  /\ ~ allOutPacketsProcessed
  /\ allOutPacketsProcessed' = TRUE
  /\ UNCHANGED << borderPc, borderQ, lost, sent, processedPackets, coreVars,
                  checkVars, countVars, mainVars, signals, stops, halted,
                  anaVars >>

(***************************************************************************)
(* The adaptors' threads add to nInpCount and nOutCount, and the push      *)
(* tasks' threads to nEnqProcs, without a lock.  An addition that is lost  *)
(* leaves the count short of the number it is compared with for ever: the  *)
(* last notification never comes, and r0's thread polls on.                *)
(***************************************************************************)
NotifyLost ==
  /\ borderPc = "run"
  /\ 0 \notin halted
  /\ ~ lost
  /\ ~ allOutPacketsProcessed
  /\ lost' = TRUE
  /\ UNCHANGED << borderPc, allOutPacketsProcessed, borderQ, sent,
                  processedPackets, coreVars, checkVars, countVars, mainVars,
                  signals, stops, halted, anaVars >>

BorderDone ==
  /\ borderPc = "run"
  /\ allOutPacketsProcessed
  /\ borderPc' = "analyse"
  /\ UNCHANGED << allOutPacketsProcessed, borderQ, lost, sent,
                  processedPackets, coreVars, checkVars, countVars, mainVars,
                  signals, stops, halted, anaVars >>

\* Router::performAnalysis, one queue: its figures go to the end.
Analyse(i, q) == results' = [results EXCEPT ![i] = Append(@, q)]

BorderAnalyse ==
  /\ borderPc = "analyse"
  /\ Analyse(0, borderQ)
  /\ mixed' = (mixed \/ (mainPc = "analyse" /\ mainI = 0))
  /\ borderQ' = (borderQ % NumQueues) + 1
  /\ borderPc' = IF borderQ = NumQueues THEN "sum" ELSE "analyse"
  /\ UNCHANGED << allOutPacketsProcessed, lost, sent, processedPackets,
                  coreVars, checkVars, countVars, mainVars, signals, stops,
                  halted >>

\* performAnalysis ends with r0's total.  Two threads that sum it up at once,
\* in place, may get anything to twice as much.
BorderTotals == {Total - s : s \in Shortfalls}
MixedTotals  == 0 .. (2 * Total)

BorderSum ==
  /\ borderPc = "sum"
  /\ processedPackets' \in IF mainPc = "finish" /\ mainI = 0 THEN MixedTotals
                           ELSE BorderTotals
  /\ borderPc' = "emit"
  /\ UNCHANGED << allOutPacketsProcessed, borderQ, lost, sent, coreVars,
                  checkVars, countVars, mainVars, signals, stops, halted,
                  anaVars >>

BorderEmit ==
  /\ borderPc = "emit"
  /\ signals' = signals + 1
  /\ borderPc' = "end"
  /\ UNCHANGED << allOutPacketsProcessed, borderQ, lost, sent,
                  processedPackets, coreVars, checkVars, countVars, mainVars,
                  stops, halted, anaVars >>

(***************************************************************************)
(* The core routers: their destination adaptors count what they write, and *)
(* their threads sum the counters up, over and over, in place.             *)
(***************************************************************************)
Deliver(i, o) ==
  /\ corePc[i] # "off"
  /\ i \notin halted
  /\ Delivered < sent
  /\ toDest' = [toDest EXCEPT ![i][o] = @ + 1]
  /\ UNCHANGED << borderVars, corePc, coreI, routerToDest, checkVars,
                  countVars, mainVars, signals, stops, halted, anaVars >>

\* Mutant of Cleared: the sum goes on from its last value.
ClearedNot(sum) == sum

Cleared(sum) == 0

CoreReset(i) ==
  /\ corePc[i] = "reset"
  /\ routerToDest' = [routerToDest EXCEPT ![i] = Cleared(@)]
  /\ coreI' = [coreI EXCEPT ![i] = 0]
  /\ corePc' = [corePc EXCEPT ![i] = "add"]
  /\ UNCHANGED << borderVars, toDest, checkVars, countVars, mainVars, signals,
                  stops, halted, anaVars >>

CoreAdd(i) ==
  /\ corePc[i] = "add"
  /\ routerToDest' = [routerToDest EXCEPT ![i] = @ + toDest[i][coreI[i]]]
  /\ coreI' = [coreI EXCEPT ![i] = (@ + 1) % NumOutputs[i]]
  /\ corePc' = [corePc EXCEPT ![i] = IF coreI[i] + 1 = NumOutputs[i]
                                     THEN "reset" ELSE "add"]
  /\ UNCHANGED << borderVars, toDest, checkVars, countVars, mainVars, signals,
                  stops, halted, anaVars >>
-----------------------------------------------------------------------------
(***************************************************************************)
(* The Run button: start every router and the status timer.  The button    *)
(* hides itself.                                                           *)
(***************************************************************************)
Run ==
  /\ mainPc = "idle"
  /\ borderPc = "off"
  /\ borderPc' = "run"
  /\ corePc' = [i \in Core |-> "reset"]
  /\ timerOn' = TRUE
  /\ UNCHANGED << allOutPacketsProcessed, borderQ, lost, sent,
                  processedPackets, coreI, toDest, routerToDest,
                  packetsProcessedToDest, torn, countVars, mainVars, signals,
                  stops, halted, anaVars >>

(***************************************************************************)
(* checkStatus(): add the routers' sums one by one, then compare.          *)
(***************************************************************************)
CheckBegin ==
  /\ mainPc = "idle"
  /\ timerOn
  /\ mainPc' = "check"
  /\ mainI' = 1
  /\ packetsProcessedToDest' = 0
  /\ torn' = FALSE
  /\ UNCHANGED << borderVars, coreVars, timerOn, countVars, mainQ, signals,
                  stops, halted, anaVars >>

CheckAdd ==
  /\ mainPc = "check"
  /\ mainI < NumRouters
  /\ packetsProcessedToDest' = packetsProcessedToDest + routerToDest[mainI]
  /\ torn' = (torn \/ corePc[mainI] = "add")
  /\ mainI' = mainI + 1
  /\ UNCHANGED << borderVars, coreVars, timerOn, countVars, mainPc, mainQ,
                  signals, stops, halted, anaVars >>

\* Mutant of AllArrived: it does not wait for r0's total.
AllArrivedUnasked == packetsProcessedToDest = totalPacketsinNetwork

AllArrived == /\ isborderRouterFinished
              /\ packetsProcessedToDest = totalPacketsinNetwork

CheckMore ==
  /\ mainPc = "check"
  /\ mainI = NumRouters
  /\ ~ AllArrived
  /\ mainPc' = "idle"
  /\ UNCHANGED << borderVars, coreVars, checkVars, countVars, mainI, mainQ,
                  signals, stops, halted, anaVars >>

\* Mutant of FirstToStop: checkStatus stops r0 too.
FirstToStopZero == 0

FirstToStop == 1

CheckDone ==
  /\ mainPc = "check"
  /\ mainI = NumRouters
  /\ AllArrived
  /\ timerOn' = FALSE
  /\ mainPc' = "halt"
  /\ mainI' = FirstToStop
  /\ UNCHANGED << borderVars, coreVars, packetsProcessedToDest, torn,
                  countVars, mainQ, signals, stops, halted, anaVars >>

(***************************************************************************)
(* The Stop button.  It is pressed after Run: statusTimer is not           *)
(* initialised before.                                                     *)
(***************************************************************************)
Stop ==
  /\ mainPc = "idle"
  /\ borderPc # "off"
  /\ stops < MaxStops
  /\ stops' = stops + 1
  /\ mainPc' = "halt"
  /\ mainI' = 0
  /\ UNCHANGED << borderVars, coreVars, checkVars, countVars, mainQ, signals,
                  halted, anaVars >>

(***************************************************************************)
(* Router::stop(): terminate the adaptors, analyse the queues, terminate   *)
(* the router's thread and emit rfinished, a direct call here.  While the  *)
(* adaptors are being terminated and the queues analysed the router's      *)
(* thread still runs.                                                      *)
(***************************************************************************)
Halt ==
  /\ mainPc = "halt"
  /\ mainI < NumRouters
  /\ halted' = halted \cup {mainI}
  /\ mainPc' = "analyse"
  /\ mainQ' = 1
  /\ UNCHANGED << borderVars, coreVars, checkVars, countVars, mainI, signals,
                  stops, anaVars >>

StopAnalyse ==
  /\ mainPc = "analyse"
  /\ Analyse(mainI, mainQ)
  /\ mixed' = (mixed \/ (mainI = 0 /\ borderPc = "analyse"))
  /\ mainQ' = mainQ + 1
  /\ mainPc' = IF mainQ = NumQueues THEN "finish" ELSE "analyse"
  /\ UNCHANGED << borderVars, coreVars, checkVars, countVars, mainI, signals,
                  stops, halted >>

(***************************************************************************)
(* What Network::performAnalysis prints: the first NumQueues entries of    *)
(* each router's vectors.  Where there are fewer it reads past their end.  *)
(***************************************************************************)
Figures == [i \in Routers |->
              SubSeq(results[i], 1, Min({NumQueues, Len(results[i])}))]

\* Mutants of LastSignal: one signal later, and at every one from there on.
LastSignalLate  == rCounter = NumRouters

LastSignalAgain == rCounter + 1 >= NumRouters

LastSignal == rCounter + 1 = NumRouters

(***************************************************************************)
(* rFinished(id): count the signal and print the analysis at the last one. *)
(* `total` is r0's total when it runs.                                     *)
(***************************************************************************)
RFinished(id, total) ==
  /\ isborderRouterFinished' = (isborderRouterFinished \/ id = 0)
  /\ totalPacketsinNetwork' = IF id = 0 THEN total ELSE totalPacketsinNetwork
  /\ rCounter' = rCounter + 1
  /\ printed' = IF LastSignal THEN Append(printed, Figures) ELSE printed

(***************************************************************************)
(* r0's total when it is stopped: before its adaptors have finished, what  *)
(* they had last copied from their pop tasks, and its thread's loop sums   *)
(* that up, in place, at the same time.                                    *)
(***************************************************************************)
StoppedTotal ==
  CASE borderPc = "run"     -> 0 .. (2 * sent)
    [] borderPc = "analyse" -> BorderTotals
    [] borderPc = "sum"     -> MixedTotals
    [] OTHER                -> {processedPackets}

FinishBorder ==
  /\ mainI = 0
  /\ processedPackets' \in StoppedTotal
  /\ borderPc' = IF borderPc = "end" THEN "end" ELSE "killed"
  /\ UNCHANGED corePc

FinishCore ==
  /\ mainI \in Core
  /\ corePc' = [corePc EXCEPT ![mainI] = "killed"]
  /\ UNCHANGED << borderPc, processedPackets >>

Finish ==
  /\ mainPc = "finish"
  /\ FinishBorder \/ FinishCore
  /\ RFinished(mainI, processedPackets')
  /\ mainPc' = "halt"
  /\ mainI' = mainI + 1
  /\ UNCHANGED << allOutPacketsProcessed, borderQ, lost, sent, coreI, toDest,
                  routerToDest, checkVars, mainQ, signals, stops, halted,
                  anaVars >>

\* Mutant of TimerStopped: the timer stays on.
TimerStoppedNot == UNCHANGED timerOn

TimerStopped == timerOn' = FALSE

(***************************************************************************)
(* All routers are stopped.  Network::stop also stops the timer, which     *)
(* checkStatus has done before.                                            *)
(***************************************************************************)
Halted ==
  /\ mainPc = "halt"
  /\ mainI = NumRouters
  /\ TimerStopped
  /\ mainPc' = "idle"
  /\ UNCHANGED << borderVars, coreVars, packetsProcessedToDest, torn,
                  countVars, mainI, mainQ, signals, stops, halted, anaVars >>

(***************************************************************************)
(* The event loop hands over r0's queued signal.                           *)
(***************************************************************************)
Signal ==
  /\ mainPc = "idle"
  /\ signals > 0
  /\ signals' = signals - 1
  /\ RFinished(0, processedPackets)
  /\ UNCHANGED << borderVars, coreVars, checkVars, mainVars, stops, halted,
                  anaVars >>
-----------------------------------------------------------------------------
BorderStep == \/ BorderSend \/ OutNotify \/ BorderDone
              \/ BorderAnalyse \/ BorderSum \/ BorderEmit

CoreStep(i) == CoreReset(i) \/ CoreAdd(i)

Handler == \/ CheckAdd \/ CheckMore \/ CheckDone
           \/ Halt \/ StopAnalyse \/ Finish \/ Halted

Next ==
  \/ BorderStep
  \/ NotifyLost
  \/ \E i \in Core : CoreStep(i) \/ \E o \in Outputs(i) : Deliver(i, o)
  \/ Run
  \/ CheckBegin
  \/ Stop
  \/ Signal
  \/ Handler

(***************************************************************************)
(* Threads and adaptors run, handlers finish, the timer fires while it is  *)
(* on, and a queued signal is not kept waiting for ever by the timer.  A   *)
(* packet is owed its delivery while no router is stopped.  The user owes  *)
(* nothing.                                                                *)
(***************************************************************************)
Fairness ==
  /\ WF_vars(BorderStep)
  /\ \A i \in Core : WF_vars(CoreStep(i))
  /\ WF_vars(/\ halted = {}
             /\ \E i \in Core : \E o \in Outputs(i) : Deliver(i, o))
  /\ WF_vars(CheckBegin)
  /\ SF_vars(Signal)
  /\ WF_vars(Handler)

Spec == Init /\ [][Next]_vars /\ Fairness
-----------------------------------------------------------------------------
(***************************************************************************)
(* What the check reads is never too much: a sum that is being recomputed  *)
(* is too small, and so are the counters read first.                       *)
(***************************************************************************)
SumNeverExceeds == packetsProcessedToDest <= Delivered

(***************************************************************************)
(* If r0's total is exact, checkStatus never stops a router while a packet *)
(* is on its way, torn and stale reads notwithstanding.                    *)
(***************************************************************************)
NeverStopsEarly ==
  stops = 0 /\ halted # {} /\ processedPackets = Total => Delivered = Total

(***************************************************************************)
(* Unless Stop is pressed, the analysis is printed once, when every router *)
(* has its figures, each queue's at its own place.                         *)
(***************************************************************************)
Whole == [q \in 1 .. NumQueues |-> q]

PrintsAll == stops = 0 => printed \in {<< >>, << [i \in Routers |-> Whole] >>}

(***************************************************************************)
(* Pressing Stop at a bad time spoils little.  The analysis is still       *)
(* printed at most once, however often the routers are stopped, and with   *)
(* the figures in their places, but for two routers: the last one may have *)
(* none yet, because rFinished counts r0's own signal besides the one that *)
(* stop emits, and those of r0 may be mixed up, if its thread analysed the *)
(* queues while the main thread did.                                       *)
(***************************************************************************)
StopSpoilsLittle ==
  /\ Len(printed) <= 1
  /\ \A k \in DOMAIN printed, i \in Routers :
       \/ printed[k][i] = Whole
       \/ i = NumRouters - 1 /\ printed[k][i] = << >>
       \/ i = 0 /\ mixed

(***************************************************************************)
(* Pressing Stop ends the simulation, even when checkStatus is about to or *)
(* r0's own signal is still queued: every router comes to rest, the main   *)
(* thread becomes idle with the timer off, and an analysis is printed.     *)
(***************************************************************************)
StopEnds ==
  (stops > 0) ~> (/\ mainPc = "idle"
                  /\ ~ timerOn
                  /\ \A i \in Core : corePc[i] = "killed"
                  /\ printed # << >>)

(***************************************************************************)
(* The simulation ends by itself: once it runs, the analysis is printed,   *)
(* unless Stop is pressed, r0's total is too small, one of the additions   *)
(* to r0's counts of notifications gets lost, so that r0 never ends, or    *)
(* from some time on every check reads a sum that is being recomputed.     *)
(***************************************************************************)
CleanCheck == mainPc = "check" /\ mainI = NumRouters /\ ~ torn

RunEnds ==
  []<>(CleanCheck \/ ~ timerOn)
    => ((borderPc = "run")
          ~> (\/ stops > 0
              \/ lost
              \/ borderPc = "end" /\ processedPackets < Total
              \/ printed # << >>))
=============================================================================
