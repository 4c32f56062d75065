---------------------------- MODULE NetworkProofs ----------------------------
(***************************************************************************)
(* Theorems about the whole simulation (network.cpp) for any number of     *)
(* routers, output adaptors, queues and packets, however often Stop is     *)
(* pressed.                                                                *)
(***************************************************************************)
EXTENDS Network, OperatorTheorems

BorderPcs == {"off", "run", "analyse", "sum", "emit", "end", "killed"}
CorePcs   == {"off", "reset", "add", "killed"}
MainPcs   == {"idle", "check", "halt", "analyse", "finish"}

(***************************************************************************)
(* The types the arguments below need.                                     *)
(***************************************************************************)
Types ==
  /\ borderPc \in BorderPcs /\ mainPc \in MainPcs
  /\ corePc \in [Core -> CorePcs]
  /\ borderQ \in 1 .. NumQueues /\ mainQ \in Nat
  /\ mainI \in 0 .. NumRouters
  /\ sent \in 0 .. Total
  /\ signals \in Nat /\ rCounter \in Nat /\ stops \in Nat
  /\ timerOn \in BOOLEAN /\ isborderRouterFinished \in BOOLEAN
  /\ mixed \in BOOLEAN

Counters ==
  /\ coreI \in [Core -> Nat]
  /\ routerToDest \in [Core -> Nat]
  /\ DOMAIN toDest = Core
  /\ \A i \in Core : toDest[i] \in [Outputs(i) -> Nat] /\ coreI[i] \in Outputs(i)
  /\ packetsProcessedToDest \in Nat
  /\ results \in [Routers -> Seq(Nat)]

(***************************************************************************)
(* A router's sum is at most what its adaptors have delivered; while it is *)
(* being recomputed, at most what those added so far have.  The same goes  *)
(* for what checkStatus adds up of the routers' sums.                      *)
(***************************************************************************)
ByRouter(d) == [i \in Core |-> SumFunction(d[i])]

BelowSum ==
  /\ Delivered <= sent
  /\ \A i \in Core :
       /\ routerToDest[i] <= ByRouter(toDest)[i]
       /\ corePc[i] = "add" =>
            routerToDest[i] <= SumFunctionOnSet(toDest[i], 0 .. (coreI[i] - 1))
  /\ packetsProcessedToDest <= Delivered
  /\ mainPc = "check" =>
       /\ mainI >= 1
       /\ packetsProcessedToDest <=
            SumFunctionOnSet(ByRouter(toDest), 1 .. (mainI - 1))

(***************************************************************************)
(* While Stop has not been pressed, routers are stopped by checkStatus     *)
(* alone, after r0's signal and on a sum equal to r0's total; both stand   *)
(* still from there on, because the timer is off.                          *)
(***************************************************************************)
Halting == mainPc \in {"halt", "analyse", "finish"}

Untouched ==
  stops = 0 =>
    /\ isborderRouterFinished =>
         borderPc = "end" /\ totalPacketsinNetwork = processedPackets
    /\ mainPc = "check" => timerOn
    /\ Halting \/ halted # {} =>
         /\ isborderRouterFinished
         /\ packetsProcessedToDest = totalPacketsinNetwork
         /\ ~ timerOn
    /\ Halting => mainI >= 1
    /\ ~ mixed

(***************************************************************************)
(* What the routers' vectors hold.  A router that was analysed has figures *)
(* of every queue; the first ones are in their places, in r0's vectors     *)
(* only if no two threads were at it.                                      *)
(***************************************************************************)
InPlace(s) == \A k \in DOMAIN s : k <= NumQueues => s[k] = k

ByBorder == IF borderPc = "analyse" THEN borderQ - 1 ELSE 0

ByMain(i) == IF mainPc = "analyse" /\ mainI = i THEN mainQ - 1 ELSE 0

Filled ==
  /\ borderPc \in {"off", "run"} => borderQ = 1
  /\ mainPc = "analyse" => mainQ \in 1 .. NumQueues /\ mainI < NumRouters
  /\ mainPc = "finish" => mainI < NumRouters /\ Len(results[mainI]) >= NumQueues
  /\ borderPc \in {"sum", "emit", "end", "killed"} =>
       Len(results[0]) >= NumQueues
  /\ \A i \in Routers : Len(results[i]) >= ByMain(i)
  /\ Len(results[0]) >= ByBorder
  /\ \A i \in Core :
       /\ InPlace(results[i])
       /\ Len(results[i]) < NumQueues => Len(results[i]) = ByMain(i)
  /\ ~ mixed =>
       /\ InPlace(results[0])
       /\ Len(results[0]) < NumQueues =>
            Len(results[0]) = ByBorder + ByMain(0)

(***************************************************************************)
(* Until the analysis is printed the routers are being stopped for the     *)
(* first time, one after the other, and rCounter counts the stopped ones,  *)
(* and r0's own signal.                                                    *)
(***************************************************************************)
Counting ==
  /\ borderPc # "end" => signals = 0
  /\ rCounter < NumRouters =>
       IF Halting
       THEN /\ rCounter \in {mainI, mainI + 1}
            /\ stops = 0 => rCounter = mainI
            /\ mainI >= 1 => borderPc \in {"end", "killed"}
            /\ \A i \in Core :
                 /\ i < mainI => Len(results[i]) >= NumQueues
                 /\ i > mainI => results[i] = << >>
            /\ mainPc = "halt" /\ mainI \in Core => results[mainI] = << >>
       ELSE /\ rCounter + signals <= 1
            /\ rCounter = IF isborderRouterFinished THEN 1 ELSE 0
            /\ rCounter = 1 => borderPc = "end"
            /\ \A i \in Core : results[i] = << >>

Printing ==
  /\ rCounter < NumRouters => printed = << >>
  /\ PrintsAll
  /\ StopSpoilsLittle

Ind == Types /\ Counters /\ BelowSum /\ Untouched /\ Filled /\ Counting /\ Printing

LEMMA Routers0 ==
  /\ IsFiniteSet(Core) /\ \A i \in Core : IsFiniteSet(Outputs(i))
  /\ 0 \in Routers /\ Core \subseteq Routers /\ Core = 1 .. (NumRouters - 1)
  /\ \A i \in Core : i \in Nat /\ NumOutputs[i] \in Nat /\ NumOutputs[i] > 0
  <1>1. Core = 1 .. (NumRouters - 1) /\ 0 \in Routers /\ Core \subseteq Routers
    BY NumRoutersAssumption DEF Core, Routers
  <1>2. \A i \in Core : i \in Nat /\ NumOutputs[i] \in Nat /\ NumOutputs[i] > 0
    BY <1>1, NumOutputsAssumption, NumRoutersAssumption
  <1>3. \A i \in Core : IsFiniteSet(Outputs(i))
    BY <1>2, FS_Interval DEF Outputs
  <1> QED
    BY <1>1, <1>2, <1>3, FS_Interval, NumRoutersAssumption

(***************************************************************************)
(* The sums over the adaptors and over the routers are naturals.           *)
(***************************************************************************)
LEMMA SumsAreNat ==
  ASSUME NEW d, \A i \in Core : d[i] \in [Outputs(i) -> Nat]
  PROVE  /\ ByRouter(d) \in [Core -> Nat]
         /\ SumFunction(ByRouter(d)) = SumFunctionOnSet(ByRouter(d), Core)
         /\ SumFunction(ByRouter(d)) \in Nat
         /\ \A T \in SUBSET Core :
              /\ SumFunctionOnSet(ByRouter(d), T) \in Nat
              /\ SumFunctionOnSet(ByRouter(d), T) <= SumFunction(ByRouter(d))
         /\ \A i \in Core : \A T \in SUBSET Outputs(i) :
              /\ SumFunctionOnSet(d[i], T) \in Nat
              /\ SumFunctionOnSet(d[i], T) <= ByRouter(d)[i]
         /\ \A i \in Core :
              ByRouter(d)[i] = SumFunctionOnSet(d[i], Outputs(i))
  <1>1. ASSUME NEW i \in Core
        PROVE  /\ ByRouter(d)[i] = SumFunctionOnSet(d[i], Outputs(i))
               /\ \A T \in SUBSET Outputs(i) :
                    /\ SumFunctionOnSet(d[i], T) \in Nat
                    /\ SumFunctionOnSet(d[i], T) <= ByRouter(d)[i]
    <2>1. /\ d[i] \in [Outputs(i) -> Nat]
          /\ DOMAIN d[i] = Outputs(i)
          /\ IsFiniteSet(Outputs(i))
      BY Routers0
    <2>2. ByRouter(d)[i] = SumFunctionOnSet(d[i], DOMAIN d[i])
      BY DEF ByRouter, SumFunction
    <2>3. SumFunctionOnSet(d[i], DOMAIN d[i]) =
            SumFunctionOnSet(d[i], Outputs(i))
      BY <2>1, Zenon
    <2>4. \A T \in SUBSET Outputs(i) : SumFunctionOnSet(d[i], T) \in Nat
      BY <2>1, FS_Subset, SumNat
    <2>5. \A T \in SUBSET Outputs(i) :
            SumFunctionOnSet(d[i], T) <= SumFunctionOnSet(d[i], Outputs(i))
      BY <2>1, SumSubset
    <2> QED
      BY <2>2, <2>3, <2>4, <2>5
  <1> DEFINE g == ByRouter(d)
  <1>2. g \in [Core -> Nat]
    <2>1. \A i \in Core : g[i] \in Nat
      BY <1>1
    <2> QED
      BY <2>1 DEF ByRouter
  <1> HIDE DEF g
  <1>3. SumFunction(g) = SumFunctionOnSet(g, Core)
    <2>1. DOMAIN g = Core /\ SumFunction(g) = SumFunctionOnSet(g, DOMAIN g)
      BY <1>2 DEF SumFunction
    <2> QED
      BY <2>1, Zenon
  <1>4. \A T \in SUBSET Core : SumFunctionOnSet(g, T) \in Nat
    BY <1>2, Routers0, FS_Subset, SumNat
  <1>5. \A T \in SUBSET Core :
          SumFunctionOnSet(g, T) <= SumFunctionOnSet(g, Core)
    BY <1>2, Routers0, SumSubset
  <1> QED
    BY <1>1, <1>2, <1>3, <1>4, <1>5 DEF g

LEMMA DeliveredIsSum == Delivered = SumFunction(ByRouter(toDest))
  BY DEF Delivered, ByRouter

-----------------------------------------------------------------------------
LEMMA IndInit == Init => Ind
  <1> SUFFICES ASSUME Init PROVE Ind
    OBVIOUS
  <1>1. Types
    <2>1. \A i \in Core : corePc[i] \in CorePcs
      BY DEF Init, CorePcs
    <2>2. corePc \in [Core -> CorePcs]
      BY <2>1 DEF Init
    <2>3. /\ borderQ \in 1 .. NumQueues /\ mainI \in 0 .. NumRouters
          /\ sent \in 0 .. Total
      BY NumQueuesAssumption, TotalAssumption, NumRoutersAssumption DEF Init
    <2> QED
      BY <2>2, <2>3 DEF Init, Types, BorderPcs, MainPcs
  <1>2. Counters
    <2>1. \A i \in Core : 0 \in Outputs(i)
      BY Routers0 DEF Outputs
    <2> QED
      BY <2>1 DEF Init, Counters
  <1>3. SumFunction(ByRouter(toDest)) = 0 /\ ByRouter(toDest) \in [Core -> Nat]
    <2>1. /\ ByRouter(toDest) \in [Core -> Nat]
          /\ SumFunction(ByRouter(toDest)) =
               SumFunctionOnSet(ByRouter(toDest), Core)
      BY <1>2, SumsAreNat DEF Counters
    <2>2. \A i \in Core : ByRouter(toDest)[i] = 0
      <3> SUFFICES ASSUME NEW i \in Core PROVE ByRouter(toDest)[i] = 0
        OBVIOUS
      <3>1. toDest[i] = [o \in Outputs(i) |-> 0]
        BY DEF Init
      <3>2. SumFunctionOnSet(toDest[i], DOMAIN toDest[i]) = 0
        BY <3>1, Routers0, SumZero
      <3> QED
        BY <3>2 DEF ByRouter, SumFunction
    <2> QED
      BY <2>1, <2>2, SumZero, Routers0
  <1>4. Delivered = 0
    BY <1>3, DeliveredIsSum
  <1>5. BelowSum
    BY <1>3, <1>4 DEF Init, BelowSum
  <1>6. Untouched
    BY DEF Init, Untouched, Halting
  <1>7. Filled
    BY Routers0 DEF Init, Filled, InPlace, ByMain, ByBorder
  <1>8. Counting
    BY Routers0 DEF Init, Counting, Halting
  <1>9. Printing
    BY DEF Init, Printing, PrintsAll, StopSpoilsLittle
  <1> QED
    BY <1>1, <1>2, <1>5, <1>6, <1>7, <1>8, <1>9 DEF Ind

(***************************************************************************)
(* The types are preserved.                                                *)
(***************************************************************************)
LEMMA TypesStep ==
  ASSUME Ind, [Next]_vars
  PROVE  Types'
  <1> USE DEF borderVars, coreVars, checkVars, mainVars, anaVars, countVars
  <1>0. Types /\ Filled /\ (mainI \in 0 .. NumRouters)
    BY DEF Ind, Types
  <1>1. CASE BorderStep
    <2>1. UNCHANGED << mainPc, mainQ, mainI, corePc, rCounter, stops, timerOn,
                       isborderRouterFinished >>
      BY <1>1 DEF BorderStep, BorderSend, OutNotify, BorderDone, BorderAnalyse,
                  BorderSum, BorderEmit
    <2>2. borderPc' \in BorderPcs /\ signals' \in Nat /\ sent' \in 0 .. Total
      BY <1>0, <1>1, TotalAssumption
      DEF BorderStep, BorderSend, OutNotify, BorderDone, BorderAnalyse,
          BorderSum, BorderEmit, Types, BorderPcs
    <2>3. borderQ' \in 1 .. NumQueues
      BY <1>0, <1>1, NumQueuesAssumption
      DEF BorderStep, BorderSend, OutNotify, BorderDone, BorderAnalyse,
          BorderSum, BorderEmit, Types
    <2>4. mixed' \in BOOLEAN
      BY <1>0, <1>1
      DEF BorderStep, BorderSend, OutNotify, BorderDone, BorderAnalyse,
          BorderSum, BorderEmit, Types
    <2> QED
      BY <1>0, <2>1, <2>2, <2>3, <2>4 DEF Types
  <1>2. CASE \E i \in Core : CoreStep(i) \/ \E o \in Outputs(i) : Deliver(i, o)
    <2>1. UNCHANGED << borderPc, borderQ, sent, mainPc, mainQ, mainI, signals,
                       rCounter, stops, timerOn, isborderRouterFinished,
                       mixed >>
      BY <1>2 DEF CoreStep, CoreReset, CoreAdd, Deliver
    <2>2. corePc' \in [Core -> CorePcs]
      BY <1>0, <1>2 DEF CoreStep, CoreReset, CoreAdd, Deliver, Types, CorePcs
    <2> QED
      BY <1>0, <2>1, <2>2 DEF Types
  <1>3. CASE Run
    <2>1. corePc' \in [Core -> CorePcs]
      BY <1>3 DEF Run, CorePcs
    <2> QED
      BY <1>0, <1>3, <2>1 DEF Run, Types, BorderPcs
  <1>4. CASE CheckBegin \/ CheckAdd \/ CheckMore \/ CheckDone
    <2>1. UNCHANGED << borderPc, corePc, borderQ, sent, mainQ, signals,
                       rCounter, stops, isborderRouterFinished, mixed >>
      BY <1>4 DEF CheckBegin, CheckAdd, CheckMore, CheckDone
    <2>2. mainPc' \in MainPcs /\ mainI' \in 0 .. NumRouters
      BY <1>0, <1>4, NumRoutersAssumption
      DEF CheckBegin, CheckAdd, CheckMore, CheckDone, FirstToStop, Types,
          MainPcs
    <2>3. timerOn' \in BOOLEAN
      BY <1>0, <1>4 DEF CheckBegin, CheckAdd, CheckMore, CheckDone, Types
    <2> QED
      BY <1>0, <2>1, <2>2, <2>3 DEF Types
  <1>5. CASE Stop
    BY <1>0, <1>5, NumRoutersAssumption DEF Stop, Types, MainPcs
  <1>6. CASE Signal
    <2>1. isborderRouterFinished' \in BOOLEAN
      BY <1>0, <1>6 DEF Signal, RFinished, Types
    <2> QED
      BY <1>0, <1>6, <2>1 DEF Signal, RFinished, Types
  <1>7. CASE Halt
    BY <1>0, <1>7 DEF Halt, Types, MainPcs
  <1>8. CASE StopAnalyse
    <2>1. mixed' \in BOOLEAN
      BY <1>0, <1>8 DEF StopAnalyse, Types
    <2> QED
      BY <1>0, <1>8, <2>1 DEF StopAnalyse, Types, MainPcs
  <1>9. CASE Finish
    <2>1. mainI < NumRouters /\ mainPc' = "halt" /\ mainI' = mainI + 1
      BY <1>0, <1>9 DEF Finish, Filled
    <2>2. corePc' \in [Core -> CorePcs] /\ borderPc' \in BorderPcs
      BY <1>0, <1>9
      DEF Finish, FinishBorder, FinishCore, Types, CorePcs, BorderPcs
    <2>3. isborderRouterFinished' \in BOOLEAN
      BY <1>0, <1>9 DEF Finish, RFinished, Types
    <2> QED
      BY <1>0, <1>9, <2>1, <2>2, <2>3, NumRoutersAssumption
      DEF Finish, RFinished, Types, MainPcs
  <1>10. CASE Halted
    BY <1>0, <1>10 DEF Halted, TimerStopped, Types, MainPcs
  <1>11. CASE UNCHANGED vars \/ NotifyLost
    BY <1>0, <1>11 DEF vars, NotifyLost, Types
  <1> QED
    BY <1>1, <1>2, <1>3, <1>4, <1>5, <1>6, <1>7, <1>8, <1>9, <1>10, <1>11
    DEF Next, Handler

LEMMA CountersStep ==
  ASSUME Ind, [Next]_vars
  PROVE  Counters'
  <1> USE DEF borderVars, coreVars, checkVars, mainVars, anaVars, countVars
  <1>0. Types /\ Counters
    BY DEF Ind
  <1>1. ASSUME UNCHANGED coreVars PROVE
          /\ coreI' \in [Core -> Nat]
          /\ routerToDest' \in [Core -> Nat]
          /\ DOMAIN toDest' = Core
          /\ \A i \in Core : /\ toDest'[i] \in [Outputs(i) -> Nat]
                             /\ coreI'[i] \in Outputs(i)
    BY <1>0, <1>1 DEF Counters
  <1>2. ASSUME UNCHANGED << coreI, toDest, routerToDest, results >>,
               packetsProcessedToDest' \in Nat
        PROVE  Counters'
    BY <1>0, <1>2 DEF Counters
  <1>3. CASE BorderAnalyse \/ StopAnalyse
    <2>1. PICK i \in Routers, q \in Nat :
            results' = [results EXCEPT ![i] = Append(@, q)]
      <3>1. CASE BorderAnalyse
        <4>1. borderQ \in Nat
          BY <1>0, NumQueuesAssumption DEF Types
        <4> QED
          BY <3>1, <4>1, Routers0 DEF BorderAnalyse, Analyse
      <3>2. CASE StopAnalyse
        <4>1. mainI \in Routers /\ mainQ \in Nat
          BY <3>2, NumRoutersAssumption
          DEF StopAnalyse, Ind, Types, Filled, Routers
        <4> QED
          BY <3>2, <4>1 DEF StopAnalyse, Analyse
      <3> QED
        BY <1>3, <3>1, <3>2
    <2>2. results' \in [Routers -> Seq(Nat)]
      BY <1>0, <2>1 DEF Counters
    <2>3. UNCHANGED << coreI, toDest, routerToDest, packetsProcessedToDest >>
      BY <1>3 DEF BorderAnalyse, StopAnalyse
    <2> QED
      BY <1>0, <2>2, <2>3 DEF Counters
  <1>4. ASSUME NEW i \in Core, CoreStep(i)
        PROVE  Counters'
    <2>1. UNCHANGED << toDest, results, packetsProcessedToDest >>
      BY <1>4 DEF CoreStep, CoreReset, CoreAdd
    <2>2. PICK a \in Nat, b \in Outputs(i) :
            /\ routerToDest' = [routerToDest EXCEPT ![i] = a]
            /\ coreI' = [coreI EXCEPT ![i] = b]
      <3>1. CASE CoreReset(i)
        <4>1. 0 \in Outputs(i)
          BY Routers0 DEF Outputs
        <4> QED
          BY <3>1, <4>1 DEF CoreReset, Cleared
      <3>2. CASE CoreAdd(i)
        <4>1. (coreI[i] + 1) % NumOutputs[i] \in Outputs(i)
          BY <1>0, Routers0 DEF Counters, Outputs
        <4>2. routerToDest[i] + toDest[i][coreI[i]] \in Nat
          BY <1>0 DEF Counters
        <4> QED
          BY <3>2, <4>1, <4>2 DEF CoreAdd
      <3> QED
        BY <1>4, <3>1, <3>2 DEF CoreStep
    <2>3. b \in Nat
      BY Routers0 DEF Outputs
    <2> QED
      BY <1>0, <2>1, <2>2, <2>3 DEF Counters
  <1>5. ASSUME NEW i \in Core, NEW o \in Outputs(i), Deliver(i, o)
        PROVE  Counters'
    <2>1. UNCHANGED << coreI, routerToDest, results, packetsProcessedToDest >>
      BY <1>5 DEF Deliver
    <2>2. toDest' = [toDest EXCEPT ![i] = [toDest[i] EXCEPT ![o] = toDest[i][o] + 1]]
      BY <1>5 DEF Deliver
    <2>3. [toDest[i] EXCEPT ![o] = toDest[i][o] + 1] \in [Outputs(i) -> Nat]
      BY <1>0 DEF Counters
    <2>4. /\ DOMAIN toDest' = Core
          /\ \A j \in Core : toDest'[j] \in [Outputs(j) -> Nat]
      BY <1>0, <2>2, <2>3 DEF Counters
    <2> QED
      BY <1>0, <2>1, <2>4 DEF Counters
  <1>6. CASE CheckAdd
    <2>1. mainI \in Core
      BY <1>6, Routers0, NumRoutersAssumption
      DEF CheckAdd, Ind, Types, BelowSum
    <2>2. packetsProcessedToDest' \in Nat
      BY <1>0, <1>6, <2>1 DEF CheckAdd, Counters
    <2> QED
      BY <1>2, <1>6, <2>2 DEF CheckAdd
  <1>7. CASE Run \/ CheckBegin \/ Stop \/ Signal
    BY <1>0, <1>2, <1>7
    DEF Run, CheckBegin, Stop, Signal, RFinished, Counters
  <1>8. CASE CheckMore \/ CheckDone \/ Halt \/ Finish \/ Halted
    BY <1>0, <1>2, <1>8
    DEF CheckMore, CheckDone, Halt, Finish, Halted, Counters
  <1>9. CASE BorderSend \/ OutNotify \/ BorderDone \/ BorderSum \/ BorderEmit
    BY <1>0, <1>2, <1>9
    DEF BorderSend, OutNotify, BorderDone, BorderSum, BorderEmit, Counters
  <1>10. CASE UNCHANGED vars \/ NotifyLost
    BY <1>0, <1>2, <1>10 DEF vars, NotifyLost, Counters
  <1> QED
    BY <1>3, <1>4, <1>5, <1>6, <1>7, <1>8, <1>9, <1>10
    DEF Next, Handler, BorderStep

-----------------------------------------------------------------------------
(***************************************************************************)
(* A delivery adds one to the number of delivered packets, and takes       *)
(* nothing from any sum.                                                   *)
(***************************************************************************)
LEMMA DeliverCounts ==
  ASSUME Ind, NEW i \in Core, NEW o \in Outputs(i), Deliver(i, o), Counters'
  PROVE  /\ Delivered' = Delivered + 1
         /\ \A j \in Core : ByRouter(toDest)[j] <= ByRouter(toDest')[j]
         /\ \A j \in Core : \A T \in SUBSET Outputs(j) :
              SumFunctionOnSet(toDest[j], T) <= SumFunctionOnSet(toDest'[j], T)
         /\ \A T \in SUBSET Core :
              SumFunctionOnSet(ByRouter(toDest), T) <=
                SumFunctionOnSet(ByRouter(toDest'), T)
  <1> DEFINE f == toDest[i]
             v == f[o] + 1
             b == ByRouter(toDest)
             c == ByRouter(toDest')
  <1>1. Counters
    BY DEF Ind
  <1>2. toDest' = [toDest EXCEPT ![i] = [f EXCEPT ![o] = v]]
    BY DEF Deliver
  <1>3. /\ toDest'[i] = [f EXCEPT ![o] = v]
        /\ f \in [Outputs(i) -> Nat] /\ v \in Nat
        /\ \A j \in Core : j # i => toDest'[j] = toDest[j]
        /\ \A j \in Core : /\ toDest[j] \in [Outputs(j) -> Nat]
                           /\ toDest'[j] \in [Outputs(j) -> Nat]
    BY <1>1, <1>2 DEF Counters
  <1>4. ASSUME NEW j \in Core
        PROVE  /\ \A T \in SUBSET Outputs(j) :
                    SumFunctionOnSet(toDest[j], T) <=
                      SumFunctionOnSet(toDest'[j], T)
    <2>1. \A p \in Outputs(j) : /\ toDest[j][p] \in Int
                                /\ toDest'[j][p] \in Int
                                /\ toDest[j][p] <= toDest'[j][p]
      <3>1. CASE j # i
        BY <1>3, <3>1
      <3>2. CASE j = i
        BY <1>3, <3>2
      <3> QED
        BY <3>1, <3>2
    <2> QED
      BY <2>1, Routers0, SumMonotone
  <1>5. b \in [Core -> Nat] /\ c \in [Core -> Nat] /\ SumFunction(b) \in Nat
    BY <1>3, SumsAreNat
  <1>6. c = [b EXCEPT ![i] = b[i] + 1]
    <2>1. c[i] = b[i] + 1
      <3>1. SumFunction(f) \in Int /\ f \in [Outputs(i) -> Int] /\ v \in Int
        BY <1>3, <1>5 DEF ByRouter
      <3>2. v - f[o] = 1 /\ f[o] \in Int
        BY <1>3
      <3>3. c[i] = SumFunction([f EXCEPT ![o] = v]) /\ b[i] = SumFunction(f)
        BY <1>3 DEF ByRouter
      <3> HIDE DEF f, v, b, c
      <3>4. SumFunction([f EXCEPT ![o] = v]) = SumFunction(f) + v - f[o]
        BY <3>1, Routers0, SumUpdate
      <3> QED
        BY <3>1, <3>2, <3>3, <3>4
    <2>2. \A j \in Core : j # i => c[j] = b[j]
      BY <1>3 DEF ByRouter
    <2> HIDE DEF b, c
    <2> QED
      BY <1>5, <2>1, <2>2
  <1>7. Delivered = SumFunction(b) /\ Delivered' = SumFunction(c)
    BY DEF Delivered, ByRouter
  <1> HIDE DEF f, v, b, c
  <1>8. Delivered' = Delivered + 1
    <2> DEFINE w == b[i] + 1
    <2>1. b \in [Core -> Int] /\ w \in Int /\ w - b[i] = 1 /\ b[i] \in Int
      BY <1>5
    <2>2. c = [b EXCEPT ![i] = w]
      BY <1>6
    <2> HIDE DEF w
    <2>3. SumFunction([b EXCEPT ![i] = w]) = SumFunction(b) + w - b[i]
      BY <2>1, Routers0, SumUpdate
    <2> QED
      BY <1>5, <1>7, <2>1, <2>2, <2>3
  <1>9. \A j \in Core : b[j] \in Int /\ c[j] \in Int /\ b[j] <= c[j]
    BY <1>5, <1>6
  <1>10. \A T \in SUBSET Core : SumFunctionOnSet(b, T) <= SumFunctionOnSet(c, T)
    BY <1>9, Routers0, SumMonotone
  <1> QED
    BY <1>4, <1>8, <1>9, <1>10 DEF b, c

(***************************************************************************)
(* No step makes a sum exceed what it sums up.                             *)
(***************************************************************************)
LEMMA BelowSumStep ==
  ASSUME Ind, [Next]_vars, Types', Counters'
  PROVE  BelowSum'
  <1> USE DEF borderVars, coreVars, checkVars, mainVars, anaVars, countVars
  <1> DEFINE b == ByRouter(toDest)
             c == ByRouter(toDest')
  <1>0. Types /\ Counters /\ BelowSum
    BY DEF Ind
  <1>1. /\ \A i \in Core : \A T \in SUBSET Outputs(i) :
             /\ SumFunctionOnSet(toDest[i], T) \in Nat
             /\ SumFunctionOnSet(toDest[i], T) <= b[i]
        /\ b \in [Core -> Nat]
        /\ \A i \in Core : b[i] = SumFunctionOnSet(toDest[i], Outputs(i))
        /\ \A T \in SUBSET Core :
             SumFunctionOnSet(b, T) \in Nat /\ SumFunctionOnSet(b, T) <= Delivered
        /\ Delivered \in Nat
    <2>1. \A i \in Core : toDest[i] \in [Outputs(i) -> Nat]
      BY <1>0 DEF Counters
    <2> QED
      BY <2>1, SumsAreNat, DeliveredIsSum
  <1>2. \A i \in Core : \A n \in Outputs(i) :
          n \in Nat /\ n < NumOutputs[i] /\ 0 .. (n - 1) \in SUBSET Outputs(i)
    BY Routers0 DEF Outputs
  <1>3. \A i \in Core : coreI[i] \in Outputs(i) /\ routerToDest[i] \in Nat
    BY <1>0 DEF Counters
  <1> HIDE DEF b, c
  <1>4. ASSUME UNCHANGED << toDest, routerToDest, coreI, packetsProcessedToDest >>,
               \A i \in Core : corePc'[i] = "add" => corePc[i] = "add",
               sent' >= sent,
               mainPc' = "check" => UNCHANGED << mainPc, mainI >>
        PROVE  BelowSum'
    <2>1. Delivered' = Delivered
      BY <1>4 DEF Delivered
    <2>2. sent \in Int /\ sent' \in Int
      BY <1>0, TotalAssumption DEF Types
    <2>3. Delivered' <= sent'
      BY <1>0, <1>1, <1>4, <2>1, <2>2 DEF BelowSum
    <2> QED
      BY <1>0, <1>4, <2>1, <2>3 DEF BelowSum
  <1>5. CASE BorderStep
    <2>1. UNCHANGED << toDest, routerToDest, coreI, packetsProcessedToDest,
                       corePc, mainPc, mainI >>
      BY <1>5 DEF BorderStep, BorderSend, OutNotify, BorderDone, BorderAnalyse,
                  BorderSum, BorderEmit
    <2>2. sent' = sent \/ sent' = sent + 1
      BY <1>5 DEF BorderStep, BorderSend, OutNotify, BorderDone, BorderAnalyse,
                  BorderSum, BorderEmit
    <2>3. sent' >= sent
      BY <1>0, <2>2, TotalAssumption DEF Types
    <2> QED
      BY <1>4, <2>1, <2>3
  <1>6. sent \in Nat
    BY <1>0, TotalAssumption DEF Types
  <1>7. CASE Run \/ Stop \/ Signal
    <2>1. /\ UNCHANGED << toDest, routerToDest, coreI, packetsProcessedToDest,
                          sent >>
          /\ mainPc' = "check" => UNCHANGED << mainPc, mainI >>
      BY <1>7 DEF Run, Stop, Signal, RFinished
    <2>2. \A i \in Core : corePc'[i] = "add" => corePc[i] = "add"
      BY <1>7 DEF Run, Stop, Signal, RFinished
    <2> QED
      BY <1>4, <1>6, <2>1, <2>2
  <1>8. CASE CheckMore \/ CheckDone \/ Halt \/ StopAnalyse \/ Halted
    <2>1. /\ UNCHANGED << toDest, routerToDest, coreI, packetsProcessedToDest,
                          sent, corePc >>
          /\ mainPc' # "check"
      BY <1>8 DEF CheckMore, CheckDone, Halt, StopAnalyse, Halted
    <2> QED
      BY <1>4, <1>6, <2>1
  <1>9. CASE Finish
    <2>1. /\ UNCHANGED << toDest, routerToDest, coreI, packetsProcessedToDest,
                          sent >>
          /\ mainPc' # "check"
      BY <1>9 DEF Finish
    <2>2. \A i \in Core : corePc'[i] = "add" => corePc[i] = "add"
      BY <1>0, <1>9 DEF Finish, FinishBorder, FinishCore, Types
    <2> QED
      BY <1>4, <1>6, <2>1, <2>2
  <1>10. CASE UNCHANGED vars \/ NotifyLost
    BY <1>4, <1>6, <1>10 DEF vars, NotifyLost
  <1>11. ASSUME NEW i \in Core, CoreStep(i)
         PROVE  BelowSum'
    <2>1. UNCHANGED << toDest, packetsProcessedToDest, mainPc, mainI, sent >>
      BY <1>11 DEF CoreStep, CoreReset, CoreAdd
    <2>2. \A j \in Core : j # i => /\ routerToDest'[j] = routerToDest[j]
                                   /\ coreI'[j] = coreI[j]
                                   /\ corePc'[j] = corePc[j]
      BY <1>0, <1>11 DEF CoreStep, CoreReset, CoreAdd, Counters, Types
    <2>3. /\ routerToDest'[i] <= b[i]
          /\ corePc'[i] = "add" =>
               routerToDest'[i] <=
                 SumFunctionOnSet(toDest[i], 0 .. (coreI'[i] - 1))
      <3>1. CASE CoreReset(i)
        <4>1. routerToDest'[i] = 0
          BY <1>0, <3>1 DEF CoreReset, Cleared, Counters
        <4>2. coreI'[i] \in Outputs(i)
          BY DEF Counters
        <4>3. SumFunctionOnSet(toDest[i], 0 .. (coreI'[i] - 1)) \in Nat
          BY <1>1, <1>2, <4>2
        <4> QED
          BY <1>1, <4>1, <4>3
      <3>2. CASE CoreAdd(i)
        <4> DEFINE n == coreI[i]
                   s == SumFunctionOnSet(toDest[i], 0 .. n)
        <4>1. /\ routerToDest'[i] = routerToDest[i] + toDest[i][n]
              /\ coreI'[i] = (n + 1) % NumOutputs[i]
              /\ corePc'[i] = IF n + 1 = NumOutputs[i] THEN "reset" ELSE "add"
              /\ corePc[i] = "add"
          BY <1>0, <3>2 DEF CoreAdd, Counters, Types
        <4>2. n \in Outputs(i) /\ n \in Nat /\ n + 1 <= NumOutputs[i]
          BY <1>2, <1>3, Routers0
        <4>3. 0 .. n \in SUBSET Outputs(i) /\ n \in 0 .. n
              /\ (0 .. n) \ {n} = 0 .. (n - 1)
          BY <4>2, Routers0 DEF Outputs
        <4>4. s = toDest[i][n] + SumFunctionOnSet(toDest[i], 0 .. (n - 1))
          <5> DEFINE T == 0 .. n
          <5>1. IsFiniteSet(T)
            BY <4>2, FS_Interval
          <5>2. \A x \in Outputs(i) : toDest[i][x] \in Int
            BY <1>0 DEF Counters
          <5>3. T \in SUBSET Outputs(i) /\ n \in T /\ T \ {n} = 0 .. (n - 1)
            BY <4>3
          <5> HIDE DEF T, n
          <5>4. \A x \in T : toDest[i][x] \in Int
            BY <5>2, <5>3
          <5>5. SumFunctionOnSet(toDest[i], T) =
                  toDest[i][n] + SumFunctionOnSet(toDest[i], T \ {n})
            BY <5>1, <5>3, <5>4, SumTake
          <5>6. SumFunctionOnSet(toDest[i], T \ {n}) =
                  SumFunctionOnSet(toDest[i], 0 .. (n - 1))
            BY <5>3, Zenon
          <5> QED
            BY <5>5, <5>6 DEF T
        <4>5. routerToDest[i] <=
                SumFunctionOnSet(toDest[i], 0 .. (n - 1))
          BY <1>0, <4>1 DEF BelowSum
        <4>6. s \in Nat /\ s <= b[i] /\ toDest[i][n] \in Nat
              /\ SumFunctionOnSet(toDest[i], 0 .. (n - 1)) \in Nat
          BY <1>0, <1>1, <1>2, <4>2, <4>3 DEF Counters
        <4>7. routerToDest'[i] <= s
          BY <1>3, <4>1, <4>4, <4>5, <4>6
        <4>8. routerToDest'[i] <= b[i]
          BY <1>1, <1>3, <4>1, <4>6, <4>7
        <4>9. ASSUME corePc'[i] = "add"
              PROVE  0 .. (coreI'[i] - 1) = 0 .. n
          BY <4>1, <4>2, <4>9, Routers0
        <4>10. corePc'[i] = "add" =>
                 SumFunctionOnSet(toDest[i], 0 .. (coreI'[i] - 1)) = s
          BY <4>9, Zenon
        <4> QED
          BY <4>7, <4>8, <4>10
      <3> QED
        BY <1>11, <3>1, <3>2 DEF CoreStep
    <2>4. Delivered' = Delivered /\ ByRouter(toDest') = b
      BY <2>1 DEF Delivered, b
    <2>5. \A j \in Core :
            /\ routerToDest'[j] <= b[j]
            /\ corePc'[j] = "add" =>
                 routerToDest'[j] <=
                   SumFunctionOnSet(toDest[j], 0 .. (coreI'[j] - 1))
      BY <1>0, <2>2, <2>3 DEF BelowSum, b
    <2>6. \A j \in Core : toDest'[j] = toDest[j]
      BY <2>1
    <2>7. /\ Delivered' <= sent' /\ packetsProcessedToDest' <= Delivered'
          /\ mainPc' = "check" =>
               /\ mainI' >= 1
               /\ packetsProcessedToDest' <=
                    SumFunctionOnSet(ByRouter(toDest'), 1 .. (mainI' - 1))
      BY <1>0, <2>1, <2>4 DEF BelowSum, b
    <2> QED
      BY <2>1, <2>4, <2>5, <2>7 DEF BelowSum
  <1>12. ASSUME NEW i \in Core, NEW o \in Outputs(i), Deliver(i, o)
         PROVE  BelowSum'
    <2>1. UNCHANGED << coreI, routerToDest, corePc, packetsProcessedToDest,
                       mainPc, mainI, sent >> /\ Delivered < sent
      BY <1>12 DEF Deliver
    <2>2. /\ Delivered' = Delivered + 1
          /\ \A j \in Core : b[j] <= c[j]
          /\ \A j \in Core : \A T \in SUBSET Outputs(j) :
               SumFunctionOnSet(toDest[j], T) <= SumFunctionOnSet(toDest'[j], T)
          /\ \A T \in SUBSET Core :
               SumFunctionOnSet(b, T) <= SumFunctionOnSet(c, T)
      BY <1>12, DeliverCounts DEF b, c
    <2>3. /\ \A j \in Core : \A T \in SUBSET Outputs(j) :
               SumFunctionOnSet(toDest'[j], T) \in Nat
          /\ c \in [Core -> Nat]
          /\ \A T \in SUBSET Core : SumFunctionOnSet(c, T) \in Nat
      <3>1. \A j \in Core : toDest'[j] \in [Outputs(j) -> Nat]
        BY DEF Counters
      <3> QED
        BY <3>1, SumsAreNat DEF c
    <2>4. ASSUME NEW j \in Core
          PROVE  /\ routerToDest'[j] <= c[j]
                 /\ corePc'[j] = "add" =>
                      routerToDest'[j] <=
                        SumFunctionOnSet(toDest'[j], 0 .. (coreI'[j] - 1))
      <3>1. routerToDest[j] <= b[j] /\ b[j] \in Nat /\ c[j] \in Nat
        BY <1>0, <1>1, <2>3 DEF BelowSum, b
      <3>2. routerToDest'[j] <= c[j]
        BY <1>3, <2>1, <2>2, <3>1
      <3> DEFINE T == 0 .. (coreI[j] - 1)
      <3>3. T \in SUBSET Outputs(j)
        BY <1>2, <1>3
      <3>4. corePc[j] = "add" => routerToDest[j] <= SumFunctionOnSet(toDest[j], T)
        BY <1>0 DEF BelowSum
      <3> HIDE DEF T
      <3>5. /\ SumFunctionOnSet(toDest[j], T) <= SumFunctionOnSet(toDest'[j], T)
            /\ SumFunctionOnSet(toDest[j], T) \in Nat
            /\ SumFunctionOnSet(toDest'[j], T) \in Nat
        BY <1>1, <2>2, <2>3, <3>3
      <3>6. corePc[j] = "add" => routerToDest[j] <= SumFunctionOnSet(toDest'[j], T)
        BY <1>3, <3>4, <3>5
      <3> QED
        BY <2>1, <3>2, <3>6 DEF T
    <2>5. Delivered' <= sent' /\ packetsProcessedToDest' <= Delivered'
      BY <1>0, <1>1, <1>6, <2>1, <2>2 DEF BelowSum, Counters
    <2>6. ASSUME mainPc' = "check"
          PROVE  /\ mainI' >= 1
                 /\ packetsProcessedToDest' <=
                      SumFunctionOnSet(c, 1 .. (mainI' - 1))
      <3> DEFINE T == 1 .. (mainI - 1)
      <3>1. /\ mainI >= 1 /\ mainI \in 0 .. NumRouters
            /\ packetsProcessedToDest <= SumFunctionOnSet(b, T)
            /\ packetsProcessedToDest \in Nat
        BY <1>0, <2>1, <2>6 DEF BelowSum, Types, Counters, b
      <3>2. T \in SUBSET Core
        BY <3>1, Routers0, NumRoutersAssumption
      <3> HIDE DEF T
      <3>3. packetsProcessedToDest <= SumFunctionOnSet(c, T)
        BY <1>1, <2>2, <2>3, <3>1, <3>2
      <3> QED
        BY <2>1, <3>1, <3>3 DEF T
    <2> QED
      BY <2>4, <2>5, <2>6 DEF BelowSum, c
  <1>13. ASSUME UNCHANGED << toDest, routerToDest, coreI, corePc, sent >>,
                packetsProcessedToDest' <=
                  SumFunctionOnSet(b, 1 .. (mainI' - 1)),
                mainI' >= 1, 1 .. (mainI' - 1) \in SUBSET Core
         PROVE  BelowSum'
    <2>1. Delivered' = Delivered /\ ByRouter(toDest') = b
      BY <1>13 DEF Delivered, b
    <2>2. 1 .. (mainI' - 1) \in SUBSET Core
      BY <1>13
    <2>3. packetsProcessedToDest' <= Delivered'
      <3> DEFINE T == 1 .. (mainI' - 1)
      <3>1. SumFunctionOnSet(b, T) \in Nat /\ SumFunctionOnSet(b, T) <= Delivered
        BY <1>1, <2>2
      <3>2. packetsProcessedToDest' \in Nat
        BY DEF Counters
      <3> QED
        BY <1>1, <1>13, <2>1, <3>1, <3>2
    <2> QED
      BY <1>0, <1>13, <2>1, <2>3 DEF BelowSum, b
  <1>14. CASE CheckBegin
    <2>1. mainI' = 1 /\ packetsProcessedToDest' = 0
          /\ UNCHANGED << toDest, routerToDest, coreI, corePc, sent >>
      BY <1>14 DEF CheckBegin
    <2>2. 1 .. (mainI' - 1) \in SUBSET Core
      BY <2>1
    <2>3. packetsProcessedToDest' <= SumFunctionOnSet(b, 1 .. (mainI' - 1))
      BY <1>1, <2>1, <2>2
    <2> QED
      BY <1>13, <2>1, <2>2, <2>3
  <1>15. CASE CheckAdd
    <2> DEFINE n == mainI
    <2>1. /\ packetsProcessedToDest' = packetsProcessedToDest + routerToDest[n]
          /\ mainI' = n + 1 /\ n < NumRouters /\ mainPc = "check"
          /\ UNCHANGED << toDest, routerToDest, coreI, corePc, sent >>
      BY <1>15 DEF CheckAdd
    <2>2. /\ n >= 1 /\ n \in Nat
          /\ packetsProcessedToDest <= SumFunctionOnSet(b, 1 .. (n - 1))
      BY <1>0, <2>1, NumRoutersAssumption DEF BelowSum, Types, b
    <2>3. /\ n \in Core /\ 1 .. n \in SUBSET Core /\ n \in 1 .. n
          /\ (1 .. n) \ {n} = 1 .. (n - 1) /\ 1 .. (n - 1) \in SUBSET Core
          /\ 1 .. (mainI' - 1) = 1 .. n
      BY <2>1, <2>2, Routers0, NumRoutersAssumption
    <2>4. SumFunctionOnSet(b, 1 .. n) = b[n] + SumFunctionOnSet(b, 1 .. (n - 1))
      <3> DEFINE T == 1 .. n
      <3>1. IsFiniteSet(T) /\ T \in SUBSET Core /\ n \in T
            /\ T \ {n} = 1 .. (n - 1)
        BY <2>2, <2>3, FS_Interval
      <3> HIDE DEF T
      <3>2. \A x \in T : b[x] \in Int
        BY <1>1, <3>1
      <3>3. SumFunctionOnSet(b, T) = b[n] + SumFunctionOnSet(b, T \ {n})
        BY <3>1, <3>2, SumTake
      <3>4. SumFunctionOnSet(b, T \ {n}) = SumFunctionOnSet(b, 1 .. (n - 1))
        BY <3>1, Zenon
      <3> QED
        BY <3>3, <3>4 DEF T
    <2>5. routerToDest[n] <= b[n]
      BY <1>0, <2>3 DEF BelowSum, b
    <2>6. packetsProcessedToDest' <= SumFunctionOnSet(b, 1 .. n)
      <3>1. /\ SumFunctionOnSet(b, 1 .. (n - 1)) \in Nat /\ b[n] \in Nat
            /\ routerToDest[n] \in Nat /\ packetsProcessedToDest \in Nat
        BY <1>0, <1>1, <1>3, <2>3 DEF Counters
      <3> QED
        BY <2>1, <2>2, <2>4, <2>5, <3>1
    <2>7. SumFunctionOnSet(b, 1 .. n) = SumFunctionOnSet(b, 1 .. (mainI' - 1))
      BY <2>3, Zenon
    <2>8. mainI' >= 1 /\ 1 .. (mainI' - 1) \in SUBSET Core
      BY <2>1, <2>2, <2>3
    <2> QED
      BY <1>13, <2>1, <2>6, <2>7, <2>8
  <1> QED
    BY <1>5, <1>7, <1>8, <1>9, <1>10, <1>11, <1>12, <1>14, <1>15
    DEF Next, Handler

-----------------------------------------------------------------------------
(***************************************************************************)
(* Unless Stop is pressed, only checkStatus stops a router, and only on    *)
(* r0's total.                                                             *)
(***************************************************************************)
LEMMA UntouchedStep ==
  ASSUME Ind, [Next]_vars, Types'
  PROVE  Untouched'
  <1> USE DEF borderVars, coreVars, checkVars, mainVars, anaVars, countVars
  <1>0. Types /\ Filled /\ Counting /\ Untouched
    BY DEF Ind
  <1>1. CASE Stop
    <2>1. stops' # 0
      BY <1>0, <1>1 DEF Stop, Types
    <2> QED
      BY <2>1 DEF Untouched
  <1>2. ASSUME ~ Stop PROVE stops' = stops
    BY <1>2
    DEF Next, NotifyLost, Handler, BorderStep, BorderSend, OutNotify,
        BorderDone,
        BorderAnalyse, BorderSum, BorderEmit, CoreStep, CoreReset, CoreAdd,
        Deliver, Run, CheckBegin, Signal, CheckAdd, CheckMore, CheckDone,
        Halt, StopAnalyse, Finish, Halted, vars
  <1> SUFFICES ASSUME stops = 0, stops' = 0, ~ Stop
               PROVE  Untouched'
    BY <1>1, <1>2 DEF Untouched
  <1>3. /\ isborderRouterFinished =>
             borderPc = "end" /\ totalPacketsinNetwork = processedPackets
        /\ mainPc = "check" => timerOn
        /\ Halting \/ halted # {} =>
             /\ isborderRouterFinished
             /\ packetsProcessedToDest = totalPacketsinNetwork
             /\ ~ timerOn
        /\ Halting => mainI >= 1
        /\ ~ mixed
    BY <1>0 DEF Untouched
  <1>4. ASSUME UNCHANGED << isborderRouterFinished, totalPacketsinNetwork,
                            packetsProcessedToDest, timerOn, mainPc, mainI,
                            halted, mixed >>,
               isborderRouterFinished => UNCHANGED << borderPc, processedPackets >>
        PROVE  Untouched'
    BY <1>3, <1>4 DEF Untouched, Halting
  <1>5. CASE BorderSend \/ OutNotify \/ BorderDone \/ BorderSum \/ BorderEmit
    <2>1. UNCHANGED << isborderRouterFinished, totalPacketsinNetwork,
                       packetsProcessedToDest, timerOn, mainPc, mainI, halted,
                       mixed >>
      BY <1>5 DEF BorderSend, OutNotify, BorderDone, BorderSum, BorderEmit
    <2>2. isborderRouterFinished => UNCHANGED << borderPc, processedPackets >>
      BY <1>3, <1>5
      DEF BorderSend, OutNotify, BorderDone, BorderSum, BorderEmit
    <2> QED
      BY <1>4, <2>1, <2>2
  <1>6. CASE BorderAnalyse
    <2>1. ~ Halting
      BY <1>3, <1>6 DEF BorderAnalyse
    <2>2. UNCHANGED << isborderRouterFinished, totalPacketsinNetwork,
                       packetsProcessedToDest, timerOn, mainPc, mainI, halted >>
      BY <1>6 DEF BorderAnalyse
    <2>3. mixed' = mixed
      BY <1>0, <1>6, <2>1 DEF BorderAnalyse, Halting, Types
    <2>4. isborderRouterFinished => UNCHANGED << borderPc, processedPackets >>
      BY <1>3, <1>6 DEF BorderAnalyse
    <2> QED
      BY <1>4, <2>2, <2>3, <2>4
  <1>7. CASE \E i \in Core : CoreStep(i) \/ \E o \in Outputs(i) : Deliver(i, o)
    BY <1>4, <1>7 DEF CoreStep, CoreReset, CoreAdd, Deliver
  <1>8. CASE Run
    BY <1>3, <1>8 DEF Run, Untouched, Halting
  <1>9. CASE CheckBegin
    BY <1>3, <1>9 DEF CheckBegin, Untouched, Halting
  <1>10. CASE CheckAdd
    BY <1>3, <1>10 DEF CheckAdd, Untouched, Halting
  <1>11. CASE CheckMore
    BY <1>3, <1>11 DEF CheckMore, Untouched, Halting
  <1>12. CASE CheckDone
    BY <1>3, <1>12
    DEF CheckDone, FirstToStop, AllArrived, Untouched, Halting
  <1>13. CASE Halt
    BY <1>3, <1>13 DEF Halt, Untouched, Halting
  <1>14. CASE StopAnalyse
    <2>1. mainI # 0 /\ Halting
      BY <1>0, <1>3, <1>14 DEF StopAnalyse, Halting, Types
    <2>2. mixed' = mixed
      BY <1>0, <1>14, <2>1 DEF StopAnalyse, Types
    <2> QED
      BY <1>3, <1>14, <2>1, <2>2 DEF StopAnalyse, Untouched, Halting
  <1>15. CASE Finish
    <2>1. mainI # 0 /\ Halting /\ mainI >= 1 /\ mainI' = mainI + 1
      BY <1>0, <1>3, <1>15 DEF Finish, Halting, Types
    <2>2. UNCHANGED << borderPc, processedPackets >>
      BY <1>15, <2>1 DEF Finish, FinishBorder, FinishCore
    <2>3. isborderRouterFinished' = isborderRouterFinished
          /\ totalPacketsinNetwork' = totalPacketsinNetwork
      BY <1>0, <1>15, <2>1 DEF Finish, RFinished, Types
    <2>4. mainI' >= 1
      BY <1>0, <2>1 DEF Types
    <2>5. UNCHANGED << packetsProcessedToDest, timerOn, halted, mixed >>
          /\ mainPc' = "halt"
      BY <1>15 DEF Finish
    <2> QED
      BY <1>3, <2>1, <2>2, <2>3, <2>4, <2>5 DEF Untouched, Halting
  <1>16. CASE Halted
    BY <1>3, <1>16 DEF Halted, TimerStopped, Untouched, Halting
  <1>17. CASE Signal
    <2>1. borderPc = "end"
      BY <1>0, <1>17 DEF Signal, Counting, Types
    <2>2. /\ totalPacketsinNetwork' = processedPackets
          /\ isborderRouterFinished'
          /\ UNCHANGED << borderPc, processedPackets, packetsProcessedToDest,
                          timerOn, mainPc, mainI, halted, mixed >>
      BY <1>17 DEF Signal, RFinished
    <2> QED
      BY <1>3, <2>1, <2>2 DEF Untouched, Halting
  <1>18. CASE UNCHANGED vars \/ NotifyLost
    BY <1>4, <1>18 DEF vars, NotifyLost
  <1> QED
    BY <1>5, <1>6, <1>7, <1>8, <1>9, <1>10, <1>11, <1>12, <1>13, <1>14, <1>15,
       <1>16, <1>17, <1>18
    DEF Next, Handler, BorderStep

-----------------------------------------------------------------------------
LEMMA AppendInPlace ==
  ASSUME NEW s \in Seq(Nat), NEW q \in Nat
  PROVE  /\ Append(s, q) \in Seq(Nat) /\ Len(Append(s, q)) = Len(s) + 1
         /\ InPlace(s) /\ (Len(s) < NumQueues => q = Len(s) + 1)
              => InPlace(Append(s, q))
  <1>1. Append(s, q) \in Seq(Nat) /\ Len(Append(s, q)) = Len(s) + 1
        /\ Len(s) \in Nat /\ DOMAIN s = 1 .. Len(s)
        /\ DOMAIN Append(s, q) = 1 .. (Len(s) + 1)
    OBVIOUS
  <1>2. \A k \in 1 .. (Len(s) + 1) :
          Append(s, q)[k] = IF k = Len(s) + 1 THEN q ELSE s[k]
    OBVIOUS
  <1>3. ASSUME InPlace(s), Len(s) < NumQueues => q = Len(s) + 1
        PROVE  InPlace(Append(s, q))
    BY <1>1, <1>2, <1>3, NumQueuesAssumption DEF InPlace
  <1> QED
    BY <1>1, <1>3

(***************************************************************************)
(* Every step leaves the routers' figures in order.                        *)
(***************************************************************************)
LEMMA FilledStep ==
  ASSUME Ind, [Next]_vars, Types', Counters'
  PROVE  Filled'
  <1> USE DEF borderVars, coreVars, checkVars, mainVars, anaVars, countVars
  <1>0. /\ Types /\ Counters /\ Filled
        /\ NumQueues \in Nat /\ NumQueues >= 1 /\ NumRouters \in Nat
        /\ borderQ \in Nat /\ borderQ >= 1 /\ borderQ <= NumQueues
        /\ mainI \in Nat /\ mainQ \in Nat
    BY NumQueuesAssumption, NumRoutersAssumption DEF Ind, Types
  <1>1. \A i \in Routers : results[i] \in Seq(Nat) /\ Len(results[i]) \in Nat
    BY <1>0 DEF Counters
  <1>2. ASSUME UNCHANGED << results, mixed, mainPc, mainI, mainQ, borderQ >>,
               \/ borderPc' = borderPc
               \/ borderPc = "off" /\ borderPc' = "run"
               \/ borderPc = "run" /\ borderPc' = "analyse"
               \/ borderPc = "sum" /\ borderPc' = "emit"
               \/ borderPc = "emit" /\ borderPc' = "end"
        PROVE  Filled'
    <2>1. ByBorder' = ByBorder
      BY <1>0, <1>2 DEF ByBorder, Filled
    <2>2. \A i : ByMain(i)' = ByMain(i)
      BY <1>2 DEF ByMain
    <2> QED
      BY <1>0, <1>2, <2>1, <2>2, Routers0 DEF Filled
  <1>3. ASSUME UNCHANGED << results, mixed, borderPc, borderQ >>,
               mainPc \notin {"analyse", "finish"},
               mainPc' \notin {"analyse", "finish"}
        PROVE  Filled'
    <2>1. ByBorder' = ByBorder
      BY <1>3 DEF ByBorder
    <2>2. \A i : ByMain(i)' = ByMain(i)
      BY <1>3 DEF ByMain
    <2> QED
      BY <1>0, <1>3, <2>1, <2>2 DEF Filled
  <1>4. CASE BorderSend \/ OutNotify \/ BorderDone \/ BorderSum \/ BorderEmit
    BY <1>2, <1>4 DEF BorderSend, OutNotify, BorderDone, BorderSum, BorderEmit
  <1>5. CASE \E i \in Core : CoreStep(i) \/ \E o \in Outputs(i) : Deliver(i, o)
    BY <1>2, <1>5 DEF CoreStep, CoreReset, CoreAdd, Deliver
  <1>6. CASE Run
    BY <1>2, <1>6 DEF Run
  <1>7. CASE CheckBegin \/ CheckAdd \/ CheckMore \/ CheckDone
    BY <1>3, <1>7 DEF CheckBegin, CheckAdd, CheckMore, CheckDone
  <1>8. CASE Stop \/ Signal \/ Halted
    BY <1>2, <1>3, <1>8 DEF Stop, Signal, Halted
  <1>9. CASE Halt
    <2>1. /\ UNCHANGED << results, mixed, borderPc, borderQ, mainI >>
          /\ mainPc = "halt" /\ mainPc' = "analyse" /\ mainQ' = 1
          /\ mainI < NumRouters
      BY <1>9 DEF Halt
    <2>2. ByBorder' = ByBorder
      BY <2>1 DEF ByBorder
    <2>3. \A i : ByMain(i)' = ByMain(i)
      BY <2>1 DEF ByMain
    <2> QED
      BY <1>0, <2>1, <2>2, <2>3 DEF Filled
  <1>10. CASE Finish
    <2>1. /\ UNCHANGED << results, mixed, borderQ >>
          /\ mainPc = "finish" /\ mainPc' = "halt"
      BY <1>10 DEF Finish
    <2>2. \A i : ByMain(i)' = ByMain(i)
      BY <2>1 DEF ByMain
    <2>3. CASE borderPc' = borderPc
      <3>1. ByBorder' = ByBorder
        BY <2>1, <2>3 DEF ByBorder
      <3> QED
        BY <1>0, <2>1, <2>2, <2>3, <3>1 DEF Filled
    <2>4. CASE borderPc' = "killed" /\ mainI = 0
      <3>1. Len(results[0]) >= NumQueues
        BY <1>0, <2>1, <2>4 DEF Filled
      <3>2. ByBorder' = 0
        BY <2>4 DEF ByBorder
      <3>3. ~ (Len(results[0]) < NumQueues)
        BY <1>0, <1>1, <3>1, Routers0
      <3>4. Len(results[0]) >= 0
        BY <1>1, Routers0
      <3>5. ~ mixed' => InPlace(results[0])'
        BY <1>0, <2>1 DEF Filled, InPlace
      <3>6. \A i \in Core :
               /\ InPlace(results[i])'
               /\ Len(results[i])' < NumQueues => Len(results[i])' = ByMain(i)'
        BY <1>0, <2>1, <2>2 DEF Filled, InPlace
      <3>7. \A i \in Routers : Len(results[i])' >= ByMain(i)'
        BY <1>0, <2>1, <2>2 DEF Filled
      <3> QED
        BY <2>1, <2>4, <3>1, <3>2, <3>3, <3>4, <3>5, <3>6, <3>7 DEF Filled
    <2>5. borderPc' = borderPc \/ (borderPc' = "killed" /\ mainI = 0)
      BY <1>10 DEF Finish, FinishBorder, FinishCore
    <2> QED
      BY <2>3, <2>4, <2>5
  <1>11. CASE BorderAnalyse
    <2>1. /\ borderPc = "analyse" /\ UNCHANGED << mainPc, mainI, mainQ >>
          /\ results' = [results EXCEPT ![0] = Append(results[0], borderQ)]
          /\ mixed' = (mixed \/ (mainPc = "analyse" /\ mainI = 0))
          /\ borderQ' = (borderQ % NumQueues) + 1
          /\ borderPc' = IF borderQ = NumQueues THEN "sum" ELSE "analyse"
      BY <1>11 DEF BorderAnalyse, Analyse
    <2> DEFINE s == results[0]
    <2>2. /\ results'[0] = Append(s, borderQ)
          /\ \A i \in Core : results'[i] = results[i]
          /\ Len(results'[0]) = Len(s) + 1 /\ s \in Seq(Nat) /\ Len(s) \in Nat
      <3>1. results'[0] = Append(s, borderQ)
            /\ \A i \in Core : results'[i] = results[i]
        BY <1>0, <2>1, Routers0 DEF Counters
      <3>2. s \in Seq(Nat) /\ Len(s) \in Nat
        BY <1>1, Routers0
      <3> QED
        BY <1>0, <3>1, <3>2, AppendInPlace
    <2>3. \A i : ByMain(i)' = ByMain(i)
      BY <2>1 DEF ByMain
    <2>4. /\ ByBorder = borderQ - 1 /\ Len(s) >= borderQ - 1
          /\ Len(s) >= ByMain(0) /\ ByMain(0) \in Int
      BY <1>0, <2>1, Routers0 DEF ByBorder, Filled, ByMain
    <2>5. /\ borderQ = NumQueues =>
               ByBorder' = 0 /\ borderPc' = "sum" /\ Len(results'[0]) >= NumQueues
          /\ borderQ # NumQueues =>
               /\ ByBorder' = borderQ /\ borderPc' = "analyse"
               /\ Len(results'[0]) >= borderQ
      <3>1. borderQ # NumQueues => borderQ' = borderQ + 1
        BY <1>0, <2>1
      <3> QED
        BY <1>0, <2>1, <2>2, <2>4, <3>1 DEF ByBorder
    <2>6. /\ borderPc' \notin {"off", "run"} /\ Len(results'[0]) >= ByBorder'
          /\ borderPc' \in {"sum", "emit", "end", "killed"} =>
               Len(results'[0]) >= NumQueues
      BY <2>5, <1>0, <2>2
    <2>7. \A i \in Routers : Len(results'[i]) >= ByMain(i)'
      <3>1. Len(results'[0]) >= ByMain(0)'
        BY <2>2, <2>3, <2>4
      <3>2. \A i \in Core : Len(results'[i]) >= ByMain(i)'
        BY <1>0, <2>2, <2>3, Routers0 DEF Filled
      <3>3. \A i \in Routers : i = 0 \/ i \in Core
        BY DEF Core
      <3> QED
        BY <3>1, <3>2, <3>3
    <2>8. mainPc' = "finish" =>
            mainI' < NumRouters /\ Len(results'[mainI']) >= NumQueues
      <3> SUFFICES ASSUME mainPc = "finish"
                   PROVE  mainI < NumRouters /\ Len(results'[mainI]) >= NumQueues
        BY <2>1
      <3>1. mainI < NumRouters /\ Len(results[mainI]) >= NumQueues
        BY <1>0 DEF Filled
      <3>2. CASE mainI = 0
        BY <1>0, <2>2, <3>1, <3>2
      <3>3. CASE mainI # 0
        <4>1. mainI \in Core
          BY <1>0, <3>1, <3>3, Routers0
        <4> QED
          BY <2>2, <3>1, <4>1
      <3> QED
        BY <3>2, <3>3
    <2>9. ASSUME ~ mixed'
          PROVE  /\ InPlace(results'[0])
                 /\ Len(results'[0]) < NumQueues =>
                      Len(results'[0]) = ByBorder' + ByMain(0)'
      <3>1. ~ mixed /\ ByMain(0) = 0
        BY <2>1, <2>9 DEF ByMain
      <3>2. InPlace(s) /\ (Len(s) < NumQueues => Len(s) + 1 = borderQ)
        BY <1>0, <2>2, <2>4, <3>1 DEF Filled
      <3>3. InPlace(results'[0])
        BY <1>0, <2>2, <3>2, AppendInPlace
      <3>4. Len(results'[0]) < NumQueues => Len(results'[0]) = ByBorder'
        BY <1>0, <2>2, <2>5, <3>2
      <3>5. ByMain(0)' = 0 /\ ByBorder' \in Int
        BY <1>0, <2>3, <2>5, <3>1
      <3> QED
        BY <3>3, <3>4, <3>5
    <2>10. \A i \in Core :
             /\ InPlace(results'[i])
             /\ Len(results'[i]) < NumQueues => Len(results'[i]) = ByMain(i)'
      BY <1>0, <2>2, <2>3 DEF Filled
    <2>11. mainPc' = "analyse" => mainQ' \in 1 .. NumQueues /\ mainI' < NumRouters
      BY <1>0, <2>1 DEF Filled
    <2>12. /\ \A i \in Core : InPlace(results[i])' = InPlace(results'[i])
           /\ InPlace(results[0])' = InPlace(results'[0])
      BY DEF InPlace
    <2> QED
      BY <2>6, <2>7, <2>8, <2>9, <2>10, <2>11, <2>12 DEF Filled
  <1>12. CASE StopAnalyse
    <2>1. /\ mainPc = "analyse" /\ UNCHANGED << borderPc, borderQ, mainI >>
          /\ results' = [results EXCEPT ![mainI] = Append(results[mainI], mainQ)]
          /\ mixed' = (mixed \/ (mainI = 0 /\ borderPc = "analyse"))
          /\ mainQ' = mainQ + 1
          /\ mainPc' = IF mainQ = NumQueues THEN "finish" ELSE "analyse"
      BY <1>12 DEF StopAnalyse, Analyse
    <2>2. mainI < NumRouters /\ mainQ >= 1 /\ mainQ <= NumQueues
          /\ mainI \in Routers
      <3>1. mainI < NumRouters /\ mainQ \in 1 .. NumQueues
        BY <1>0, <2>1 DEF Filled
      <3>2. mainI \in Routers
        BY <1>0, <3>1 DEF Routers
      <3> QED
        BY <1>0, <3>1, <3>2
    <2>0. PICK m \in Routers : m = mainI
      BY <2>2
    <2> DEFINE s == results[mainI]
    <2>3. /\ results'[mainI] = Append(s, mainQ)
          /\ \A i \in Routers : i # mainI => results'[i] = results[i]
          /\ Len(results'[mainI]) = Len(s) + 1
          /\ s \in Seq(Nat) /\ Len(s) \in Nat
      <3>1. /\ results'[mainI] = Append(s, mainQ)
            /\ \A i \in Routers : i # mainI => results'[i] = results[i]
        BY <1>0, <2>1, <2>2 DEF Counters
      <3>2. s \in Seq(Nat) /\ Len(s) \in Nat
        BY <1>1, <2>2
      <3> QED
        BY <1>0, <3>1, <3>2, AppendInPlace
    <2>4. /\ ByBorder' = ByBorder
          /\ ByMain(mainI) = mainQ - 1
          /\ \A i : i # mainI => ByMain(i) = 0 /\ ByMain(i)' = 0
      BY <2>1 DEF ByBorder, ByMain
    <2>5. Len(s) >= mainQ - 1
      BY <1>0, <2>2, <2>4 DEF Filled
    <2>6. /\ mainQ = NumQueues =>
               ByMain(m)' = 0 /\ mainPc' = "finish"
               /\ Len(results'[mainI]) >= NumQueues
          /\ mainQ # NumQueues =>
               ByMain(m)' = mainQ /\ mainPc' = "analyse"
               /\ Len(results'[mainI]) >= mainQ
      BY <1>0, <2>0, <2>1, <2>2, <2>3, <2>5 DEF ByMain
    <2>7. mainPc' = "analyse" => mainQ' \in 1 .. NumQueues /\ mainI' < NumRouters
      BY <1>0, <2>1, <2>2
    <2>8. mainPc' = "finish" =>
            mainI' < NumRouters /\ Len(results'[mainI']) >= NumQueues
      BY <2>1, <2>2, <2>6
    <2>9. \A i \in Routers : Len(results'[i]) >= Len(results[i])
      <3>1. Len(results'[mainI]) >= Len(results[mainI])
        BY <2>3
      <3>2. \A i \in Routers : i # mainI => Len(results'[i]) >= Len(results[i])
        BY <1>1, <2>3
      <3> QED
        BY <3>1, <3>2
    <2>10. \A i \in Routers : Len(results'[i]) >= ByMain(i)'
      <3> SUFFICES ASSUME NEW i \in Routers PROVE Len(results'[i]) >= ByMain(i)'
        OBVIOUS
      <3>1. CASE i = mainI
        BY <1>0, <2>0, <2>3, <2>6, <3>1
      <3>2. CASE i # mainI
        BY <1>1, <2>3, <2>4, <3>2
      <3> QED
        BY <3>1, <3>2
    <2>11. /\ borderPc' \in {"off", "run"} => borderQ' = 1
           /\ Len(results'[0]) >= ByBorder'
           /\ borderPc' \in {"sum", "emit", "end", "killed"} =>
                Len(results'[0]) >= NumQueues
      <3>1. Len(results'[0]) \in Nat /\ Len(results[0]) \in Nat
            /\ Len(results'[0]) >= Len(results[0])
        BY <1>1, <2>9, Routers0 DEF Counters
      <3>2. ByBorder \in Int /\ Len(results[0]) >= ByBorder
        BY <1>0 DEF ByBorder, Filled
      <3>3. Len(results'[0]) >= ByBorder'
        BY <2>4, <3>1, <3>2
      <3>4. borderPc \in {"sum", "emit", "end", "killed"} =>
              Len(results[0]) >= NumQueues
        BY <1>0 DEF Filled
      <3>5. borderPc \in {"off", "run"} => borderQ = 1
        BY <1>0 DEF Filled
      <3> QED
        BY <1>0, <2>1, <3>1, <3>3, <3>4, <3>5
    <2>12. ASSUME mainI = 0 => ~ mixed'
           PROVE  /\ InPlace(results'[mainI])
                  /\ Len(results'[mainI]) < NumQueues =>
                       /\ Len(results'[mainI]) = ByMain(m)'
                       /\ mainI = 0 => ByBorder' = 0
      <3>1. mainI # 0 => mainI \in Core
        BY <2>2 DEF Core
      <3>2. mainI = 0 => ~ mixed /\ ByBorder = 0
        BY <2>1, <2>12 DEF ByBorder
      <3>3. InPlace(s) /\ (Len(s) < NumQueues => Len(s) + 1 = mainQ)
        <4>1. CASE mainI = 0
          BY <1>0, <2>2, <2>3, <2>4, <3>2, <4>1 DEF Filled
        <4>2. CASE mainI # 0
          BY <1>0, <2>2, <2>3, <2>4, <3>1, <4>2 DEF Filled
        <4> QED
          BY <4>1, <4>2
      <3>4. InPlace(results'[mainI])
        BY <1>0, <2>3, <3>3, AppendInPlace
      <3>5. Len(results'[mainI]) < NumQueues =>
              Len(results'[mainI]) = ByMain(m)'
        BY <1>0, <2>2, <2>3, <2>6, <3>3
      <3> QED
        BY <2>4, <3>2, <3>4, <3>5
    <2>13. \A i \in Core :
             /\ InPlace(results'[i])
             /\ Len(results'[i]) < NumQueues => Len(results'[i]) = ByMain(i)'
      <3> SUFFICES ASSUME NEW i \in Core
                   PROVE  /\ InPlace(results'[i])
                          /\ Len(results'[i]) < NumQueues =>
                               Len(results'[i]) = ByMain(i)'
        OBVIOUS
      <3>1. CASE i = mainI
        <4>1. mainI # 0
          BY <3>1 DEF Core
        <4> QED
          BY <2>0, <2>12, <3>1, <4>1
      <3>2. CASE i # mainI
        <4>1. results'[i] = results[i] /\ ByMain(i)' = ByMain(i)
          BY <2>3, <2>4, <3>2, Routers0
        <4>2. /\ InPlace(results[i])
              /\ Len(results[i]) < NumQueues => Len(results[i]) = ByMain(i)
          BY <1>0 DEF Filled
        <4> QED
          BY <4>1, <4>2
      <3> QED
        BY <3>1, <3>2
    <2>14. ASSUME ~ mixed'
           PROVE  /\ InPlace(results'[0])
                  /\ Len(results'[0]) < NumQueues =>
                       Len(results'[0]) = ByBorder' + ByMain(0)'
      <3>1. CASE mainI = 0
        <4>1. ByMain(0)' \in Int
          BY <1>0, <2>0, <2>6, <3>1
        <4>2. ByMain(0)' = ByMain(m)'
          BY <2>0, <3>1
        <4>3. ByBorder' = 0 \/ ~ (Len(results'[0]) < NumQueues)
          BY <2>12, <2>14, <3>1
        <4> QED
          BY <2>12, <2>14, <3>1, <4>1, <4>2, <4>3
      <3>2. CASE mainI # 0
        <4>1. ~ mixed /\ results'[0] = results[0]
          BY <2>1, <2>3, <2>14, <3>2, Routers0
        <4>2. ByMain(0) = 0 /\ ByMain(0)' = 0
          BY <2>4, <3>2
        <4> QED
          BY <1>0, <2>4, <4>1, <4>2 DEF Filled
      <3> QED
        BY <3>1, <3>2
    <2>15. /\ \A i \in Core : InPlace(results[i])' = InPlace(results'[i])
           /\ InPlace(results[0])' = InPlace(results'[0])
      BY DEF InPlace
    <2> QED
      BY <2>7, <2>8, <2>10, <2>11, <2>13, <2>14, <2>15 DEF Filled
  <1>13. CASE UNCHANGED vars \/ NotifyLost
    BY <1>2, <1>13 DEF vars, NotifyLost
  <1> QED
    BY <1>4, <1>5, <1>6, <1>7, <1>8, <1>9, <1>10, <1>11, <1>12, <1>13
    DEF Next, Handler, BorderStep

-----------------------------------------------------------------------------
(***************************************************************************)
(* Every step keeps rCounter in step with the routers that were stopped.   *)
(***************************************************************************)
LEMMA CountingStep ==
  ASSUME Ind, [Next]_vars, Types'
  PROVE  Counting'
  <1> USE DEF borderVars, coreVars, checkVars, mainVars, anaVars, countVars
  <1>0. /\ Types /\ Counters /\ Filled /\ Counting
        /\ NumRouters \in Nat /\ NumRouters > 1
        /\ mainI \in Nat /\ rCounter \in Nat /\ signals \in Nat /\ stops \in Nat
        /\ \A i \in Core : i \in Nat /\ i >= 1
    <2>1. Types /\ Counters /\ Filled /\ Counting
      BY DEF Ind
    <2>2. NumRouters \in Nat /\ NumRouters > 1
      BY NumRoutersAssumption
    <2>3. mainI \in Nat /\ rCounter \in Nat /\ signals \in Nat /\ stops \in Nat
      BY ONLY <2>1, <2>2 DEF Types
    <2>4. \A i \in Core : i \in Nat /\ i >= 1
      BY ONLY <2>2 DEF Core, Routers
    <2> QED
      BY <2>1, <2>2, <2>3, <2>4
  <1>1. ASSUME UNCHANGED << signals, rCounter, mainPc, mainI, results,
                            isborderRouterFinished, stops >>,
               \/ borderPc' = borderPc
               \/ borderPc \notin {"end", "killed"} /\ borderPc' # "end"
        PROVE  Counting'
    BY <1>0, <1>1 DEF Counting, Halting
  <1>2. CASE BorderSend \/ OutNotify \/ BorderDone \/ BorderSum
    BY <1>1, <1>2 DEF BorderSend, OutNotify, BorderDone, BorderSum
  <1>3. CASE BorderAnalyse
    <2>1. /\ UNCHANGED << signals, rCounter, mainPc, mainI,
                          isborderRouterFinished, stops >>
          /\ results' = [results EXCEPT ![0] = Append(results[0], borderQ)]
          /\ borderPc \notin {"end", "killed"} /\ borderPc' # "end"
      BY <1>3 DEF BorderAnalyse, Analyse
    <2>2. \A i \in Core : results'[i] = results[i]
      BY <1>0, <2>1, Routers0 DEF Counters
    <2> QED
      BY <1>0, <2>1, <2>2 DEF Counting, Halting
  <1>4. CASE BorderEmit
    <2>1. /\ UNCHANGED << rCounter, mainPc, mainI, results,
                          isborderRouterFinished, stops >>
          /\ borderPc = "emit" /\ borderPc' = "end" /\ signals' = signals + 1
      BY <1>4 DEF BorderEmit
    <2> QED
      BY <1>0, <2>1 DEF Counting, Halting
  <1>5. CASE \E i \in Core : CoreStep(i) \/ \E o \in Outputs(i) : Deliver(i, o)
    BY <1>1, <1>5 DEF CoreStep, CoreReset, CoreAdd, Deliver
  <1>6. CASE Run
    BY <1>1, <1>6 DEF Run
  <1>7. CASE CheckBegin \/ CheckAdd \/ CheckMore
    <2>1. /\ ~ Halting /\ ~ Halting'
          /\ UNCHANGED << signals, rCounter, results, isborderRouterFinished,
                          borderPc, stops >>
      BY <1>7 DEF CheckBegin, CheckAdd, CheckMore, Halting
    <2> QED
      BY <1>0, <2>1 DEF Counting
  <1>8. CASE CheckDone
    <2>1. /\ ~ Halting /\ Halting' /\ mainI' = 1 /\ isborderRouterFinished
          /\ UNCHANGED << signals, rCounter, results, borderPc, stops >>
      BY <1>8 DEF CheckDone, Halting, FirstToStop, AllArrived
    <2>2. rCounter < NumRouters =>
            /\ rCounter = 1 /\ borderPc = "end"
            /\ \A i \in Core : results[i] = << >>
      BY <1>0, <2>1 DEF Counting
    <2>3. \A i \in Core : ~ (i < 1)
      BY <1>0
    <2> QED
      BY <1>0, <2>1, <2>2, <2>3 DEF Counting
  <1>9. CASE Stop
    <2>1. /\ ~ Halting /\ Halting' /\ mainI' = 0 /\ stops' = stops + 1
          /\ UNCHANGED << signals, rCounter, results, borderPc >>
      BY <1>9 DEF Stop, Halting
    <2>2. rCounter < NumRouters =>
            rCounter \in {0, 1} /\ \A i \in Core : results[i] = << >>
      BY <1>0, <2>1 DEF Counting
    <2>3. 0 \notin Core /\ \A i \in Core : ~ (i < 0)
      BY <1>0
    <2> QED
      BY <1>0, <2>1, <2>2, <2>3 DEF Counting
  <1>10. CASE Halt
    <2>1. /\ Halting /\ Halting' /\ mainPc' = "analyse"
          /\ UNCHANGED << signals, rCounter, results, borderPc, mainI, stops >>
      BY <1>10 DEF Halt, Halting
    <2> QED
      BY <1>0, <2>1 DEF Counting
  <1>11. CASE StopAnalyse
    <2>1. /\ Halting /\ Halting' /\ mainPc' # "halt"
          /\ results' = [results EXCEPT ![mainI] = Append(results[mainI], mainQ)]
          /\ UNCHANGED << signals, rCounter, borderPc, mainI, stops >>
      BY <1>11 DEF StopAnalyse, Analyse, Halting
    <2>2. \A i \in Core : i # mainI => results'[i] = results[i]
      BY <1>0, <2>1, Routers0 DEF Counters
    <2>3. \A i \in Core : i < mainI \/ i > mainI => i # mainI
      BY <1>0
    <2> QED
      BY <1>0, <2>1, <2>2, <2>3 DEF Counting
  <1>12. CASE Finish
    <2>1. /\ Halting /\ Halting' /\ mainPc = "finish" /\ mainPc' = "halt"
          /\ mainI' = mainI + 1 /\ rCounter' = rCounter + 1
          /\ UNCHANGED << signals, results, stops >>
          /\ \/ mainI = 0 /\ borderPc' = IF borderPc = "end" THEN "end" ELSE "killed"
             \/ mainI # 0 /\ borderPc' = borderPc
      BY <1>12
      DEF Finish, FinishBorder, FinishCore, RFinished, Halting, Core
    <2>2. borderPc' # "end" => signals' = 0
      BY <1>0, <2>1 DEF Counting
    <2>3. Len(results[mainI]) >= NumQueues
      BY <1>0, <2>1 DEF Filled
    <2> SUFFICES ASSUME rCounter' < NumRouters
                 PROVE  /\ rCounter' \in {mainI', mainI' + 1}
                        /\ stops' = 0 => rCounter' = mainI'
                        /\ mainI' >= 1 => borderPc' \in {"end", "killed"}
                        /\ \A i \in Core :
                             /\ i < mainI' => Len(results[i]) >= NumQueues
                             /\ i > mainI' => results[i] = << >>
                        /\ mainI' \in Core => results[mainI'] = << >>
      BY <2>1, <2>2 DEF Counting
    <2>4. /\ rCounter \in {mainI, mainI + 1}
          /\ stops = 0 => rCounter = mainI
          /\ mainI >= 1 => borderPc \in {"end", "killed"}
          /\ \A i \in Core : /\ i < mainI => Len(results[i]) >= NumQueues
                             /\ i > mainI => results[i] = << >>
      BY <1>0, <2>1 DEF Counting
    <2>5. borderPc' \in {"end", "killed"}
      BY <1>0, <2>1, <2>4
    <2>6. \A i \in Core :
            i < mainI' => i < mainI \/ i = mainI
      BY <1>0, <2>1
    <2>7. \A i \in Core : i > mainI' => i > mainI
      BY <1>0, <2>1
    <2>8. \A i \in Core : /\ i < mainI' => Len(results[i]) >= NumQueues
                          /\ i > mainI' => results[i] = << >>
      BY <2>3, <2>4, <2>6, <2>7
    <2>9. mainI' \in Core => results[mainI'] = << >>
      BY <1>0, <2>1, <2>4
    <2> QED
      BY <1>0, <2>1, <2>4, <2>5, <2>8, <2>9
  <1>13. CASE Halted
    <2>1. /\ Halting /\ mainI = NumRouters
          /\ UNCHANGED << signals, rCounter, borderPc >>
      BY <1>13 DEF Halted, Halting
    <2>2. ~ (rCounter < NumRouters)
      BY <1>0, <2>1 DEF Counting
    <2> QED
      BY <1>0, <2>1, <2>2 DEF Counting
  <1>14. CASE Signal
    <2>1. /\ ~ Halting /\ ~ Halting'
          /\ signals > 0 /\ signals' = signals - 1 /\ rCounter' = rCounter + 1
          /\ isborderRouterFinished'
          /\ UNCHANGED << results, borderPc, stops >>
      BY <1>14 DEF Signal, RFinished, Halting
    <2>2. borderPc = "end"
      BY <1>0, <2>1 DEF Counting
    <2>3. rCounter < NumRouters =>
            /\ rCounter = 0 /\ signals = 1
            /\ \A i \in Core : results[i] = << >>
      BY <1>0, <2>1 DEF Counting
    <2>4. rCounter' < NumRouters => rCounter < NumRouters
      BY <1>0, <2>1
    <2> QED
      BY <1>0, <2>1, <2>2, <2>3, <2>4 DEF Counting
  <1>15. CASE UNCHANGED vars \/ NotifyLost
    BY <1>1, <1>15 DEF vars, NotifyLost
  <1> QED
    BY <1>2, <1>3, <1>4, <1>5, <1>6, <1>7, <1>8, <1>9, <1>10, <1>11, <1>12,
       <1>13, <1>14, <1>15
    DEF Next, Handler, BorderStep

-----------------------------------------------------------------------------
(***************************************************************************)
(* What is printed of a router: nothing if it has no figures, and every    *)
(* queue's at its place, if it has them all and they are.                  *)
(***************************************************************************)
LEMMA WhatIsPrinted ==
  ASSUME Counters, NEW i \in Routers
  PROVE  /\ results[i] = << >> => Figures[i] = << >>
         /\ InPlace(results[i]) /\ Len(results[i]) >= NumQueues
              => Figures[i] = Whole
  <1> DEFINE s == results[i]
             m == Min({NumQueues, Len(s)})
  <1>1. s \in Seq(Nat) /\ Len(s) \in Nat /\ Figures[i] = SubSeq(s, 1, m)
    <2>1. Figures[i] = SubSeq(s, 1, m)
      BY DEF Figures
    <2>2. s \in Seq(Nat) /\ Len(s) \in Nat
      BY DEF Counters
    <2> QED
      BY <2>1, <2>2
  <1>2. NumQueues \in Nat /\ NumQueues >= 1
    BY NumQueuesAssumption
  <1>3. m = IF Len(s) >= NumQueues THEN NumQueues ELSE Len(s)
    <2> DEFINE least == IF Len(s) >= NumQueues THEN NumQueues ELSE Len(s)
    <2>1. /\ least \in {NumQueues, Len(s)}
          /\ \A x \in {NumQueues, Len(s)} : least <= x
          /\ \A x \in {NumQueues, Len(s)} : x <= least => x = least
      BY <1>1, <1>2
    <2> QED
      BY <2>1 DEF Min
  <1> HIDE DEF m, s
  <1>4. ASSUME s = << >> PROVE Figures[i] = << >>
    <2>1. m = 0
      BY <1>2, <1>3, <1>4
    <2> QED
      BY <1>1, <1>4, <2>1
  <1>5. ASSUME InPlace(s), Len(s) >= NumQueues PROVE Figures[i] = Whole
    <2>1. m = NumQueues
      BY <1>3, <1>5
    <2>2. \A k \in 1 .. NumQueues : s[k] = k
      BY <1>1, <1>2, <1>5 DEF InPlace
    <2>3. /\ SubSeq(s, 1, NumQueues) \in Seq(Nat)
          /\ Len(SubSeq(s, 1, NumQueues)) = NumQueues
          /\ \A k \in 1 .. NumQueues : SubSeq(s, 1, NumQueues)[k] = s[k]
      BY <1>1, <1>2, <1>5
    <2>4. SubSeq(s, 1, NumQueues) = [k \in 1 .. NumQueues |-> k]
      BY <1>2, <2>2, <2>3
    <2> QED
      BY <1>1, <2>1, <2>4 DEF Whole
  <1> QED
    BY <1>4, <1>5 DEF s

(***************************************************************************)
(* The analysis is printed once, by the last router or the last but one.   *)
(***************************************************************************)
LEMMA PrintingStep ==
  ASSUME Ind, [Next]_vars, Types'
  PROVE  Printing'
  <1> USE DEF borderVars, coreVars, checkVars, mainVars, anaVars, countVars
  <1>0. /\ Types /\ Counters /\ Filled /\ Counting /\ Untouched /\ Printing
        /\ NumRouters \in Nat /\ NumRouters > 1
        /\ mainI \in Nat /\ rCounter \in Nat /\ signals \in Nat /\ stops \in Nat
        /\ \A i \in Core : i \in Nat /\ i >= 1 /\ i < NumRouters
        /\ \A i \in Routers : i = 0 \/ i \in Core
    <2>1. Types /\ Counters /\ Filled /\ Counting /\ Untouched /\ Printing
      BY DEF Ind
    <2>2. NumRouters \in Nat /\ NumRouters > 1
      BY NumRoutersAssumption
    <2>3. mainI \in Nat /\ rCounter \in Nat /\ signals \in Nat /\ stops \in Nat
      BY ONLY <2>1, <2>2 DEF Types
    <2>4. /\ \A i \in Core : i \in Nat /\ i >= 1 /\ i < NumRouters
          /\ \A i \in Routers : i = 0 \/ i \in Core
      BY ONLY <2>2 DEF Core, Routers
    <2> QED
      BY <2>1, <2>2, <2>3, <2>4
  <1>1. ASSUME ~ Finish, ~ Signal
        PROVE  UNCHANGED << printed, rCounter >>
    BY <1>1
    DEF Next, NotifyLost, Handler, BorderStep, BorderSend, OutNotify,
        BorderDone,
        BorderAnalyse, BorderSum, BorderEmit, CoreStep, CoreReset, CoreAdd,
        Deliver, Run, CheckBegin, Stop, CheckAdd, CheckMore, CheckDone,
        Halt, StopAnalyse, Halted, vars
  <1>2. (stops' = 0 => stops = 0) /\ (mixed => mixed')
    <2>1. CASE Stop
      BY <1>0, <2>1 DEF Stop
    <2>2. CASE BorderAnalyse \/ StopAnalyse
      BY <2>2 DEF BorderAnalyse, StopAnalyse
    <2>3. CASE ~ (Stop \/ BorderAnalyse \/ StopAnalyse)
      BY <2>3
      DEF Next, NotifyLost, Handler, BorderStep, BorderSend, OutNotify,
          BorderDone,
          BorderSum, BorderEmit, CoreStep, CoreReset, CoreAdd, Deliver, Run,
          CheckBegin, Signal, CheckAdd, CheckMore, CheckDone, Halt, Finish,
          Halted, vars
    <2> QED
      BY <2>1, <2>2, <2>3
  <1>3. ASSUME printed' = printed, rCounter' >= rCounter
        PROVE  Printing'
    <2>1. rCounter' \in Nat
      BY DEF Types
    <2>2. rCounter' < NumRouters => rCounter < NumRouters
      BY <1>0, <1>3, <2>1
    <2>3. PrintsAll'
      BY <1>0, <1>2, <1>3 DEF Printing, PrintsAll, Whole
    <2>4. StopSpoilsLittle'
      BY <1>0, <1>2, <1>3 DEF Printing, StopSpoilsLittle, Whole
    <2> QED
      BY <1>0, <1>3, <2>2, <2>3, <2>4 DEF Printing
  <1>4. CASE ~ Finish /\ ~ Signal
    BY <1>0, <1>1, <1>3, <1>4
  <1>5. CASE Signal
    <2>1. /\ signals > 0 /\ ~ Halting /\ rCounter' = rCounter + 1
          /\ printed' = IF rCounter + 1 = NumRouters
                        THEN Append(printed, Figures) ELSE printed
      BY <1>5 DEF Signal, RFinished, LastSignal, Halting
    <2>2. rCounter < NumRouters => rCounter = 0
      BY <1>0, <2>1 DEF Counting
    <2>3. printed' = printed /\ rCounter' >= rCounter
      BY <1>0, <2>1, <2>2
    <2> QED
      BY <1>3, <2>3
  <1>6. CASE Finish /\ rCounter + 1 # NumRouters
    <2>1. printed' = printed /\ rCounter' = rCounter + 1
      BY <1>6 DEF Finish, RFinished, LastSignal
    <2> QED
      BY <1>0, <1>3, <2>1
  <1>7. CASE Finish /\ rCounter + 1 = NumRouters
    <2>1. /\ Halting /\ mainPc = "finish" /\ rCounter < NumRouters
          /\ printed' = Append(printed, Figures) /\ rCounter' = NumRouters
          /\ UNCHANGED << stops, mixed >>
      BY <1>0, <1>7 DEF Finish, RFinished, LastSignal, Halting
    <2>2. /\ rCounter \in {mainI, mainI + 1}
          /\ stops = 0 => rCounter = mainI
          /\ mainI >= 1 => borderPc \in {"end", "killed"}
          /\ \A i \in Core : /\ i < mainI => Len(results[i]) >= NumQueues
                             /\ i > mainI => results[i] = << >>
      BY <1>0, <2>1 DEF Counting
    <2>3. /\ Len(results[mainI]) >= NumQueues
          /\ borderPc \in {"end", "killed"} => Len(results[0]) >= NumQueues
          /\ \A i \in Core : InPlace(results[i])
          /\ ~ mixed => InPlace(results[0])
      BY <1>0, <2>1 DEF Filled
    <2>4. mixed \/ Figures[0] = Whole
      <3>1. Len(results[0]) >= NumQueues
        <4>1. mainI = 0 \/ mainI >= 1
          BY <1>0
        <4> QED
          BY <2>2, <2>3, <4>1
      <3> QED
        BY <1>0, <2>3, <3>1, WhatIsPrinted, Routers0
    <2>5. \A i \in Core : i <= mainI => Figures[i] = Whole
      <3> SUFFICES ASSUME NEW i \in Core, i <= mainI
                   PROVE  Figures[i] = Whole
        OBVIOUS
      <3>1. i < mainI \/ i = mainI
        BY <1>0
      <3>2. Len(results[i]) >= NumQueues
        BY <2>2, <2>3, <3>1
      <3> QED
        BY <1>0, <2>3, <3>2, WhatIsPrinted, Routers0
    <2>6. \A i \in Core : i > mainI =>
            i = NumRouters - 1 /\ Figures[i] = << >> /\ stops # 0
      <3> SUFFICES ASSUME NEW i \in Core, i > mainI
                   PROVE  /\ i = NumRouters - 1 /\ Figures[i] = << >>
                          /\ stops # 0
        OBVIOUS
      <3>1. results[i] = << >>
        BY <2>2
      <3>2. i = NumRouters - 1 /\ stops # 0
        BY <1>0, <1>7, <2>2
      <3> QED
        BY <1>0, <3>1, <3>2, WhatIsPrinted, Routers0
    <2>7. printed' = << Figures >>
      BY <1>0, <2>1 DEF Printing
    <2>8. \A i \in Core : i <= mainI \/ i > mainI
      BY <1>0
    <2>9. StopSpoilsLittle'
      <3>1. /\ Len(printed') = 1 /\ DOMAIN printed' = {1}
            /\ printed'[1] = Figures
        BY <2>7
      <3>2. \A i \in Routers :
              \/ Figures[i] = Whole
              \/ i = NumRouters - 1 /\ Figures[i] = << >>
              \/ i = 0 /\ mixed
        BY <1>0, <2>4, <2>5, <2>6, <2>8
      <3> QED
        BY <2>1, <3>1, <3>2 DEF StopSpoilsLittle, Whole
    <2>10. PrintsAll'
      <3> SUFFICES ASSUME stops = 0
                   PROVE  printed' = << [i \in Routers |-> Whole] >>
        BY <2>1 DEF PrintsAll, Whole
      <3>1. ~ mixed
        BY <1>0 DEF Untouched
      <3>2. \A i \in Routers : Figures[i] = Whole
        BY <1>0, <2>4, <2>5, <2>6, <2>8, <3>1
      <3>3. Figures = [i \in Routers |-> Whole]
        BY <3>2 DEF Figures
      <3> QED
        BY <2>7, <3>3
    <2>11. ~ (rCounter' < NumRouters)
      BY <1>0, <2>1
    <2> QED
      BY <2>9, <2>10, <2>11 DEF Printing
  <1> QED
    BY <1>4, <1>5, <1>6, <1>7

-----------------------------------------------------------------------------
LEMMA IndStep == Ind /\ [Next]_vars => Ind'
  <1> SUFFICES ASSUME Ind, [Next]_vars PROVE Ind'
    OBVIOUS
  <1>1. Types'
    BY TypesStep
  <1>2. Counters'
    BY CountersStep
  <1> QED
    BY <1>1, <1>2, BelowSumStep, UntouchedStep, FilledStep, CountingStep,
       PrintingStep DEF Ind

LEMMA IndHolds == Spec => []Ind
  BY IndInit, IndStep, PTL DEF Spec

(***************************************************************************)
(* The sum checkStatus compares (network.cpp) never exceeds the number of  *)
(* packets delivered, whatever the routers' threads are doing to the       *)
(* numbers it reads.                                                       *)
(***************************************************************************)
THEOREM ReadsAreNeverTooMuch == Spec => []SumNeverExceeds
  <1>1. Ind => SumNeverExceeds
    BY DEF Ind, BelowSum, SumNeverExceeds
  <1> QED
    BY <1>1, IndHolds, PTL

(***************************************************************************)
(* If r0's total is exact and Stop is not pressed, no router is stopped    *)
(* while a packet is on its way.                                           *)
(***************************************************************************)
THEOREM NoRouterStopsEarly == Spec => []NeverStopsEarly
  <1>1. Ind => NeverStopsEarly
    <2> SUFFICES ASSUME Ind, stops = 0, halted # {}, processedPackets = Total
                 PROVE  Delivered = Total
      BY DEF NeverStopsEarly
    <2>1. packetsProcessedToDest = Total
      BY DEF Ind, Untouched
    <2>2. Delivered \in Nat
      <3>1. \A i \in Core : toDest[i] \in [Outputs(i) -> Nat]
        BY DEF Ind, Counters
      <3> QED
        BY <3>1, SumsAreNat, DeliveredIsSum
    <2>3. /\ Total <= Delivered /\ Delivered <= sent
          /\ sent \in Nat /\ sent <= Total
      BY <2>1, TotalAssumption DEF Ind, BelowSum, Types
    <2> QED
      BY <2>2, <2>3, TotalAssumption
  <1> QED
    BY <1>1, IndHolds, PTL

(***************************************************************************)
(* Unless Stop is pressed, the analysis is printed at most once, and whole.*)
(***************************************************************************)
THEOREM AnalysisIsWhole == Spec => []PrintsAll
  <1>1. Ind => PrintsAll
    BY DEF Ind, Printing
  <1> QED
    BY <1>1, IndHolds, PTL

(***************************************************************************)
(* However often Stop is pressed, and whenever, the analysis is printed at *)
(* most once, and only the figures of r0, and of the last router, may not  *)
(* be what they should.                                                    *)
(***************************************************************************)
THEOREM StopDoesLittleHarm == Spec => []StopSpoilsLittle
  <1>1. Ind => StopSpoilsLittle
    BY DEF Ind, Printing
  <1> QED
    BY <1>1, IndHolds, PTL
=============================================================================
