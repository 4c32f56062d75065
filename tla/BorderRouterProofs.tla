------------------------- MODULE BorderRouterProofs -------------------------
(***************************************************************************)
(* Theorems about the border router, for any number of input and output    *)
(* adaptors and any packets in the input queues, and for every interleaving*)
(* of the threads, racing notify calls included.                           *)
(***************************************************************************)
EXTENDS BorderRouter, OperatorTheorems, SequenceTheorems

LEMMA InputsFinite ==
  /\ IsFiniteSet(Inputs) /\ Cardinality(Inputs) = NumInputs
  /\ NumInputs \in Nat \ {0} /\ Inputs \subseteq Nat /\ 0 \in Inputs
  BY FS_Interval, NumInputsAssumption DEF Inputs

LEMMA OutputsFinite ==
  /\ IsFiniteSet(Outputs) /\ Cardinality(Outputs) = NumOutputs
  /\ NumOutputs \in Nat \ {0} /\ Outputs \subseteq Nat /\ 0 \in Outputs
  BY FS_Interval, NumOutputsAssumption DEF Outputs

(***************************************************************************)
(* The router's loop index: it stays in the array it goes through, and is  *)
(* back at 0 when the loop has been left.                                  *)
(***************************************************************************)
LEMMA NextIndex ==
  ASSUME NEW n \in Nat \ {0}, NEW i \in 0 .. (n - 1)
  PROVE  /\ i + 1 # n => (i + 1) % n = i + 1 /\ i + 1 \in 0 .. (n - 1)
         /\ i + 1 = n => (i + 1) % n = 0
  OBVIOUS

LEMMA UpdateType ==
  ASSUME NEW S, NEW T, NEW f \in [S -> T], NEW x, NEW v \in T
  PROVE  [f EXCEPT ![x] = v] \in [S -> T]
  OBVIOUS

-----------------------------------------------------------------------------
(***************************************************************************)
(* Types.                                                                  *)
(***************************************************************************)
InpPcs    == {"off", "loop", "end"} \cup InpNotifyPcs
OutPcs    == {"off", "read", "compare", "end"} \cup OutNotifyPcs
RouterPcs == {"startInp", "awaitInp", "startOut", "clear", "add", "look",
              "analyse", "end"}

InputTypes ==
  /\ inpPc \in [Inputs -> InpPcs]
  /\ inpQueue \in [Inputs -> Seq(Outputs)]
  /\ countReg \in [Inputs -> Nat]
  /\ totalReg \in [Inputs -> Nat]
  /\ nInpCount \in Nat
  /\ totalInputPackets \in Nat
  /\ allInpPacketsProcessed \in BOOLEAN

OutputTypes ==
  /\ outPc \in [Outputs -> OutPcs]
  /\ offered \in [Outputs -> Nat]
  /\ counted \in [Outputs -> Nat]
  /\ unsampled \in [Outputs -> Nat]
  /\ processed \in [Outputs -> Nat]
  /\ outReg \in [Outputs -> Nat]
  /\ nOutCount \in Nat
  /\ allOutPacketsProcessed \in BOOLEAN

RouterTypes ==
  /\ routerPc \in RouterPcs
  /\ routerI \in CASE routerPc = "startInp" -> Inputs
                   [] routerPc \in {"startOut", "add"} -> Outputs
                   [] OTHER -> {0}
  /\ raced \in BOOLEAN

Types == InputTypes /\ OutputTypes /\ RouterTypes

LEMMA LoadLengths ==
  \A i \in Inputs : Loads[i] \in Seq(Outputs) /\ Len(Loads[i]) \in Nat
  BY LoadsAssumption, LenProperties

LEMMA TypesInit == Init => Types
  <1> SUFFICES ASSUME Init PROVE Types
    OBVIOUS
  <1> USE DEF Init
  <1>1. InputTypes
    BY LoadsAssumption DEF InputTypes, InpPcs
  <1>2. OutputTypes
    BY DEF OutputTypes, OutPcs
  <1>3. RouterTypes
    BY InputsFinite DEF RouterTypes, RouterPcs
  <1> QED
    BY <1>1, <1>2, <1>3 DEF Types

LEMMA CountsAreNat ==
  /\ num_input_packets \in [Inputs -> Nat]
  /\ \A i \in Inputs : num_input_packets[i] \in Nat
  BY CountsAssumption

LEMMA TypesInput ==
  ASSUME Types, NEW i \in Inputs, InputStep(i)
  PROVE  Types'
  <1>1. RouterTypes'
    <2>1. UNCHANGED << routerPc, routerI >> /\ raced' \in BOOLEAN
      BY DEF InputStep, InpForward, InpLoadCount, InpStoreCount, InpLoadTotal,
             InpStoreTotal, InpTest, routerVars, Types, RouterTypes
    <2> QED
      BY <2>1 DEF Types, RouterTypes
  <1>2. OutputTypes /\ InputTypes
    BY DEF Types
  <1>3. CASE InpForward(i)
    <2>1. Head(inpQueue[i]) \in Outputs /\ Tail(inpQueue[i]) \in Seq(Outputs)
      BY <1>2, <1>3, HeadTailProperties DEF InpForward, InputTypes
    <2>2. inpQueue' \in [Inputs -> Seq(Outputs)]
      BY <1>2, <1>3, <2>1 DEF InpForward, InputTypes
    <2>3. offered' \in [Outputs -> Nat]
      <3> DEFINE h == Head(inpQueue[i])
      <3>1. offered \in [Outputs -> Nat] /\ h \in Outputs
        BY <1>2, <2>1 DEF OutputTypes
      <3>2. offered' = [offered EXCEPT ![h] = offered[h] + 1]
        BY <1>3, <3>1 DEF InpForward
      <3> HIDE DEF h
      <3> QED
        BY <3>1, <3>2, UpdateType
    <2> QED
      BY <1>1, <1>2, <1>3, <2>2, <2>3
      DEF InpForward, InputTypes, OutputTypes, Types, notifyVars
  <1>4. ASSUME UNCHANGED << inpQueue, outVars, nOutCount >>,
               inpPc' \in [Inputs -> InpPcs],
               countReg' \in [Inputs -> Nat], totalReg' \in [Inputs -> Nat],
               nInpCount' \in Nat, totalInputPackets' \in Nat,
               allInpPacketsProcessed' \in BOOLEAN,
               UNCHANGED allOutPacketsProcessed
        PROVE  Types'
    BY <1>1, <1>2, <1>4 DEF InputTypes, OutputTypes, Types, outVars
  <1> USE DEF InputTypes, InpPcs, InpNotifyPcs, InpGoto, notifyVars
  <1>5. CASE InpLoadCount(i)
    BY <1>2, <1>4, <1>5 DEF InpLoadCount
  <1>6. CASE InpStoreCount(i)
    BY <1>2, <1>4, <1>6 DEF InpStoreCount
  <1>7. CASE InpLoadTotal(i)
    BY <1>2, <1>4, <1>7 DEF InpLoadTotal
  <1>8. CASE InpStoreTotal(i)
    BY <1>2, <1>4, <1>8, CountsAreNat DEF InpStoreTotal
  <1>9. CASE InpTest(i)
    BY <1>2, <1>4, <1>9 DEF InpTest
  <1> QED
    BY <1>3, <1>5, <1>6, <1>7, <1>8, <1>9 DEF InputStep

LEMMA TypesOutput ==
  ASSUME Types, NEW o \in Outputs, OutputStep(o) \/ OutCount(o) \/ OutSample(o)
  PROVE  Types'
  <1>1. RouterTypes'
    <2>1. UNCHANGED << routerPc, routerI >> /\ raced' \in BOOLEAN
      BY DEF OutputStep, OutCount, OutSample, OutRead, OutAgain, OutLoadCount,
             OutStoreCount, OutTest, routerVars, Types, RouterTypes
    <2> QED
      BY <2>1 DEF Types, RouterTypes
  <1>2. OutputTypes /\ InputTypes
    BY DEF Types
  <1>3. ASSUME UNCHANGED << inpVars, nInpCount, totalInputPackets,
                            allInpPacketsProcessed, offered >>,
               outPc' \in [Outputs -> OutPcs],
               counted' \in [Outputs -> Nat], unsampled' \in [Outputs -> Nat],
               processed' \in [Outputs -> Nat], outReg' \in [Outputs -> Nat],
               nOutCount' \in Nat, allOutPacketsProcessed' \in BOOLEAN
        PROVE  Types'
    BY <1>1, <1>2, <1>3 DEF InputTypes, OutputTypes, Types, inpVars
  <1> USE DEF OutputTypes, OutPcs, OutNotifyPcs, OutGoto, notifyVars
  <1>4. CASE OutCount(o)
    <2>1. counted' \in [Outputs -> Nat] /\ unsampled' \in [Outputs -> Nat]
      BY <1>2, <1>4 DEF OutCount
    <2> QED
      BY <1>2, <1>3, <1>4, <2>1 DEF OutCount
  <1>5. CASE OutSample(o)
    BY <1>2, <1>3, <1>5 DEF OutSample
  <1>6. CASE OutRead(o)
    BY <1>2, <1>3, <1>6 DEF OutRead
  <1>7. CASE OutAgain(o)
    BY <1>2, <1>3, <1>7 DEF OutAgain
  <1>8. CASE OutLoadCount(o)
    BY <1>2, <1>3, <1>8 DEF OutLoadCount
  <1>9. CASE OutStoreCount(o)
    BY <1>2, <1>3, <1>9 DEF OutStoreCount
  <1>10. CASE OutTest(o)
    BY <1>2, <1>3, <1>10 DEF OutTest
  <1> QED
    BY <1>4, <1>5, <1>6, <1>7, <1>8, <1>9, <1>10 DEF OutputStep

LEMMA TypesRouter ==
  ASSUME Types, RouterStep
  PROVE  Types'
  <1> USE DEF Types, RouterTypes, RouterPcs
  <1>1. CASE StartInput
    <2>1. routerI \in Inputs /\ inpPc' \in [Inputs -> InpPcs]
      BY <1>1 DEF StartInput, InpGoto, InputTypes, InpPcs
    <2>2. RouterTypes'
      BY <1>1, <2>1, NextIndex, NumInputsAssumption DEF StartInput, Inputs
    <2> QED
      BY <1>1, <2>1, <2>2
      DEF StartInput, InputTypes, OutputTypes, outVars, notifyVars
  <1>2. CASE StartOutput
    <2>1. routerI \in Outputs /\ outPc' \in [Outputs -> OutPcs]
      BY <1>2 DEF StartOutput, OutGoto, OutputTypes, OutPcs
    <2>2. RouterTypes'
      BY <1>2, <2>1, NextIndex, NumOutputsAssumption DEF StartOutput, Outputs
    <2> QED
      BY <1>2, <2>1, <2>2
      DEF StartOutput, InputTypes, OutputTypes, inpVars, notifyVars
  <1>3. CASE AddTotal
    <2>1. routerI \in Outputs
      BY <1>3 DEF AddTotal
    <2>2. RouterTypes'
      BY <1>3, <2>1, NextIndex, NumOutputsAssumption DEF AddTotal, Outputs
    <2> QED
      BY <1>3, <2>2
      DEF AddTotal, InputTypes, OutputTypes, inpVars, outVars, notifyVars
  <1>4. CASE SeeInputs \/ ClearTotal \/ LookAgain \/ LookDone
             \/ PerformAnalysis
    <2>1. RouterTypes'
      BY <1>4, OutputsFinite
      DEF SeeInputs, ClearTotal, LookAgain, LookDone, PerformAnalysis
    <2> QED
      BY <1>4, <2>1
      DEF SeeInputs, ClearTotal, LookAgain, LookDone, PerformAnalysis,
          InputTypes, OutputTypes, inpVars, outVars, notifyVars
  <1> QED
    BY <1>1, <1>2, <1>3, <1>4 DEF RouterStep

LEMMA TypesStep == Types /\ [Next]_vars => Types'
  <1> SUFFICES ASSUME Types, [Next]_vars PROVE Types'
    OBVIOUS
  <1>1. CASE UNCHANGED vars
    BY <1>1
    DEF vars, inpVars, outVars, notifyVars, routerVars, Types, InputTypes,
        OutputTypes, RouterTypes
  <1> QED
    BY <1>1, TypesInput, TypesOutput, TypesRouter DEF Next

-----------------------------------------------------------------------------
(***************************************************************************)
(* Counting notifications.  Additions to nInpCount and nOutCount may be    *)
(* lost, never invented: each counter, and every value a notify call has   *)
(* loaded or is about to compare, is bounded by the number of adaptors past*)
(* their store.                                                            *)
(***************************************************************************)
InpCounted == {i \in Inputs :
                 inpPc[i] \in {"loadTotal", "storeTotal", "test", "end"}}
OutCounted == {o \in Outputs : outPc[o] \in {"testCount", "end"}}

InpCounting ==
  /\ nInpCount <= Cardinality(InpCounted)
  /\ \A i \in Inputs :
       /\ inpPc[i] = "storeCount" => countReg[i] <= Cardinality(InpCounted)
       /\ inpPc[i] \in {"loadTotal", "storeTotal", "test"}
            => countReg[i] + 1 <= Cardinality(InpCounted)
  /\ allInpPacketsProcessed => InpCounted = Inputs

OutCounting ==
  /\ nOutCount <= Cardinality(OutCounted)
  /\ \A o \in Outputs :
       /\ outPc[o] = "storeCount" => outReg[o] <= Cardinality(OutCounted)
       /\ outPc[o] = "testCount" => outReg[o] + 1 <= Cardinality(OutCounted)
  /\ allOutPacketsProcessed => OutCounted = Outputs

(***************************************************************************)
(* The phases of a run: an input adaptor notifies with an empty queue, the *)
(* output side is off until the router has seen every input notify, an     *)
(* output adaptor notifies when it has sent everything, and the router     *)
(* analyses when every output has notified.                                *)
(***************************************************************************)
Phases ==
  /\ \A i \in Inputs :
       inpPc[i] \in InpNotifyPcs \cup {"end"} => inpQueue[i] = << >>
  /\ IF routerPc \in {"startInp", "awaitInp"}
     THEN \A o \in Outputs : outPc[o] = "off"
     ELSE allInpPacketsProcessed
  /\ routerPc = "startInp" =>
       \A i \in Inputs : i >= routerI => inpPc[i] = "off"
  /\ routerPc = "startOut" =>
       \A o \in Outputs : o >= routerI => outPc[o] = "off"
  /\ \A o \in Outputs :
       /\ counted[o] <= offered[o]
       /\ outPc[o] \in OutNotifyPcs \cup {"end"} => counted[o] = offered[o]
  /\ routerPc \in {"analyse", "end"} => allOutPacketsProcessed

(***************************************************************************)
(* Every packet of the inputs is in its queue or has been offered.         *)
(***************************************************************************)
Waiting == [i \in Inputs |-> Len(inpQueue[i])]

Forwarded == SumFunction(offered) + SumFunction(Waiting) = TotalLoad

(***************************************************************************)
(* Without a race only one input adaptor is in inpNotify at a time, and the*)
(* total is that of the adaptors that have added their counts to it.       *)
(***************************************************************************)
Added == {i \in Inputs : inpPc[i] \in {"test", "end"}}

ExactTotal ==
  ~ raced =>
    /\ \A i, j \in Inputs :
         inpPc[i] \in InpNotifyPcs /\ inpPc[j] \in InpNotifyPcs => i = j
    /\ totalInputPackets = SumFunctionOnSet(num_input_packets, Added)
    /\ \A i \in Inputs :
         inpPc[i] = "storeTotal" => totalReg[i] = totalInputPackets
    /\ allInpPacketsProcessed => Added = Inputs

(***************************************************************************)
(* The samples a pop task has still to take are those of one burst.        *)
(***************************************************************************)
Sampling ==
  /\ \A o \in Outputs : unsampled[o] <= MaxBurst
  /\ routerPc = "end" =>
       \A o \in Outputs : offered[o] - analysed[o] \in 0 .. MaxBurst

-----------------------------------------------------------------------------
LEMMA InpCountedFinite ==
  /\ IsFiniteSet(InpCounted) /\ Cardinality(InpCounted) \in Nat
  /\ Cardinality(InpCounted) <= NumInputs
  /\ Cardinality(InpCounted) = NumInputs => InpCounted = Inputs
  <1>1. InpCounted \in SUBSET Inputs
    BY DEF InpCounted
  <1> QED
    BY <1>1, InputsFinite, FS_Subset, FS_CardinalityType

LEMMA OutCountedFinite ==
  /\ IsFiniteSet(OutCounted) /\ Cardinality(OutCounted) \in Nat
  /\ Cardinality(OutCounted) <= NumOutputs
  /\ Cardinality(OutCounted) = NumOutputs => OutCounted = Outputs
  <1>1. OutCounted \in SUBSET Outputs
    BY DEF OutCounted
  <1> QED
    BY <1>1, OutputsFinite, FS_Subset, FS_CardinalityType

LEMMA CountingInit == Init => InpCounting /\ OutCounting
  <1> SUFFICES ASSUME Init PROVE InpCounting /\ OutCounting
    OBVIOUS
  <1>1. InpCounted = {} /\ OutCounted = {}
    BY DEF Init, InpCounted, OutCounted
  <1>2. Cardinality(InpCounted) = 0 /\ Cardinality(OutCounted) = 0
    BY <1>1, FS_EmptySet
  <1> QED
    BY <1>2 DEF Init, InpCounting, OutCounting

LEMMA InpCountingInput ==
  ASSUME Types, InpCounting, NEW i \in Inputs, InputStep(i)
  PROVE  InpCounting'
  <1>1. /\ inpPc \in [Inputs -> InpPcs] /\ countReg \in [Inputs -> Nat]
        /\ nInpCount \in Nat
    BY DEF Types, InputTypes
  <1>2. CASE InpForward(i)
    <2>1. UNCHANGED << inpPc, countReg, nInpCount, allInpPacketsProcessed >>
      BY <1>2 DEF InpForward, notifyVars
    <2> QED
      BY <2>1 DEF InpCounting, InpCounted
  <1>3. CASE InpLoadCount(i)
    <2>1. /\ inpPc[i] = "loop" /\ inpPc' = [inpPc EXCEPT ![i] = "storeCount"]
          /\ countReg' = [countReg EXCEPT ![i] = nInpCount]
          /\ UNCHANGED << nInpCount, allInpPacketsProcessed >>
      BY <1>3 DEF InpLoadCount, InpGoto, notifyVars
    <2>2. InpCounted' = InpCounted
      BY <1>1, <2>1 DEF InpCounted
    <2> QED
      BY <1>1, <2>1, <2>2 DEF InpCounting
  <1>4. CASE InpStoreCount(i)
    <2>1. /\ inpPc[i] = "storeCount"
          /\ inpPc' = [inpPc EXCEPT ![i] = "loadTotal"]
          /\ nInpCount' = countReg[i] + 1
          /\ UNCHANGED << countReg, allInpPacketsProcessed >>
      BY <1>4 DEF InpStoreCount, InpGoto
    <2>2. InpCounted' = InpCounted \cup {i} /\ i \notin InpCounted
      BY <1>1, <2>1 DEF InpCounted
    <2>3. Cardinality(InpCounted)' = Cardinality(InpCounted) + 1
      BY <2>2, InpCountedFinite, FS_AddElement
    <2>4. countReg[i] <= Cardinality(InpCounted) /\ ~ allInpPacketsProcessed
      BY <2>1, <2>2 DEF InpCounting
    <2>5. \A j \in Inputs :
            /\ inpPc'[j] = "storeCount" =>
                 countReg'[j] <= Cardinality(InpCounted)'
            /\ inpPc'[j] \in {"loadTotal", "storeTotal", "test"}
                 => countReg'[j] + 1 <= Cardinality(InpCounted)'
      <3> TAKE j \in Inputs
      <3>1. CASE j = i
        BY <1>1, <2>1, <2>3, <2>4, <3>1, InpCountedFinite
      <3>2. CASE j # i
        <4>1. inpPc'[j] = inpPc[j] /\ countReg'[j] = countReg[j]
              /\ countReg[j] \in Nat
          BY <1>1, <2>1, <3>2
        <4> QED
          BY <4>1, <2>3, InpCountedFinite DEF InpCounting
      <3> QED
        BY <3>1, <3>2
    <2>6. nInpCount' <= Cardinality(InpCounted)'
      BY <1>1, <2>1, <2>3, <2>4, InpCountedFinite
    <2> QED
      BY <2>1, <2>4, <2>5, <2>6 DEF InpCounting
  <1>5. CASE InpLoadTotal(i) \/ InpStoreTotal(i)
    <2>1. /\ \/ /\ inpPc[i] = "loadTotal"
                /\ inpPc' = [inpPc EXCEPT ![i] = "storeTotal"]
             \/ /\ inpPc[i] = "storeTotal"
                /\ inpPc' = [inpPc EXCEPT ![i] = "test"]
          /\ UNCHANGED << countReg, nInpCount, allInpPacketsProcessed >>
      BY <1>5 DEF InpLoadTotal, InpStoreTotal, InpGoto, notifyVars
    <2>2. InpCounted' = InpCounted
      BY <1>1, <2>1 DEF InpCounted
    <2> QED
      BY <1>1, <2>1, <2>2 DEF InpCounting
  <1>6. CASE InpTest(i)
    <2>1. /\ inpPc[i] = "test" /\ inpPc' = [inpPc EXCEPT ![i] = "end"]
          /\ UNCHANGED << countReg, nInpCount >>
      BY <1>6 DEF InpTest, InpGoto
    <2>2. InpCounted' = InpCounted
      BY <1>1, <2>1 DEF InpCounted
    <2>3. PICK seen \in {nInpCount, countReg[i] + 1} :
            allInpPacketsProcessed' =
              (allInpPacketsProcessed \/ seen = NumInputs)
      BY <1>6 DEF InpTest
    <2>4. seen \in Nat /\ seen <= Cardinality(InpCounted)
      BY <1>1, <2>1, <2>3 DEF InpCounting
    <2>5. seen = NumInputs => InpCounted = Inputs
      BY <2>4, InpCountedFinite, InputsFinite
    <2>6. allInpPacketsProcessed' => InpCounted' = Inputs
      BY <2>2, <2>3, <2>5 DEF InpCounting
    <2>7. \A j \in Inputs :
            /\ inpPc'[j] = "storeCount" =>
                 countReg'[j] <= Cardinality(InpCounted)'
            /\ inpPc'[j] \in {"loadTotal", "storeTotal", "test"}
                 => countReg'[j] + 1 <= Cardinality(InpCounted)'
      BY <1>1, <2>1, <2>2 DEF InpCounting
    <2> QED
      BY <2>1, <2>2, <2>6, <2>7 DEF InpCounting
  <1> QED
    BY <1>2, <1>3, <1>4, <1>5, <1>6 DEF InputStep

LEMMA InpCountingStep ==
  ASSUME Types, Phases, InpCounting, [Next]_vars
  PROVE  InpCounting'
  <1>1. CASE UNCHANGED << inpPc, countReg, nInpCount, allInpPacketsProcessed >>
    BY <1>1 DEF InpCounting, InpCounted
  <1>2. CASE StartInput
    <2>1. /\ routerI \in Inputs /\ inpPc \in [Inputs -> InpPcs]
          /\ routerPc = "startInp" /\ inpPc' = [inpPc EXCEPT ![routerI] = "loop"]
          /\ UNCHANGED << countReg, nInpCount, allInpPacketsProcessed >>
      BY <1>2
      DEF StartInput, InpGoto, Types, InputTypes, RouterTypes, notifyVars
    <2>2. inpPc[routerI] = "off"
      BY <2>1, InputsFinite DEF Phases
    <2>3. InpCounted' = InpCounted
      BY <2>1, <2>2 DEF InpCounted
    <2> QED
      BY <2>1, <2>3 DEF InpCounting
  <1>3. CASE RouterStep /\ ~ StartInput
    BY <1>1, <1>3
    DEF RouterStep, SeeInputs, StartOutput, ClearTotal, AddTotal, LookAgain,
        LookDone, PerformAnalysis, inpVars, notifyVars
  <1>4. CASE \E o \in Outputs : OutputStep(o) \/ OutCount(o) \/ OutSample(o)
    BY <1>1, <1>4
    DEF OutputStep, OutRead, OutAgain, OutLoadCount, OutStoreCount, OutTest,
        OutCount, OutSample, inpVars, notifyVars
  <1>5. CASE UNCHANGED vars
    BY <1>1, <1>5 DEF vars, inpVars, notifyVars
  <1> QED
    BY <1>2, <1>3, <1>4, <1>5, InpCountingInput DEF Next

LEMMA OutCountingOutput ==
  ASSUME Types, OutCounting, NEW o \in Outputs, OutputStep(o)
  PROVE  OutCounting'
  <1>1. /\ outPc \in [Outputs -> OutPcs] /\ outReg \in [Outputs -> Nat]
        /\ nOutCount \in Nat
    BY DEF Types, OutputTypes
  <1>2. CASE OutRead(o) \/ OutAgain(o)
    <2>1. /\ outPc[o] \in {"read", "compare"}
          /\ \E pc \in {"read", "compare"} : outPc' = [outPc EXCEPT ![o] = pc]
          /\ UNCHANGED << outReg, nOutCount, allOutPacketsProcessed >>
      BY <1>2 DEF OutRead, OutAgain, OutGoto, notifyVars
    <2>2. OutCounted' = OutCounted
      BY <1>1, <2>1 DEF OutCounted
    <2> QED
      BY <1>1, <2>1, <2>2 DEF OutCounting
  <1>3. CASE OutLoadCount(o)
    <2>1. /\ outPc[o] = "compare" /\ outPc' = [outPc EXCEPT ![o] = "storeCount"]
          /\ outReg' = [outReg EXCEPT ![o] = nOutCount]
          /\ UNCHANGED << nOutCount, allOutPacketsProcessed >>
      BY <1>3 DEF OutLoadCount, OutGoto, notifyVars
    <2>2. OutCounted' = OutCounted
      BY <1>1, <2>1 DEF OutCounted
    <2> QED
      BY <1>1, <2>1, <2>2 DEF OutCounting
  <1>4. CASE OutStoreCount(o)
    <2>1. /\ outPc[o] = "storeCount"
          /\ outPc' = [outPc EXCEPT ![o] = "testCount"]
          /\ nOutCount' = outReg[o] + 1
          /\ UNCHANGED << outReg, allOutPacketsProcessed >>
      BY <1>4 DEF OutStoreCount, OutGoto
    <2>2. OutCounted' = OutCounted \cup {o} /\ o \notin OutCounted
      BY <1>1, <2>1 DEF OutCounted
    <2>3. Cardinality(OutCounted)' = Cardinality(OutCounted) + 1
      BY <2>2, OutCountedFinite, FS_AddElement
    <2>4. outReg[o] <= Cardinality(OutCounted) /\ ~ allOutPacketsProcessed
      BY <2>1, <2>2 DEF OutCounting
    <2>5. \A p \in Outputs :
            /\ outPc'[p] = "storeCount" =>
                 outReg'[p] <= Cardinality(OutCounted)'
            /\ outPc'[p] = "testCount" =>
                 outReg'[p] + 1 <= Cardinality(OutCounted)'
      <3> TAKE p \in Outputs
      <3>1. CASE p = o
        BY <1>1, <2>1, <2>3, <2>4, <3>1, OutCountedFinite
      <3>2. CASE p # o
        <4>1. outPc'[p] = outPc[p] /\ outReg'[p] = outReg[p]
              /\ outReg[p] \in Nat
          BY <1>1, <2>1, <3>2
        <4> QED
          BY <4>1, <2>3, OutCountedFinite DEF OutCounting
      <3> QED
        BY <3>1, <3>2
    <2>6. nOutCount' <= Cardinality(OutCounted)'
      BY <1>1, <2>1, <2>3, <2>4, OutCountedFinite
    <2> QED
      BY <2>1, <2>4, <2>5, <2>6 DEF OutCounting
  <1>5. CASE OutTest(o)
    <2>1. /\ outPc[o] = "testCount" /\ outPc' = [outPc EXCEPT ![o] = "end"]
          /\ UNCHANGED << outReg, nOutCount >>
      BY <1>5 DEF OutTest, OutGoto
    <2>2. OutCounted' = OutCounted
      BY <1>1, <2>1 DEF OutCounted
    <2>3. PICK seen \in {nOutCount, outReg[o] + 1} :
            allOutPacketsProcessed' =
              (allOutPacketsProcessed \/ AllNotified(seen))
      BY <1>5 DEF OutTest
    <2>4. seen \in Nat /\ seen <= Cardinality(OutCounted)
      BY <1>1, <2>1, <2>3 DEF OutCounting
    <2>5. seen = NumOutputs => OutCounted = Outputs
      BY <2>4, OutCountedFinite, OutputsFinite
    <2>6. allOutPacketsProcessed' => OutCounted' = Outputs
      BY <2>2, <2>3, <2>5 DEF OutCounting, AllNotified
    <2>7. \A p \in Outputs :
            /\ outPc'[p] = "storeCount" =>
                 outReg'[p] <= Cardinality(OutCounted)'
            /\ outPc'[p] = "testCount" =>
                 outReg'[p] + 1 <= Cardinality(OutCounted)'
      BY <1>1, <2>1, <2>2 DEF OutCounting
    <2> QED
      BY <2>1, <2>2, <2>6, <2>7 DEF OutCounting
  <1> QED
    BY <1>2, <1>3, <1>4, <1>5 DEF OutputStep

LEMMA OutCountingStep ==
  ASSUME Types, Phases, OutCounting, [Next]_vars
  PROVE  OutCounting'
  <1>1. CASE UNCHANGED << outPc, outReg, nOutCount, allOutPacketsProcessed >>
    BY <1>1 DEF OutCounting, OutCounted
  <1>2. CASE StartOutput
    <2>1. /\ routerI \in Outputs /\ outPc \in [Outputs -> OutPcs]
          /\ routerPc = "startOut" /\ outPc' = [outPc EXCEPT ![routerI] = "read"]
          /\ UNCHANGED << outReg, nOutCount, allOutPacketsProcessed >>
      BY <1>2
      DEF StartOutput, OutGoto, Types, OutputTypes, RouterTypes, notifyVars
    <2>2. outPc[routerI] = "off"
      BY <2>1, OutputsFinite DEF Phases
    <2>3. OutCounted' = OutCounted
      BY <2>1, <2>2 DEF OutCounted
    <2> QED
      BY <2>1, <2>3 DEF OutCounting
  <1>3. CASE RouterStep /\ ~ StartOutput
    BY <1>1, <1>3
    DEF RouterStep, SeeInputs, StartInput, ClearTotal, AddTotal, LookAgain,
        LookDone, PerformAnalysis, outVars, notifyVars
  <1>4. CASE \E o \in Outputs : OutCount(o) \/ OutSample(o)
    BY <1>1, <1>4 DEF OutCount, OutSample, notifyVars
  <1>5. CASE \E i \in Inputs : InputStep(i)
    BY <1>1, <1>5
    DEF InputStep, InpForward, InpLoadCount, InpStoreCount, InpLoadTotal,
        InpStoreTotal, InpTest, outVars, notifyVars
  <1>6. CASE UNCHANGED vars
    BY <1>1, <1>6 DEF vars, outVars, notifyVars
  <1> QED
    BY <1>2, <1>3, <1>4, <1>5, <1>6, OutCountingOutput DEF Next

-----------------------------------------------------------------------------
LEMMA PhasesInit == Init => Phases
  BY InputsFinite DEF Init, Phases, InpNotifyPcs, OutNotifyPcs

LEMMA PhasesInput ==
  ASSUME Types, InpCounting, Phases, NEW i \in Inputs, InputStep(i)
  PROVE  Phases'
  <1>1. /\ inpPc \in [Inputs -> InpPcs] /\ inpQueue \in [Inputs -> Seq(Outputs)]
        /\ offered \in [Outputs -> Nat] /\ counted \in [Outputs -> Nat]
        /\ allInpPacketsProcessed \in BOOLEAN
    BY DEF Types, InputTypes, OutputTypes
  <1>2. inpPc[i] # "off" /\ UNCHANGED << outPc, counted, routerPc, routerI,
                                         allOutPacketsProcessed >>
    BY DEF InputStep, InpForward, InpLoadCount, InpStoreCount, InpLoadTotal,
           InpStoreTotal, InpTest, outVars, notifyVars, routerVars
  <1>3. CASE InpForward(i)
    <2>1. /\ inpPc[i] = "loop" /\ inpPc' = inpPc
          /\ inpQueue' = [inpQueue EXCEPT ![i] = Tail(@)]
          /\ offered' = [offered EXCEPT ![Head(inpQueue[i])] = @ + 1]
          /\ allInpPacketsProcessed' = allInpPacketsProcessed
      BY <1>3 DEF InpForward, notifyVars
    <2>2. ~ allInpPacketsProcessed
      BY <2>1 DEF InpCounting, InpCounted
    <2>3. \A o \in Outputs : outPc[o] = "off" /\ offered[o] <= offered'[o]
                               /\ offered'[o] \in Nat
      BY <1>1, <2>1, <2>2 DEF Phases
    <2>4. \A j \in Inputs : inpPc[j] \in InpNotifyPcs \cup {"end"}
                              => inpQueue'[j] = << >>
      BY <1>1, <2>1 DEF Phases, InpNotifyPcs
    <2>5. \A o \in Outputs :
            /\ counted[o] <= offered'[o]
            /\ outPc[o] \in OutNotifyPcs \cup {"end"} => counted[o] = offered'[o]
      BY <1>1, <2>3 DEF Phases, OutNotifyPcs
    <2> QED
      BY <1>2, <2>1, <2>4, <2>5 DEF Phases
  <1>4. CASE ~ InpForward(i)
    <2> USE DEF InputStep, InpLoadCount, InpStoreCount, InpLoadTotal,
                InpStoreTotal, InpTest, InpNotifyPcs
    <2>a. inpQueue' = inpQueue /\ offered' = offered
      BY <1>4 DEF outVars
    <2>b. allInpPacketsProcessed => allInpPacketsProcessed'
      BY <1>4 DEF notifyVars
    <2>c. \E pc \in InpPcs : inpPc' = [inpPc EXCEPT ![i] = pc]
      BY <1>4 DEF InpGoto, InpPcs
    <2>d. inpPc[i] # "loop" => inpPc[i] \in InpNotifyPcs
      BY <1>4
    <2>e. inpQueue[i] = << >>
      BY <1>4, <2>d DEF Phases
    <2> HIDE DEF InputStep, InpLoadCount, InpStoreCount, InpLoadTotal,
                InpStoreTotal, InpTest, InpNotifyPcs
    <2>1. /\ inpQueue' = inpQueue /\ offered' = offered
          /\ allInpPacketsProcessed => allInpPacketsProcessed'
          /\ \E pc \in InpPcs : inpPc' = [inpPc EXCEPT ![i] = pc]
          /\ inpQueue[i] = << >>
      BY <2>a, <2>b, <2>c, <2>e
    <2>2. \A j \in Inputs : inpPc'[j] \in InpNotifyPcs \cup {"end"}
                              => inpQueue'[j] = << >>
      BY <1>1, <2>1 DEF Phases
    <2>3. routerPc' = "startInp" =>
            \A j \in Inputs : j >= routerI' => inpPc'[j] = "off"
      BY <1>1, <1>2, <2>1 DEF Phases
    <2> QED
      BY <1>2, <2>1, <2>2, <2>3 DEF Phases
  <1> QED
    BY <1>3, <1>4

LEMMA PhasesOutput ==
  ASSUME Types, Phases, NEW o \in Outputs,
         OutputStep(o) \/ OutCount(o) \/ OutSample(o)
  PROVE  Phases'
  <1>1. /\ outPc \in [Outputs -> OutPcs]
        /\ offered \in [Outputs -> Nat] /\ counted \in [Outputs -> Nat]
        /\ allOutPacketsProcessed \in BOOLEAN
    BY DEF Types, OutputTypes
  <1>2. UNCHANGED << inpPc, inpQueue, offered, routerPc, routerI,
                     allInpPacketsProcessed >>
    BY DEF OutputStep, OutRead, OutAgain, OutLoadCount, OutStoreCount, OutTest,
           OutCount, OutSample, inpVars, notifyVars, routerVars
  <1>3. CASE OutCount(o)
    <2>1. /\ outPc[o] # "off" /\ counted[o] < offered[o]
          /\ counted' = [counted EXCEPT ![o] = @ + 1]
          /\ UNCHANGED << outPc, allOutPacketsProcessed >>
      BY <1>3 DEF OutCount, notifyVars
    <2>2. outPc[o] \notin OutNotifyPcs \cup {"end"}
      BY <1>1, <2>1 DEF Phases
    <2>3. \A p \in Outputs :
            /\ counted'[p] <= offered[p]
            /\ outPc[p] \in OutNotifyPcs \cup {"end"} => counted'[p] = offered[p]
      BY <1>1, <2>1, <2>2 DEF Phases
    <2> QED
      BY <1>2, <2>1, <2>3 DEF Phases
  <1>4. CASE OutputStep(o)
    <2> USE DEF OutputStep, OutRead, OutAgain, OutLoadCount, OutStoreCount,
                OutTest
    <2>a. counted' = counted
      BY <1>4
    <2>b. allOutPacketsProcessed => allOutPacketsProcessed'
      BY <1>4 DEF notifyVars
    <2>c. outPc[o] # "off"
      BY <1>4
    <2> HIDE DEF OutputStep, OutRead, OutAgain, OutLoadCount, OutStoreCount,
                OutTest
    <2>1. /\ counted' = counted
          /\ allOutPacketsProcessed => allOutPacketsProcessed'
          /\ outPc[o] # "off"
      BY <2>a, <2>b, <2>c
    <2>2. \E pc \in OutPcs :
            /\ outPc' = [outPc EXCEPT ![o] = pc]
            /\ pc \in OutNotifyPcs \cup {"end"} => counted[o] = offered[o]
      BY <1>1, <1>4
      DEF OutputStep, OutRead, OutAgain, OutLoadCount, OutStoreCount, OutTest,
          OutGoto, Phases, OutPcs, OutNotifyPcs, AllSent
    <2>3. routerPc \notin {"startInp", "awaitInp"}
      BY <2>1 DEF Phases
    <2>4. routerPc = "startOut" =>
            \A p \in Outputs : p >= routerI => outPc'[p] = "off"
      BY <1>1, <2>1, <2>2 DEF Phases
    <2>5. \A p \in Outputs :
            /\ counted[p] <= offered[p]
            /\ outPc'[p] \in OutNotifyPcs \cup {"end"} => counted[p] = offered[p]
      BY <1>1, <2>2 DEF Phases
    <2> QED
      BY <1>2, <2>1, <2>3, <2>4, <2>5 DEF Phases
  <1>5. CASE OutSample(o)
    BY <1>2, <1>5 DEF OutSample, notifyVars, Phases
  <1> QED
    BY <1>3, <1>4, <1>5

LEMMA PhasesRouter ==
  ASSUME Types, Phases, RouterStep
  PROVE  Phases'
  <1>1. /\ inpPc \in [Inputs -> InpPcs] /\ outPc \in [Outputs -> OutPcs]
        /\ allInpPacketsProcessed \in BOOLEAN
        /\ allOutPacketsProcessed \in BOOLEAN
    BY DEF Types, InputTypes, OutputTypes
  <1>2. UNCHANGED << inpQueue, offered, counted, allInpPacketsProcessed,
                     allOutPacketsProcessed >>
    BY DEF RouterStep, StartInput, SeeInputs, StartOutput, ClearTotal, AddTotal,
           LookAgain, LookDone, PerformAnalysis, inpVars, outVars, notifyVars
  <1>3. CASE StartInput
    <2>1. /\ routerI \in Inputs /\ routerPc = "startInp"
          /\ inpPc' = [inpPc EXCEPT ![routerI] = "loop"]
          /\ routerPc' \in {"startInp", "awaitInp"}
          /\ routerPc' = "startInp" => routerI' = routerI + 1
          /\ outPc' = outPc
      BY <1>3, NextIndex, InputsFinite
      DEF StartInput, InpGoto, Types, RouterTypes, outVars, Inputs
    <2>2. \A j \in Inputs : inpPc'[j] \in InpNotifyPcs \cup {"end"}
                              => inpQueue[j] = << >>
      BY <1>1, <2>1 DEF Phases, InpNotifyPcs
    <2>3. routerPc' = "startInp" =>
            \A j \in Inputs : j >= routerI' => inpPc'[j] = "off"
      BY <1>1, <2>1, InputsFinite DEF Phases
    <2> QED
      BY <1>2, <2>1, <2>2, <2>3 DEF Phases
  <1>4. CASE SeeInputs
    BY <1>2, <1>4 DEF SeeInputs, InputsDone, Phases, inpVars, outVars
  <1>5. CASE StartOutput
    <2>1. /\ routerI \in Outputs /\ routerPc = "startOut"
          /\ outPc' = [outPc EXCEPT ![routerI] = "read"]
          /\ routerPc' \in {"startOut", "clear"}
          /\ routerPc' = "startOut" => routerI' = routerI + 1
          /\ inpPc' = inpPc
      BY <1>5, NextIndex, OutputsFinite
      DEF StartOutput, OutGoto, Types, RouterTypes, inpVars, Outputs
    <2>2. \A p \in Outputs :
            outPc'[p] \in OutNotifyPcs \cup {"end"} => counted[p] = offered[p]
      BY <1>1, <2>1 DEF Phases, OutNotifyPcs
    <2>3. routerPc' = "startOut" =>
            \A p \in Outputs : p >= routerI' => outPc'[p] = "off"
      BY <1>1, <2>1, OutputsFinite DEF Phases
    <2> QED
      BY <1>2, <2>1, <2>2, <2>3 DEF Phases
  <1>6. CASE ClearTotal \/ LookAgain \/ PerformAnalysis
    BY <1>2, <1>6
    DEF ClearTotal, LookAgain, PerformAnalysis, Phases, inpVars, outVars
  <1>7. CASE AddTotal
    BY <1>2, <1>7 DEF AddTotal, Phases, inpVars, outVars
  <1>8. CASE LookDone
    BY <1>2, <1>8 DEF LookDone, OutputsDone, Phases, inpVars, outVars
  <1> QED
    BY <1>3, <1>4, <1>5, <1>6, <1>7, <1>8 DEF RouterStep

LEMMA PhasesStep ==
  ASSUME Types, InpCounting, Phases, [Next]_vars
  PROVE  Phases'
  <1>1. CASE UNCHANGED vars
    BY <1>1 DEF vars, inpVars, outVars, notifyVars, routerVars, Phases
  <1> QED
    BY <1>1, PhasesInput, PhasesOutput, PhasesRouter DEF Next

-----------------------------------------------------------------------------
(***************************************************************************)
(* What has been forwarded.  Only InpForward moves a packet, and it moves  *)
(* one term of each sum by one.                                            *)
(***************************************************************************)
LEMMA WaitingType ==
  ASSUME Types
  PROVE  /\ Waiting \in [Inputs -> Int]
         /\ SumFunction(Waiting) \in Int /\ SumFunction(offered) \in Int
         /\ offered \in [Outputs -> Int]
  <1>1. Waiting \in [Inputs -> Int] /\ offered \in [Outputs -> Int]
    BY LenProperties DEF Types, InputTypes, OutputTypes, Waiting
  <1>2. SumFunctionOnSet(Waiting, Inputs) \in Int
    BY <1>1, InputsFinite, SumInt
  <1>3. SumFunctionOnSet(offered, Outputs) \in Int
    BY <1>1, OutputsFinite, SumInt
  <1> QED
    BY <1>1, <1>2, <1>3 DEF SumFunction

LEMMA ForwardedInit == Init => Forwarded
  <1> SUFFICES ASSUME Init PROVE Forwarded
    OBVIOUS
  <1>1. Types
    BY TypesInit
  <1>2. SumFunction(offered) = 0
    BY OutputsFinite, SumZero DEF Init, SumFunction
  <1>3. SumFunction(Waiting) = TotalLoad
    BY DEF Init, Waiting, TotalLoad
  <1> QED
    BY <1>1, <1>2, <1>3, WaitingType DEF Forwarded

LEMMA ForwardedStep ==
  ASSUME Types, Forwarded, [Next]_vars
  PROVE  Forwarded'
  <1>1. ASSUME NEW i \in Inputs, InpForward(i)
        PROVE  Forwarded'
    <2> DEFINE o == Head(inpQueue[i])
               n == Len(inpQueue[i])
    <2>1. /\ o \in Outputs /\ inpQueue \in [Inputs -> Seq(Outputs)]
          /\ Len(Tail(inpQueue[i])) = n - 1 /\ n - 1 \in Int
          /\ inpQueue' = [inpQueue EXCEPT ![i] = Tail(@)]
          /\ offered' = [offered EXCEPT ![o] = @ + 1]
      BY <1>1, HeadTailProperties, LenProperties
      DEF InpForward, Types, InputTypes
    <2>2. Waiting' = [Waiting EXCEPT ![i] = n - 1] /\ Waiting[i] = n
      BY <2>1 DEF Waiting
    <2>3. SumFunction(Waiting)' = SumFunction(Waiting) + (n - 1) - n
      <3>1. SumFunction([Waiting EXCEPT ![i] = n - 1])
              = SumFunction(Waiting) + (n - 1) - Waiting[i]
        BY <2>1, WaitingType, InputsFinite, SumUpdate
      <3> QED
        BY <2>2, <3>1
    <2>4. SumFunction(offered)' =
            SumFunction(offered) + (offered[o] + 1) - offered[o]
      <3>1. /\ offered \in [Outputs -> Int] /\ offered[o] + 1 \in Int
            /\ offered' = [offered EXCEPT ![o] = offered[o] + 1]
        BY <2>1, WaitingType
      <3>2. o \in Outputs
        BY <2>1
      <3> HIDE DEF o
      <3>3. SumFunction([offered EXCEPT ![o] = offered[o] + 1])
              = SumFunction(offered) + (offered[o] + 1) - offered[o]
        BY <3>2, <3>1, OutputsFinite, SumUpdate
      <3> QED
        BY <3>1, <3>3
    <2>5. offered[o] \in Int /\ n \in Int
      BY <2>1, WaitingType
    <2> HIDE DEF o, n
    <2> QED
      BY <2>3, <2>4, <2>5, WaitingType DEF Forwarded
  <1>2. CASE UNCHANGED << inpQueue, offered >>
    BY <1>2 DEF Forwarded, Waiting
  <1>3. CASE \E i \in Inputs : InputStep(i) /\ ~ InpForward(i)
    BY <1>2, <1>3 DEF InputStep, InpLoadCount, InpStoreCount, InpLoadTotal,
                      InpStoreTotal, InpTest, outVars
  <1>4. CASE \E o \in Outputs : OutputStep(o) \/ OutCount(o) \/ OutSample(o)
    BY <1>2, <1>4 DEF OutputStep, OutRead, OutAgain, OutLoadCount,
                      OutStoreCount, OutTest, OutCount, OutSample, inpVars
  <1>5. CASE RouterStep
    BY <1>2, <1>5
    DEF RouterStep, StartInput, SeeInputs, StartOutput, ClearTotal, AddTotal,
        LookAgain, LookDone, PerformAnalysis, inpVars, outVars
  <1>6. CASE UNCHANGED vars
    BY <1>2, <1>6 DEF vars, inpVars, outVars
  <1> QED
    BY <1>1, <1>3, <1>4, <1>5, <1>6 DEF Next

LEMMA AllForwarded ==
  ASSUME Types, InpCounting, Phases, Forwarded
  PROVE  FilledBeforeStart
  <1> SUFFICES ASSUME NEW o \in Outputs, outPc[o] # "off"
               PROVE  /\ \A i \in Inputs : inpQueue[i] = << >>
                      /\ SumFunction(offered) = TotalLoad
    BY DEF FilledBeforeStart
  <1>1. InpCounted = Inputs
    BY DEF Phases, InpCounting
  <1>2. \A i \in Inputs : inpQueue[i] = << >>
    BY <1>1 DEF InpCounted, Phases, InpNotifyPcs
  <1>3. \A i \in Inputs : Waiting[i] = 0
    BY <1>2, EmptySeq DEF Waiting
  <1>4. SumFunction(Waiting) = 0
    BY <1>3, InputsFinite, SumZero DEF SumFunction, Waiting
  <1> QED
    BY <1>2, <1>4, WaitingType DEF Forwarded

-----------------------------------------------------------------------------
LEMMA AddedFinite ==
  /\ IsFiniteSet(Added) /\ Added \in SUBSET Inputs
  /\ \A i \in Inputs : num_input_packets[i] \in Int
  <1>1. Added \in SUBSET Inputs
    BY DEF Added
  <1>2. \A i \in Inputs : num_input_packets[i] \in Int
    BY CountsAreNat
  <1> QED
    BY <1>1, <1>2, InputsFinite, FS_Subset

LEMMA ExactTotalInit == Init => ExactTotal
  <1> SUFFICES ASSUME Init PROVE ExactTotal
    OBVIOUS
  <1>1. Added = {}
    BY DEF Init, Added
  <1>2. SumFunctionOnSet(num_input_packets, Added) = 0
    BY <1>1, SumEmpty
  <1> QED
    BY <1>2 DEF Init, ExactTotal, InpNotifyPcs

LEMMA ExactTotalInput ==
  ASSUME Types, InpCounting, InpCounting', ExactTotal,
         NEW i \in Inputs, InputStep(i)
  PROVE  ExactTotal'
  <1>1. /\ inpPc \in [Inputs -> InpPcs] /\ totalReg \in [Inputs -> Nat]
        /\ totalInputPackets \in Nat
    BY DEF Types, InputTypes
  <1> USE DEF InpNotifyPcs
  <1>2. CASE InpForward(i)
    BY <1>2 DEF InpForward, notifyVars, ExactTotal, Added
  <1>3. CASE InpLoadCount(i)
    <2>1. /\ inpPc[i] = "loop" /\ inpPc' = [inpPc EXCEPT ![i] = "storeCount"]
          /\ raced' = (raced \/ \E j \in Inputs : inpPc[j] \in InpNotifyPcs)
          /\ UNCHANGED << totalReg, totalInputPackets, allInpPacketsProcessed >>
      BY <1>3 DEF InpLoadCount, InpGoto, notifyVars
    <2>2. Added' = Added
      BY <1>1, <2>1 DEF Added
    <2> QED
      BY <1>1, <2>1, <2>2 DEF ExactTotal
  <1>4. CASE InpStoreCount(i)
    <2>1. /\ inpPc[i] = "storeCount"
          /\ inpPc' = [inpPc EXCEPT ![i] = "loadTotal"]
          /\ UNCHANGED << totalReg, totalInputPackets, allInpPacketsProcessed,
                          raced >>
      BY <1>4 DEF InpStoreCount, InpGoto
    <2>2. Added' = Added
      BY <1>1, <2>1 DEF Added
    <2> QED
      BY <1>1, <2>1, <2>2 DEF ExactTotal
  <1>5. CASE InpLoadTotal(i)
    <2>1. /\ inpPc[i] = "loadTotal"
          /\ inpPc' = [inpPc EXCEPT ![i] = "storeTotal"]
          /\ totalReg' = [totalReg EXCEPT ![i] = totalInputPackets]
          /\ UNCHANGED << totalInputPackets, allInpPacketsProcessed, raced >>
      BY <1>5 DEF InpLoadTotal, InpGoto, notifyVars
    <2>2. Added' = Added
      BY <1>1, <2>1 DEF Added
    <2> QED
      BY <1>1, <2>1, <2>2 DEF ExactTotal
  <1>6. CASE InpStoreTotal(i)
    <2>1. /\ inpPc[i] = "storeTotal" /\ inpPc' = [inpPc EXCEPT ![i] = "test"]
          /\ totalInputPackets' = totalReg[i] + num_input_packets[i]
          /\ UNCHANGED << totalReg, allInpPacketsProcessed, raced >>
      BY <1>6 DEF InpStoreTotal, InpGoto
    <2>2. Added' = Added \cup {i} /\ i \notin Added
      BY <1>1, <2>1 DEF Added
    <2>3. SumFunctionOnSet(num_input_packets, Added') =
            num_input_packets[i] + SumFunctionOnSet(num_input_packets, Added)
      <3>1. /\ IsFiniteSet(Added') /\ i \in Added' /\ Added' \ {i} = Added
            /\ \A j \in Added' : num_input_packets[j] \in Int
        BY <2>2, AddedFinite, FS_AddElement
      <3> QED
        BY <3>1, SumTake
    <2>4. SumFunctionOnSet(num_input_packets, Added) \in Int
      BY AddedFinite, SumInt
    <2>5. ~ raced => totalInputPackets' = SumFunctionOnSet(num_input_packets, Added')
      BY ONLY ExactTotal, Types, i \in Inputs, <1>6, <1>1, <2>1, <2>3, <2>4, CountsAreNat DEF ExactTotal, Types, InputTypes
    <2>6. ~ raced =>
            /\ \A j, k \in Inputs :
                 inpPc'[j] \in InpNotifyPcs /\ inpPc'[k] \in InpNotifyPcs
                   => j = k
            /\ \A j \in Inputs : inpPc'[j] # "storeTotal"
            /\ allInpPacketsProcessed => Added' = Inputs
      BY <1>1, <2>1, <2>2, AddedFinite DEF ExactTotal
    <2> QED
      BY <2>1, <2>5, <2>6 DEF ExactTotal
  <1>7. CASE InpTest(i)
    <2>1. /\ inpPc[i] = "test" /\ inpPc' = [inpPc EXCEPT ![i] = "end"]
          /\ UNCHANGED << totalReg, totalInputPackets, raced >>
      BY <1>7 DEF InpTest, InpGoto
    <2>2. Added' = Added /\ i \in Added
      BY <1>1, <2>1 DEF Added
    <2>3. ~ raced /\ InpCounted' = Inputs => Added' = Inputs
      BY <1>1, <2>1, <2>2 DEF ExactTotal, InpCounted, Added
    <2>4. allInpPacketsProcessed' => InpCounted' = Inputs
      BY DEF InpCounting
    <2> QED
      BY <1>1, <2>1, <2>2, <2>3, <2>4 DEF ExactTotal
  <1> QED
    BY <1>2, <1>3, <1>4, <1>5, <1>6, <1>7 DEF InputStep

LEMMA ExactTotalStep ==
  ASSUME Types, Phases, InpCounting, InpCounting', ExactTotal, [Next]_vars
  PROVE  ExactTotal'
  <1>1. ASSUME UNCHANGED << inpPc, totalReg, totalInputPackets,
                            allInpPacketsProcessed >>,
               raced => raced'
        PROVE  ExactTotal'
    BY <1>1 DEF ExactTotal, Added
  <1>2. CASE StartInput
    <2>1. /\ routerI \in Inputs /\ inpPc \in [Inputs -> InpPcs]
          /\ routerPc = "startInp" /\ inpPc' = [inpPc EXCEPT ![routerI] = "loop"]
          /\ UNCHANGED << totalReg, totalInputPackets, allInpPacketsProcessed,
                          raced >>
      BY <1>2
      DEF StartInput, InpGoto, Types, InputTypes, RouterTypes, notifyVars
    <2>2. inpPc[routerI] = "off"
      BY <2>1, InputsFinite DEF Phases
    <2>3. Added' = Added
      BY <2>1, <2>2 DEF Added
    <2> QED
      BY <2>1, <2>3 DEF ExactTotal, InpNotifyPcs
  <1>3. CASE RouterStep /\ ~ StartInput
    BY <1>1, <1>3
    DEF RouterStep, SeeInputs, StartOutput, ClearTotal, AddTotal, LookAgain,
        LookDone, PerformAnalysis, inpVars, notifyVars
  <1>4. ASSUME NEW o \in Outputs, OutputStep(o) \/ OutCount(o) \/ OutSample(o)
        PROVE  ExactTotal'
    <2>1. UNCHANGED << inpPc, totalReg, totalInputPackets,
                       allInpPacketsProcessed >>
      BY <1>4
      DEF OutputStep, OutRead, OutAgain, OutLoadCount, OutStoreCount, OutTest,
          OutCount, OutSample, inpVars, notifyVars
    <2>2. raced => raced'
      BY <1>4
      DEF OutputStep, OutRead, OutAgain, OutLoadCount, OutStoreCount, OutTest,
          OutCount, OutSample
    <2> QED
      BY <1>1, <2>1, <2>2
  <1>5. CASE UNCHANGED vars
    BY <1>1, <1>5 DEF vars, inpVars, notifyVars
  <1> QED
    BY <1>2, <1>3, <1>4, <1>5, ExactTotalInput DEF Next

-----------------------------------------------------------------------------
LEMMA SamplingInit == Init => Sampling
  BY MaxBurstAssumption DEF Init, Sampling

LEMMA SamplingStep ==
  ASSUME Types, InpCounting, OutCounting, Phases, Sampling, [Next]_vars
  PROVE  Sampling'
  <1>1. /\ unsampled \in [Outputs -> Nat] /\ counted \in [Outputs -> Nat]
        /\ offered \in [Outputs -> Nat] /\ MaxBurst \in Nat
    BY MaxBurstAssumption DEF Types, OutputTypes
  <1>2. CASE UNCHANGED << unsampled, routerPc, offered, analysed >>
    BY <1>2 DEF Sampling
  <1>3. ASSUME NEW i \in Inputs, InpForward(i)
        PROVE  Sampling'
    <2>1. inpPc[i] = "loop" /\ UNCHANGED << unsampled, routerPc >>
      BY <1>3 DEF InpForward, routerVars
    <2>2. ~ allInpPacketsProcessed
      BY <2>1 DEF InpCounting, InpCounted
    <2>3. routerPc # "end"
      BY <2>2 DEF Phases
    <2> QED
      BY <2>1, <2>3 DEF Sampling
  <1>4. CASE \E i \in Inputs : InputStep(i) /\ ~ InpForward(i)
    BY <1>2, <1>4 DEF InputStep, InpLoadCount, InpStoreCount, InpLoadTotal,
                      InpStoreTotal, InpTest, outVars, routerVars
  <1>5. ASSUME NEW o \in Outputs, OutCount(o) \/ OutSample(o)
        PROVE  Sampling'
    <2>1. UNCHANGED << routerPc, offered, analysed >>
      BY <1>5 DEF OutCount, OutSample, routerVars
    <2>2. \/ /\ unsampled[o] < MaxBurst
             /\ unsampled' = [unsampled EXCEPT ![o] = @ + 1]
          \/ unsampled' = [unsampled EXCEPT ![o] = 0]
      BY <1>5 DEF OutCount, OutSample, InBurst
    <2>3. \A p \in Outputs : unsampled'[p] <= MaxBurst
      BY <1>1, <2>2 DEF Sampling
    <2> QED
      BY <2>1, <2>3 DEF Sampling
  <1>6. CASE \E o \in Outputs : OutputStep(o)
    BY <1>2, <1>6 DEF OutputStep, OutRead, OutAgain, OutLoadCount,
                      OutStoreCount, OutTest, routerVars
  <1>7. CASE PerformAnalysis
    <2>1. /\ routerPc = "analyse"
          /\ analysed' = [o \in Outputs |-> counted[o] - unsampled[o]]
          /\ UNCHANGED << unsampled, offered >>
      BY <1>7 DEF PerformAnalysis, outVars
    <2>2. OutCounted = Outputs
      BY <2>1 DEF Phases, OutCounting
    <2>3. \A o \in Outputs : counted[o] = offered[o]
      BY <2>2 DEF OutCounted, Phases, OutNotifyPcs
    <2>4. \A o \in Outputs : offered[o] - analysed'[o] = unsampled[o]
      BY <1>1, <2>1, <2>3
    <2>5. \A o \in Outputs : unsampled[o] \in 0 .. MaxBurst
      BY <1>1 DEF Sampling
    <2> QED
      BY <2>1, <2>4, <2>5 DEF Sampling
  <1>8. CASE RouterStep /\ ~ PerformAnalysis
    BY <1>8
    DEF RouterStep, StartInput, SeeInputs, StartOutput, ClearTotal, AddTotal,
        LookAgain, LookDone, outVars, Sampling
  <1>9. CASE UNCHANGED vars
    BY <1>2, <1>9 DEF vars, outVars, routerVars
  <1> QED
    BY <1>3, <1>4, <1>5, <1>6, <1>7, <1>8, <1>9 DEF Next

-----------------------------------------------------------------------------
(***************************************************************************)
(* The inductive invariant.                                                *)
(***************************************************************************)
Ind == Types /\ InpCounting /\ OutCounting /\ Phases /\ Forwarded
         /\ ExactTotal /\ Sampling

LEMMA IndInvariant == Spec => []Ind
  <1>1. Init => Ind
    BY TypesInit, CountingInit, PhasesInit, ForwardedInit, ExactTotalInit,
       SamplingInit DEF Ind
  <1>2. Ind /\ [Next]_vars => Ind'
    <2> SUFFICES ASSUME Ind, [Next]_vars PROVE Ind'
      OBVIOUS
    <2>1. Types' /\ InpCounting' /\ OutCounting' /\ Phases'
      BY TypesStep, InpCountingStep, OutCountingStep, PhasesStep DEF Ind
    <2> QED
      BY <2>1, ForwardedStep, ExactTotalStep, SamplingStep DEF Ind
  <1> QED
    BY <1>1, <1>2, PTL DEF Spec

(***************************************************************************)
(* No output adaptor runs before every packet of every input queue is in a *)
(* buffer (router.cpp, borderRun), however inpNotify calls overlap.        *)
(***************************************************************************)
THEOREM OutputsStartFilled == Spec => []FilledBeforeStart
  <1>1. Ind => FilledBeforeStart
    BY AllForwarded DEF Ind
  <1> QED
    BY <1>1, IndInvariant, PTL

(***************************************************************************)
(* The analysis comes after the last packet, whatever outNotify calls lost,*)
(* and the total of the inputs is then what the input adaptors counted,    *)
(* unless calls raced.                                                     *)
(***************************************************************************)
THEOREM AnalysisNeverEarly == Spec => []AnalysesLast
  <1>1. Ind => AnalysesLast
    <2> SUFFICES ASSUME Ind, routerPc \in {"analyse", "end"}
                 PROVE  /\ counted = offered
                        /\ ~ raced => totalInputPackets = SumFunction(num_input_packets)
      BY DEF AnalysesLast
    <2>1. OutCounted = Outputs /\ allInpPacketsProcessed
      BY DEF Ind, Phases, OutCounting
    <2>2. \A o \in Outputs : counted[o] = offered[o]
      BY <2>1 DEF Ind, OutCounted, Phases, OutNotifyPcs
    <2>3. counted = offered
      BY <2>2 DEF Ind, Types, OutputTypes
    <2>4. SumFunctionOnSet(num_input_packets, Inputs) = SumFunction(num_input_packets)
      BY CountsAreNat DEF SumFunction
    <2> QED
      BY <2>1, <2>3, <2>4 DEF Ind, ExactTotal
  <1> QED
    BY <1>1, IndInvariant, PTL

(***************************************************************************)
(* The analysis lacks at most the samples of one burst of each output.     *)
(***************************************************************************)
THEOREM AtMostOneBurstMissed == Spec => []MissesOneBurst
  <1>1. Ind => MissesOneBurst
    BY DEF Ind, Sampling, MissesOneBurst
  <1> QED
    BY <1>1, IndInvariant, PTL

-----------------------------------------------------------------------------
(***************************************************************************)
(* Each output adaptor is an AdaptorSummary: every step of the router is a *)
(* step of each adaptor's summary, or leaves it as it was.                 *)
(***************************************************************************)
LEMMA SummaryInit == Init => \A o \in Outputs : Summary(o)!Init
  BY DEF Init, Summary!Init

LEMMA SummaryStutter ==
  ASSUME NEW o \in Outputs,
         UNCHANGED << offered[o], counted[o], processed[o] >>,
         \/ outPc'[o] = outPc[o]
         \/ outPc[o] \in {"read", "compare"} /\ outPc'[o] \in {"read", "compare"}
         \/ outPc[o] \in OutNotifyPcs /\ outPc'[o] \in OutNotifyPcs \cup {"end"}
  PROVE  [Summary(o)!Next]_(Summary(o)!vars)
  BY DEF Summary!vars, OutNotifyPcs

LEMMA SummaryStep ==
  ASSUME Ind, [Next]_vars, NEW o \in Outputs
  PROVE  [Summary(o)!Next]_(Summary(o)!vars)
  <1>1. /\ outPc \in [Outputs -> OutPcs] /\ offered \in [Outputs -> Nat]
        /\ counted \in [Outputs -> Nat] /\ processed \in [Outputs -> Nat]
    BY DEF Ind, Types, OutputTypes
  <1>2. ASSUME NEW i \in Inputs, InpForward(i)
        PROVE  [Summary(o)!Next]_(Summary(o)!vars)
    <2> DEFINE h == Head(inpQueue[i])
    <2>1. /\ inpPc[i] = "loop" /\ offered' = [offered EXCEPT ![h] = @ + 1]
          /\ UNCHANGED << outPc, counted, processed >>
      BY <1>2 DEF InpForward
    <2>2. outPc[o] = "off"
      BY <2>1 DEF Ind, InpCounting, InpCounted, Phases
    <2> HIDE DEF h
    <2>3. CASE h = o
      BY <1>1, <2>1, <2>2, <2>3 DEF Summary!Next, Summary!Fill
    <2>4. CASE h # o
      BY <1>1, <2>1, <2>4, SummaryStutter
    <2> QED
      BY <2>3, <2>4
  <1>3. CASE StartOutput
    <2>1. /\ routerPc = "startOut" /\ routerI \in Outputs
          /\ outPc' = [outPc EXCEPT ![routerI] = "read"]
          /\ UNCHANGED << offered, counted, processed >>
      BY <1>3 DEF StartOutput, OutGoto, Ind, Types, RouterTypes
    <2>2. CASE routerI = o
      <3>1. outPc[o] = "off" /\ outPc'[o] = "read"
        BY <1>1, <2>1, <2>2, OutputsFinite DEF Ind, Phases
      <3> QED
        BY <2>1, <3>1 DEF Summary!Next, Summary!Begin
    <2>3. CASE routerI # o
      BY <1>1, <2>1, <2>3, SummaryStutter
    <2> QED
      BY <2>2, <2>3
  <1>4. CASE OutCount(o)
    BY <1>1, <1>4 DEF OutCount, Summary!Next, Summary!Count
  <1>5. CASE OutRead(o)
    BY <1>1, <1>5 DEF OutRead, OutGoto, Summary!Next, Summary!Copy
  <1>6. CASE OutLoadCount(o)
    BY <1>1, <1>6
    DEF OutLoadCount, OutGoto, AllSent, Summary!Next, Summary!Finish
  <1>7. CASE OutAgain(o) \/ OutStoreCount(o) \/ OutTest(o) \/ OutSample(o)
    <2>1. UNCHANGED << offered, counted, processed >>
      BY <1>7 DEF OutAgain, OutStoreCount, OutTest, OutSample
    <2>2. \/ outPc'[o] = outPc[o]
          \/ outPc[o] = "compare" /\ outPc'[o] = "read"
          \/ outPc[o] \in OutNotifyPcs /\ outPc'[o] \in OutNotifyPcs \cup {"end"}
      BY <1>1, <1>7
      DEF OutAgain, OutStoreCount, OutTest, OutSample, OutGoto, OutNotifyPcs
    <2> QED
      BY <2>1, <2>2, SummaryStutter
  <1>8. ASSUME NEW p \in Outputs \ {o},
               OutputStep(p) \/ OutCount(p) \/ OutSample(p)
        PROVE  [Summary(o)!Next]_(Summary(o)!vars)
    <2>1. UNCHANGED << offered[o], counted[o], processed[o], outPc[o] >>
      BY <1>1, <1>8
      DEF OutputStep, OutRead, OutAgain, OutLoadCount, OutStoreCount, OutTest,
          OutCount, OutSample, OutGoto
    <2> QED
      BY <2>1, SummaryStutter
  <1>9. CASE UNCHANGED outVars
    BY <1>9, SummaryStutter DEF outVars
  <1>10. CASE RouterStep /\ ~ StartOutput
    BY <1>9, <1>10
    DEF RouterStep, StartInput, SeeInputs, ClearTotal, AddTotal, LookAgain,
        LookDone, PerformAnalysis
  <1>11. CASE \E i \in Inputs : InputStep(i) /\ ~ InpForward(i)
    BY <1>9, <1>11 DEF InputStep, InpLoadCount, InpStoreCount, InpLoadTotal,
                       InpStoreTotal, InpTest
  <1>12. CASE UNCHANGED vars
    BY <1>9, <1>12 DEF vars
  <1> QED
    BY <1>2, <1>3, <1>4, <1>5, <1>6, <1>7, <1>8, <1>10, <1>11, <1>12
    DEF Next, OutputStep

(***************************************************************************)
(* The output adaptors, as the router uses them, implement AdaptorSummary, *)
(* which is also what the detailed BorderOutputAdaptor is checked against. *)
(***************************************************************************)
THEOREM OutputsAreSummaries == Spec => SummarySpecs
  <1>1. Ind /\ [Next]_vars =>
          [\A o \in Outputs : [Summary(o)!Next]_(Summary(o)!vars)]_vars
    BY SummaryStep
  <1>2. Init => \A o \in Outputs : Summary(o)!Init
    BY SummaryInit
  <1> QED
    BY <1>1, <1>2, IndInvariant, PTL DEF Spec, SummarySpecs
=============================================================================
