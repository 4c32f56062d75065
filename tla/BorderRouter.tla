---------------------------- MODULE BorderRouter ----------------------------
(***************************************************************************)
(* The border router (router.cpp, borderRun): it starts its input adaptors,*)
(* waits until they have emptied their queues into the output adaptors'    *)
(* buffers, starts the output adaptors, sums up their totals until they    *)
(* have finished, and analyses the samples of their queues.                *)
(*                                                                         *)
(* A packet is the output port lookUp finds for it.  An output adaptor is  *)
(* what AdaptorSummary says of it, with what it adds to the router: its    *)
(* polling loop (a read of the count, then a comparison that reads it      *)
(* again), the samples its pop task takes at the end of each burst, and    *)
(* outNotify.  Like notify, inpNotify and outNotify are called by several  *)
(* threads with no lock.                                                   *)
(***************************************************************************)
EXTENDS Integers, Sequences, Functions

CONSTANTS NumInputs, NumOutputs,
          Loads,        \* the packets in each input queue at the start
          num_input_packets, \* how many of them its adaptor has counted
          MaxBurst      \* the largest weight of a queue

Inputs  == 0 .. (NumInputs - 1)
Outputs == 0 .. (NumOutputs - 1)

ASSUME NumInputsAssumption == NumInputs \in Nat \ {0}
ASSUME NumOutputsAssumption == NumOutputs \in Nat \ {0}
ASSUME LoadsAssumption == Loads \in [Inputs -> Seq(Outputs)]
\* A rest at the end of a trace is pushed as a packet, but not counted.
ASSUME CountsAssumption ==
  /\ num_input_packets \in [Inputs -> Nat]
  /\ \A i \in Inputs : Len(Loads[i]) - num_input_packets[i] \in {0, 1}
ASSUME MaxBurstAssumption == MaxBurst \in Nat \ {0}

VARIABLES inpPc,             \* where each input adaptor's thread is
          inpQueue,          \* the packets it has still to forward
          countReg, totalReg \* what each inpNotify call loaded

VARIABLES outPc,             \* where each output adaptor's thread is
          offered,           \* the packets putPacket gave it
          counted,           \* the packets its pop task has sent
          unsampled,         \* those of the burst it is serving
          processed,         \* OutputAdaptor::processedPackets
          outReg             \* what each outNotify call loaded

VARIABLES routerPc, routerI, \* where the router's thread is
          nInpCount, totalInputPackets, allInpPacketsProcessed,
          nOutCount, allOutPacketsProcessed,
          processedPackets,
          analysed,          \* the samples performAnalysis found, per output
          raced              \* history: two inpNotify or two outNotify
                             \* calls overlapped

inpVars    == << inpPc, inpQueue, countReg, totalReg >>
outVars    == << outPc, offered, counted, unsampled, processed, outReg >>
notifyVars == << nInpCount, totalInputPackets, allInpPacketsProcessed,
                 nOutCount, allOutPacketsProcessed >>
routerVars == << routerPc, routerI, processedPackets, analysed >>

vars == << inpVars, outVars, notifyVars, routerVars, raced >>

InpNotifyPcs == {"storeCount", "loadTotal", "storeTotal", "test"}
OutNotifyPcs == {"storeCount", "testCount"}

Init ==
  /\ inpPc = [i \in Inputs |-> "off"]
  /\ inpQueue = Loads
  /\ countReg = [i \in Inputs |-> 0]
  /\ totalReg = [i \in Inputs |-> 0]
  /\ outPc = [o \in Outputs |-> "off"]
  /\ offered = [o \in Outputs |-> 0]
  /\ counted = [o \in Outputs |-> 0]
  /\ unsampled = [o \in Outputs |-> 0]
  /\ processed = [o \in Outputs |-> 0]
  /\ outReg = [o \in Outputs |-> 0]
  /\ routerPc = "startInp"
  /\ routerI = 0
  /\ nInpCount = 0
  /\ totalInputPackets = 0
  /\ allInpPacketsProcessed = FALSE
  /\ nOutCount = 0
  /\ allOutPacketsProcessed = FALSE
  /\ processedPackets = 0
  /\ analysed = [o \in Outputs |-> 0]
  /\ raced = FALSE

InpGoto(i, pc) == inpPc' = [inpPc EXCEPT ![i] = pc]
OutGoto(o, pc) == outPc' = [outPc EXCEPT ![o] = pc]
-----------------------------------------------------------------------------
(***************************************************************************)
(* An input adaptor (inputadaptor.cpp, borderRun): each packet is looked up*)
(* and handed to the buffer of its output adaptor; an empty queue ends the *)
(* loop.                                                                   *)
(***************************************************************************)
InpForward(i) ==
  /\ inpPc[i] = "loop"
  /\ inpQueue[i] # << >>
  /\ inpQueue' = [inpQueue EXCEPT ![i] = Tail(@)]
  /\ offered' = [offered EXCEPT ![Head(inpQueue[i])] = @ + 1]
  /\ UNCHANGED << inpPc, countReg, totalReg, outPc, counted, unsampled,
                  processed, outReg, notifyVars, routerVars, raced >>

(***************************************************************************)
(* inpNotify(num_input_packets), on the thread of input adaptor i.         *)
(***************************************************************************)
InpLoadCount(i) ==
  /\ inpPc[i] = "loop"
  /\ inpQueue[i] = << >>
  /\ countReg' = [countReg EXCEPT ![i] = nInpCount]
  /\ raced' = (raced \/ \E j \in Inputs : inpPc[j] \in InpNotifyPcs)
  /\ InpGoto(i, "storeCount")
  /\ UNCHANGED << inpQueue, totalReg, outVars, notifyVars, routerVars >>

InpStoreCount(i) ==
  /\ inpPc[i] = "storeCount"
  /\ nInpCount' = countReg[i] + 1
  /\ InpGoto(i, "loadTotal")
  /\ UNCHANGED << inpQueue, countReg, totalReg, outVars, totalInputPackets,
                  allInpPacketsProcessed, nOutCount, allOutPacketsProcessed,
                  routerVars, raced >>

InpLoadTotal(i) ==
  /\ inpPc[i] = "loadTotal"
  /\ totalReg' = [totalReg EXCEPT ![i] = totalInputPackets]
  /\ InpGoto(i, "storeTotal")
  /\ UNCHANGED << inpQueue, countReg, outVars, notifyVars, routerVars, raced >>

InpStoreTotal(i) ==
  /\ inpPc[i] = "storeTotal"
  /\ totalInputPackets' = totalReg[i] + num_input_packets[i]
  /\ InpGoto(i, "test")
  /\ UNCHANGED << inpQueue, countReg, totalReg, outVars, nInpCount,
                  allInpPacketsProcessed, nOutCount, allOutPacketsProcessed,
                  routerVars, raced >>

InpTest(i) ==
  /\ inpPc[i] = "test"
  /\ \E seen \in {nInpCount, countReg[i] + 1} :
       allInpPacketsProcessed' =
         (allInpPacketsProcessed \/ seen = NumInputs)
  /\ InpGoto(i, "end")
  /\ UNCHANGED << inpQueue, countReg, totalReg, outVars, nInpCount,
                  totalInputPackets, nOutCount, allOutPacketsProcessed,
                  routerVars, raced >>

InputStep(i) ==
  \/ InpForward(i)
  \/ InpLoadCount(i)
  \/ InpStoreCount(i)
  \/ InpLoadTotal(i)
  \/ InpStoreTotal(i)
  \/ InpTest(i)
-----------------------------------------------------------------------------
\* Mutant of InBurst: the burst has no end.
InBurstUnbounded(n) == TRUE

InBurst(n) == n < MaxBurst

(***************************************************************************)
(* The pop task of an output adaptor, seen from here: it sends a packet, or*)
(* ends a burst and records a sample for each packet of it.                *)
(***************************************************************************)
OutCount(o) ==
  /\ outPc[o] # "off"
  /\ counted[o] < offered[o]
  /\ InBurst(unsampled[o])
  /\ counted' = [counted EXCEPT ![o] = @ + 1]
  /\ unsampled' = [unsampled EXCEPT ![o] = @ + 1]
  /\ UNCHANGED << inpVars, outPc, offered, processed, outReg, notifyVars,
                  routerVars, raced >>

OutSample(o) ==
  /\ unsampled[o] > 0
  /\ unsampled' = [unsampled EXCEPT ![o] = 0]
  /\ UNCHANGED << inpVars, outPc, offered, counted, processed, outReg,
                  notifyVars, routerVars, raced >>

(***************************************************************************)
(* The adaptor's polling loop (outputadaptor.cpp, borderRun).              *)
(***************************************************************************)
OutRead(o) ==
  /\ outPc[o] = "read"
  /\ processed' = [processed EXCEPT ![o] = counted[o]]
  /\ OutGoto(o, "compare")
  /\ UNCHANGED << inpVars, offered, counted, unsampled, outReg, notifyVars,
                  routerVars, raced >>

\* Mutant of AllSent: the totals are not compared.
AllSentUnequal(o) == TRUE

AllSent(o) == counted[o] = offered[o]

OutAgain(o) ==
  /\ outPc[o] = "compare"
  /\ ~ AllSent(o)
  /\ OutGoto(o, "read")
  /\ UNCHANGED << inpVars, offered, counted, unsampled, processed, outReg,
                  notifyVars, routerVars, raced >>

(***************************************************************************)
(* outNotify(), on the thread of output adaptor o.                         *)
(***************************************************************************)
OutLoadCount(o) ==
  /\ outPc[o] = "compare"
  /\ AllSent(o)
  /\ outReg' = [outReg EXCEPT ![o] = nOutCount]
  /\ raced' = (raced \/ \E p \in Outputs : outPc[p] \in OutNotifyPcs)
  /\ OutGoto(o, "storeCount")
  /\ UNCHANGED << inpVars, offered, counted, unsampled, processed, notifyVars,
                  routerVars >>

OutStoreCount(o) ==
  /\ outPc[o] = "storeCount"
  /\ nOutCount' = outReg[o] + 1
  /\ OutGoto(o, "testCount")
  /\ UNCHANGED << inpVars, offered, counted, unsampled, processed, outReg,
                  nInpCount, totalInputPackets, allInpPacketsProcessed,
                  allOutPacketsProcessed, routerVars, raced >>

\* Mutant of AllNotified: it waits for one adaptor more.
AllNotifiedBeyond(n) == n > NumOutputs

AllNotified(n) == n = NumOutputs

OutTest(o) ==
  /\ outPc[o] = "testCount"
  /\ \E seen \in {nOutCount, outReg[o] + 1} :
       allOutPacketsProcessed' = (allOutPacketsProcessed \/ AllNotified(seen))
  /\ OutGoto(o, "end")
  /\ UNCHANGED << inpVars, offered, counted, unsampled, processed, outReg,
                  nInpCount, totalInputPackets, allInpPacketsProcessed,
                  nOutCount, routerVars, raced >>

OutputStep(o) ==
  \/ OutRead(o)
  \/ OutAgain(o)
  \/ OutLoadCount(o)
  \/ OutStoreCount(o)
  \/ OutTest(o)
-----------------------------------------------------------------------------
(***************************************************************************)
(* The router's thread.                                                    *)
(***************************************************************************)
StartInput ==
  /\ routerPc = "startInp"
  /\ InpGoto(routerI, "loop")
  /\ routerI' = (routerI + 1) % NumInputs
  /\ routerPc' = IF routerI + 1 = NumInputs THEN "awaitInp" ELSE "startInp"
  /\ UNCHANGED << inpQueue, countReg, totalReg, outVars, notifyVars,
                  processedPackets, analysed, raced >>

\* Mutant of InputsDone: one input adaptor is enough.
InputsDoneFirst == nInpCount > 0

InputsDone == allInpPacketsProcessed

SeeInputs ==
  /\ routerPc = "awaitInp"
  /\ InputsDone
  /\ routerPc' = "startOut"
  /\ UNCHANGED << inpVars, outVars, notifyVars, routerI, processedPackets,
                  analysed, raced >>

StartOutput ==
  /\ routerPc = "startOut"
  /\ OutGoto(routerI, "read")
  /\ routerI' = (routerI + 1) % NumOutputs
  /\ routerPc' = IF routerI + 1 = NumOutputs THEN "clear" ELSE "startOut"
  /\ UNCHANGED << inpVars, offered, counted, unsampled, processed, outReg,
                  notifyVars, processedPackets, analysed, raced >>

(***************************************************************************)
(* One round of the monitoring loop: clear the total, add the adaptors' one*)
(* by one, and only then look whether they have finished.                  *)
(***************************************************************************)
ClearTotal ==
  /\ routerPc = "clear"
  /\ processedPackets' = 0
  /\ routerPc' = "add"
  /\ UNCHANGED << inpVars, outVars, notifyVars, routerI, analysed, raced >>

AddTotal ==
  /\ routerPc = "add"
  /\ processedPackets' = processedPackets + processed[routerI]
  /\ routerI' = (routerI + 1) % NumOutputs
  /\ routerPc' = IF routerI + 1 = NumOutputs THEN "look" ELSE "add"
  /\ UNCHANGED << inpVars, outVars, notifyVars, analysed, raced >>

\* Mutant of OutputsDone: one output adaptor is enough.
OutputsDoneFirst == nOutCount > 0

OutputsDone == allOutPacketsProcessed

LookAgain ==
  /\ routerPc = "look"
  /\ ~ OutputsDone
  /\ routerPc' = "clear"
  /\ UNCHANGED << inpVars, outVars, notifyVars, routerI, processedPackets,
                  analysed, raced >>

LookDone ==
  /\ routerPc = "look"
  /\ OutputsDone
  /\ routerPc' = "analyse"
  /\ UNCHANGED << inpVars, outVars, notifyVars, routerI, processedPackets,
                  analysed, raced >>

(***************************************************************************)
(* performAnalysis(): it reads the samples recorded so far, and sums the   *)
(* adaptors' totals once more.                                             *)
(***************************************************************************)
PerformAnalysis ==
  /\ routerPc = "analyse"
  /\ analysed' = [o \in Outputs |-> counted[o] - unsampled[o]]
  /\ processedPackets' = SumFunction(processed)
  /\ routerPc' = "end"
  /\ UNCHANGED << inpVars, outVars, notifyVars, routerI, raced >>

RouterStep ==
  \/ StartInput
  \/ SeeInputs
  \/ StartOutput
  \/ ClearTotal
  \/ AddTotal
  \/ LookAgain
  \/ LookDone
  \/ PerformAnalysis

Next ==
  \/ RouterStep
  \/ \E i \in Inputs : InputStep(i)
  \/ \E o \in Outputs : OutputStep(o) \/ OutCount(o) \/ OutSample(o)

(***************************************************************************)
(* Every thread runs; an adaptor whose notify calls do not race sends      *)
(* everything (Finishes of BorderOutputAdaptor).                           *)
(***************************************************************************)
Fairness ==
  /\ WF_vars(RouterStep)
  /\ \A i \in Inputs : WF_vars(InputStep(i))
  /\ \A o \in Outputs : WF_vars(OutputStep(o)) /\ WF_vars(OutCount(o))
                        /\ WF_vars(OutSample(o))

Spec == Init /\ [][Next]_vars /\ Fairness
-----------------------------------------------------------------------------
(***************************************************************************)
(* The output side starts when every packet of every input is in a buffer, *)
(* even if inpNotify calls overlapped: this is what lets an output adaptor *)
(* assume that nothing is put into its buffers once it runs.               *)
(***************************************************************************)
TotalLoad == SumFunction([i \in Inputs |-> Len(Loads[i])])

FilledBeforeStart ==
  (\E o \in Outputs : outPc[o] # "off") =>
    /\ \A i \in Inputs : inpQueue[i] = << >>
    /\ SumFunction(offered) = TotalLoad

(***************************************************************************)
(* The router never analyses early: when it leaves its monitoring loop     *)
(* every output adaptor has sent everything, whatever outNotify calls lost.*)
(* The number of packets it has by then is, unless inpNotify calls raced,  *)
(* the sum of what the input adaptors counted: less than what was sent by a*)
(* packet for each trace with a rest.                                      *)
(***************************************************************************)
AnalysesLast ==
  routerPc \in {"analyse", "end"} =>
    /\ counted = offered
    /\ ~ raced => totalInputPackets = SumFunction(num_input_packets)

(***************************************************************************)
(* Each output adaptor, as it is used here, is an AdaptorSummary, which the*)
(* BorderOutputAdaptor is too.                                             *)
(***************************************************************************)
Summary(o) == INSTANCE AdaptorSummary WITH
  offered <- offered[o],
  counted <- counted[o],
  copied  <- processed[o],
  phase   <- CASE outPc[o] = "off" -> "idle"
               [] outPc[o] \in {"read", "compare"} -> "running"
               [] OTHER -> "done",
  raced   <- FALSE

SummarySpecs ==
  /\ \A o \in Outputs : Summary(o)!Init
  /\ [][\A o \in Outputs : [Summary(o)!Next]_(Summary(o)!vars)]_vars

(***************************************************************************)
(* The router finishes, unless notify calls raced.                         *)
(***************************************************************************)
Finishes == <>(routerPc = "end" \/ raced)

(***************************************************************************)
(* "The queue pop task also keep track of the queue depth and packet       *)
(* residence time" (README.md:27), but it counts a packet before it serves *)
(* it and samples it afterwards, and the adaptor goes by the count.  The   *)
(* analysis may lack the samples of the last burst, and of no other.       *)
(***************************************************************************)
MissesOneBurst ==
  routerPc = "end" =>
    \A o \in Outputs : offered[o] - analysed[o] \in 0 .. MaxBurst
=============================================================================
