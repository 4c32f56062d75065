---------------------------- MODULE CoreNetwork ----------------------------
(***************************************************************************)
(* The core routers and the links between them: the path of a packet from  *)
(* the moment r0 puts it on a link until an output adaptor writes it to a  *)
(* file.  Each input adaptor and each output adaptor is a thread.          *)
(*                                                                         *)
(* A packet belongs to a class, which stands for its destination address   *)
(* and the dscp that r0 wrote into it.  Its flow is the routers it went    *)
(* through, which the code keeps as the digits of a number.  Left out are  *)
(* times and sizes, the samples of the queues (see DeQueueProcessor) and   *)
(* the counters of packets processed, which are only printed.              *)
(***************************************************************************)
EXTENDS Naturals, SequencesExt

CONSTANTS Routers,      \* the core routers
          Packets,
          ClassOf,      \* the class of each packet
          Code,         \* the dscp of each class
          Entry         \* the input adaptor at r0's link, for each class

\* The configuration; routers, ports and queues are numbered from 1.
CONSTANTS numInputs,    \* of each router
          numQueues,    \* for each output of a router
          qWeights,     \* the weights of a router's queues, all in a row
          diffServices, \* their dscps, all in a row
          links,        \* << router, output >> to << router, input >>
          routes,       \* what lookUp finds: << port, queue >>
          DiffServ,     \* Router::serviceType is DIFFSERV
          AllowStop     \* bound: whether Router::stop may be called

InAdaptors  == UNION {{r} \X (1 .. numInputs[r]) : r \in Routers}
OutAdaptors == UNION {{r} \X (1 .. Len(numQueues[r])) : r \in Routers}
Queues(a)   == 1 .. numQueues[a[1]][a[2]]
Classes     == DOMAIN Code

\* An output adaptor with no link writes to a file.
Destinations == OutAdaptors \ DOMAIN links

ASSUME RoutersAssumption == IsFiniteSet(Routers)
ASSUME PortsAssumption ==
  /\ numInputs \in [Routers -> Nat]
  /\ numQueues \in [Routers -> Seq(Nat \ {0})]
ASSUME LinksAssumption ==
  /\ DOMAIN links \subseteq OutAdaptors
  /\ links \in [DOMAIN links -> InAdaptors]
ASSUME EntryAssumption == Entry \in [Classes -> InAdaptors]
ASSUME ClassAssumption == ClassOf \in [Packets -> Classes]
ASSUME StopAssumption == AllowStop \in BOOLEAN

(***************************************************************************)
(* Router::initiate cuts the lists of the .ini file into one piece for each*)
(* output adaptor.                                                         *)
(***************************************************************************)
Before(a) == SumFunction(SubSeq(numQueues[a[1]], 1, a[2] - 1))

Slice(list, a) ==
  SubSeq(list, Before(a) + 1, Before(a) + numQueues[a[1]][a[2]])

Weight        == [a \in OutAdaptors |-> Slice(qWeights[a[1]], a)]
diffServCodes == [a \in OutAdaptors |-> Slice(diffServices[a[1]], a)]

(***************************************************************************)
(* Where router r sends class c.  indexOf, counted from 1, is 0 for a dscp *)
(* that the port does not offer.                                           *)
(***************************************************************************)
Port(r, c) == << r, routes[r][c][1] >>

QNum ==
  [r \in Routers |-> [c \in Classes |->
     IF DiffServ
     THEN SelectInSeq(diffServCodes[Port(r, c)], LAMBDA code : code = Code[c])
     ELSE routes[r][c][2]]]

VARIABLES sent,         \* history: the packets r0 sent, in this order
          flow,         \* the routers each packet has gone through
          inpQueue,     \* the queue of each input adaptor
          inpHand,      \* the packet it has popped
          outQueue,     \* the queues of each output adaptor
          outPc, qNum, i, \* where its thread is: queue, place in the burst
          outHand,      \* the packet it has popped
          written,      \* history: what it has passed to outFile->write
          outFile,      \* what the file holds
          doTerminate, closed, \* how far terminate() is with it
          flowMap, flowCount, flowTotalPackets,
          toDest        \* OutputAdaptor::processedPacketsToDest

inpVars  == << inpQueue, inpHand >>
outVars  == << outPc, qNum, i, outHand >>
fileVars == << written, outFile >>
stopVars == << doTerminate, closed >>
flowVars == << flowMap, flowCount, flowTotalPackets >>

vars == << sent, flow, inpVars, outQueue, outVars, fileVars, stopVars,
           flowVars, toDest >>

Init ==
  /\ sent = << >>
  /\ flow = [p \in Packets |-> << >>]
  /\ inpQueue = [a \in InAdaptors |-> << >>]
  /\ inpHand = [a \in InAdaptors |-> << >>]
  /\ outQueue = [a \in OutAdaptors |-> [q \in Queues(a) |-> << >>]]
  /\ outPc = [a \in OutAdaptors |-> "next"]
  /\ qNum = [a \in OutAdaptors |-> numQueues[a[1]][a[2]]]
  /\ i = [a \in OutAdaptors |-> 0]
  /\ outHand = [a \in OutAdaptors |-> << >>]
  /\ written = [a \in Destinations |-> << >>]
  /\ outFile = [a \in Destinations |-> << >>]
  /\ doTerminate = [a \in OutAdaptors |-> FALSE]
  /\ closed = [a \in Destinations |-> FALSE]
  /\ flowMap = [a \in Destinations |-> << >>]
  /\ flowCount = [a \in Destinations |-> 1]
  /\ flowTotalPackets = [a \in Destinations |-> << >>]
  /\ toDest = [a \in Destinations |-> 0]
-----------------------------------------------------------------------------
\* Mutant of InsertPacket: a stack instead of a queue.
InsertPacketFront(p, a) == inpQueue' = [inpQueue EXCEPT ![a] = << p >> \o @]

(***************************************************************************)
(* Link::transfer, Router::insertPacket and InputAdaptor::insertInQueue.   *)
(***************************************************************************)
InsertPacket(p, a) == inpQueue' = [inpQueue EXCEPT ![a] = Append(@, p)]

\* Mutant of Transfer: the next router in the list, whatever the link says.
TransferNext(p, a) == InsertPacket(p, << a[1] + 1, 1 >>)

Transfer(p, a) == InsertPacket(p, links[a])

\* The border router sends a packet.  Its pop task sets the flow.
Send(p) ==
  /\ p \notin ToSet(sent)
  /\ sent' = Append(sent, p)
  /\ flow' = [flow EXCEPT ![p] = << 0 >>]
  /\ InsertPacket(p, Entry[ClassOf[p]])
  /\ UNCHANGED << inpHand, outQueue, outVars, fileVars, stopVars,
                  flowVars, toDest >>

(***************************************************************************)
(* InputAdaptor::coreRun: pop a packet, look up where it goes and hand it  *)
(* to the output adaptor, whose putPacket takes a lock.  With a queue that *)
(* the port does not have the packet is gone here; in the code that is     *)
(* undefined, and what follows is outside the model.                       *)
(***************************************************************************)
InputPop(a) ==
  /\ inpHand[a] = << >>
  /\ inpQueue[a] # << >>
  /\ inpHand' = [inpHand EXCEPT ![a] = << Head(inpQueue[a]) >>]
  /\ inpQueue' = [inpQueue EXCEPT ![a] = Tail(@)]
  /\ UNCHANGED << sent, flow, outQueue, outVars, fileVars, stopVars,
                  flowVars, toDest >>

InputFabric(a) ==
  \E p \in ToSet(inpHand[a]) :
    /\ outQueue' = [outQueue EXCEPT
                      ![Port(a[1], ClassOf[p])][QNum[a[1]][ClassOf[p]]] =
                        Append(@, p)]
    /\ inpHand' = [inpHand EXCEPT ![a] = << >>]
    /\ UNCHANGED << sent, flow, inpQueue, outVars, fileVars, stopVars,
                  flowVars, toDest >>

InputStep(a) == InputPop(a) \/ InputFabric(a)
-----------------------------------------------------------------------------
(***************************************************************************)
(* OutputAdaptor::coreRun.  It goes round its queues; from one that is not *)
(* empty it takes up to its weight of packets, one after the other.        *)
(***************************************************************************)
Goto(a, pc) == outPc' = [outPc EXCEPT ![a] = pc]

NextQueue(a) == (qNum[a] % numQueues[a[1]][a[2]]) + 1

\* Mutant of OutputSkip: it stays with the empty queue.
OutputSkipStay(a) ==
  /\ outPc[a] = "next"
  /\ ~ doTerminate[a]
  /\ outQueue[a][NextQueue(a)] = << >>
  /\ UNCHANGED vars

OutputSkip(a) ==
  /\ outPc[a] = "next"
  /\ ~ doTerminate[a]
  /\ outQueue[a][NextQueue(a)] = << >>
  /\ qNum' = [qNum EXCEPT ![a] = NextQueue(a)]
  /\ UNCHANGED << sent, flow, inpVars, outQueue, outPc, i, outHand, fileVars,
                  stopVars, flowVars, toDest >>

OutputVisit(a) ==
  /\ outPc[a] = "next"
  /\ ~ doTerminate[a]
  /\ outQueue[a][NextQueue(a)] # << >>
  /\ qNum' = [qNum EXCEPT ![a] = NextQueue(a)]
  /\ i' = [i EXCEPT ![a] = 0]
  /\ Goto(a, "pop")
  /\ UNCHANGED << sent, flow, inpVars, outQueue, outHand, fileVars, stopVars,
                  flowVars, toDest >>

OutputEnd(a) ==
  /\ outPc[a] = "next"
  /\ doTerminate[a]
  /\ Goto(a, "end")
  /\ UNCHANGED << sent, flow, inpVars, outQueue, qNum, i, outHand, fileVars,
                  stopVars, flowVars, toDest >>

OutputPop(a) ==
  LET q == qNum[a]
      p == Head(outQueue[a][q])
  IN  /\ outPc[a] = "pop"
      /\ i[a] < Weight[a][q]
      /\ outQueue[a][q] # << >>
      /\ outQueue' = [outQueue EXCEPT ![a][q] = Tail(@)]
      /\ outHand' = [outHand EXCEPT ![a] = << p >>]
      /\ flow' = [flow EXCEPT ![p] = Append(@, a[1])]
      /\ Goto(a, IF a \in DOMAIN links THEN "transfer" ELSE "write")
      /\ UNCHANGED << sent, inpVars, qNum, i, fileVars, stopVars, flowVars,
                      toDest >>

\* The burst is over: sleep for the service time and go on.
OutputService(a) ==
  /\ outPc[a] = "pop"
  /\ i[a] = Weight[a][qNum[a]] \/ outQueue[a][qNum[a]] = << >>
  /\ Goto(a, "next")
  /\ UNCHANGED << sent, flow, inpVars, outQueue, qNum, i, outHand, fileVars,
                  stopVars, flowVars, toDest >>

EndPacket(a) ==
  /\ outHand' = [outHand EXCEPT ![a] = << >>]
  /\ i' = [i EXCEPT ![a] = @ + 1]
  /\ Goto(a, "pop")
  /\ UNCHANGED << sent, flow, inpHand, outQueue, qNum, fileVars, stopVars,
                  flowVars >>

OutputTransfer(a) ==
  /\ outPc[a] = "transfer"
  /\ Transfer(Head(outHand[a]), a)
  /\ EndPacket(a)
  /\ UNCHANGED toDest

(***************************************************************************)
(* Without a link: pass the packet to write, which fails on a closed file, *)
(* account for its flow, and count it.                                     *)
(***************************************************************************)
OutputWrite(a) ==
  /\ outPc[a] = "write"
  /\ written' = [written EXCEPT ![a] = @ \o outHand[a]]
  /\ \/ ~ closed[a] /\ outFile' = [outFile EXCEPT ![a] = @ \o outHand[a]]
     \/ closed[a] /\ UNCHANGED outFile
  /\ Goto(a, "flow")
  /\ UNCHANGED << sent, flow, inpVars, outQueue, qNum, i, outHand, stopVars,
                  flowVars, toDest >>

FlowInHand(a) == flow[Head(outHand[a])]

\* QMap::insert of a key that the map does not have yet.
Inserted(map, key, value) ==
  [k \in DOMAIN map \cup {key} |-> IF k = key THEN value ELSE map[k]]

(***************************************************************************)
(* A flow that is new gets a number, then a total of 0 and then, as a known*)
(* one does, its packet added.  flowCount is a local variable.             *)
(***************************************************************************)
FlowNumber(a) ==
  /\ outPc[a] = "flow"
  /\ FlowInHand(a) \notin DOMAIN flowMap[a]
  /\ flowMap' = [flowMap EXCEPT ![a] =
                   Inserted(@, FlowInHand(a), flowCount[a])]
  /\ Goto(a, "total")
  /\ UNCHANGED << sent, flow, inpVars, outQueue, qNum, i, outHand, fileVars,
                  stopVars, flowCount, flowTotalPackets, toDest >>

FlowTotal(a) ==
  /\ outPc[a] = "total"
  /\ flowTotalPackets' =
       [flowTotalPackets EXCEPT ![a] = Inserted(@, flowCount[a], 0)]
  /\ flowCount' = [flowCount EXCEPT ![a] = @ + 1]
  /\ Goto(a, "flow")
  /\ UNCHANGED << sent, flow, inpVars, outQueue, qNum, i, outHand, fileVars,
                  stopVars, flowMap, toDest >>

\* Mutant of FlowAdd: the total starts again.
FlowAddReset(a) ==
  /\ outPc[a] = "flow"
  /\ FlowInHand(a) \in DOMAIN flowMap[a]
  /\ flowTotalPackets' =
       [flowTotalPackets EXCEPT ![a][flowMap[a][FlowInHand(a)]] = 1]
  /\ Goto(a, "count")
  /\ UNCHANGED << sent, flow, inpVars, outQueue, qNum, i, outHand, fileVars,
                  stopVars, flowMap, flowCount, toDest >>

FlowAdd(a) ==
  /\ outPc[a] = "flow"
  /\ FlowInHand(a) \in DOMAIN flowMap[a]
  /\ flowTotalPackets' =
       [flowTotalPackets EXCEPT ![a][flowMap[a][FlowInHand(a)]] = @ + 1]
  /\ Goto(a, "count")
  /\ UNCHANGED << sent, flow, inpVars, outQueue, qNum, i, outHand, fileVars,
                  stopVars, flowMap, flowCount, toDest >>

OutputCount(a) ==
  /\ outPc[a] = "count"
  /\ toDest' = [toDest EXCEPT ![a] = @ + 1]
  /\ EndPacket(a)
  /\ UNCHANGED inpQueue

OutputStep(a) ==
  \/ OutputSkip(a) \/ OutputVisit(a) \/ OutputEnd(a)
  \/ OutputPop(a) \/ OutputService(a)
  \/ OutputTransfer(a) \/ OutputWrite(a)
  \/ FlowNumber(a) \/ FlowTotal(a) \/ FlowAdd(a) \/ OutputCount(a)
-----------------------------------------------------------------------------
(***************************************************************************)
(* OutputAdaptor::terminate, called by Router::stop: set the flag, close   *)
(* the file, if there is one, and kill the thread.  The kill takes effect  *)
(* when it does: an adaptor that terminate() has come to may take further  *)
(* steps, and any of them may be its last.  The same holds of the input    *)
(* adaptors, on which nothing but the kill is called.  The main thread goes*)
(* through the routers, and through the adaptors of each, in order.        *)
(***************************************************************************)
Precedes(b, a) == b[1] < a[1] \/ (b[1] = a[1] /\ b[2] < a[2])

Terminate(a) ==
  /\ AllowStop
  /\ ~ doTerminate[a]
  /\ \A b \in OutAdaptors :
       Precedes(b, a) => doTerminate[b] /\ (b \in Destinations => closed[b])
  /\ doTerminate' = [doTerminate EXCEPT ![a] = TRUE]
  /\ UNCHANGED << sent, flow, inpVars, outQueue, outVars, fileVars, closed,
                  flowVars, toDest >>

Close(a) ==
  /\ doTerminate[a]
  /\ ~ closed[a]
  /\ closed' = [closed EXCEPT ![a] = TRUE]
  /\ UNCHANGED << sent, flow, inpVars, outQueue, outVars, fileVars,
                  doTerminate, flowVars, toDest >>
-----------------------------------------------------------------------------
Next ==
  \/ \E p \in Packets : Send(p)
  \/ \E a \in InAdaptors : InputStep(a)
  \/ \E a \in OutAdaptors : OutputStep(a) \/ Terminate(a)
  \/ \E a \in Destinations : Close(a)

(***************************************************************************)
(* Every adaptor is a thread that runs, until terminate() has been called; *)
(* the border router and the main thread owe nothing.                      *)
(***************************************************************************)
Stopping == \E a \in OutAdaptors : doTerminate[a]

Fairness ==
  /\ \A a \in InAdaptors : WF_vars(~ Stopping /\ InputStep(a))
  /\ \A a \in OutAdaptors : WF_vars(~ Stopping /\ OutputStep(a))

Spec == Init /\ [][Next]_vars /\ Fairness
-----------------------------------------------------------------------------
(***************************************************************************)
(* The input adaptors that class c passes, up to one whose output adaptor  *)
(* has a file.  A class that came to a router twice would never leave, so  *)
(* a path is not longer than there are routers; every class has one.       *)
(***************************************************************************)
IsPath(s, c) ==
  /\ s[1] = Entry[c]
  /\ \A k \in 1 .. (Len(s) - 1) :
       /\ Port(s[k][1], c) \in DOMAIN links
       /\ s[k + 1] = links[Port(s[k][1], c)]
  /\ Port(Last(s)[1], c) \in Destinations

Paths(c) ==
  {s \in UNION {[1 .. n -> InAdaptors] : n \in 1 .. Cardinality(Routers)} :
     IsPath(s, c)}

ASSUME RoutesAssumption == \A c \in Classes : Paths(c) # {}

Path == [c \in Classes |-> CHOOSE s \in Paths(c) : TRUE]

Destination == [c \in Classes |-> Port(Last(Path[c])[1], c)]

(***************************************************************************)
(* What the tables and the .ini files owe to a class: the port that it     *)
(* takes at a router of its path has a queue for it.                       *)
(***************************************************************************)
QueuesOffered ==
  \A c \in Classes : \A k \in DOMAIN Path[c] :
    LET r == Path[c][k][1]
    IN  QNum[r][c] \in Queues(Port(r, c))

(***************************************************************************)
(* Where class c may be at the k-th router of its path, from the link to   *)
(* the file, and all the positions there: << router, place, index >>.      *)
(***************************************************************************)
Places(c, k) ==
  LET a == Path[c][k]
      o == Port(a[1], c)
  IN  << inpQueue[a], inpHand[a], outQueue[o][QNum[a[1]][c]],
         IF outPc[o] \in {"transfer", "write"} THEN outHand[o] ELSE << >>,
         IF o \in Destinations THEN written[o] ELSE << >> >>

Positions(c) ==
  UNION {UNION {{k} \X {n} \X DOMAIN Places(c, k)[n] : n \in 1 .. 5} :
           k \in DOMAIN Path[c]}

At(c, x) == Places(c, x[1])[x[2]][x[3]]

\* Position x is further on than y.
Further(x, y) ==
  \/ x[1] > y[1]
  \/ x[1] = y[1] /\ x[2] > y[2]
  \/ x[1] = y[1] /\ x[2] = y[2] /\ x[3] < y[3]

SentBefore(p, r) ==
  \E j \in DOMAIN sent : \E m \in 1 .. (j - 1) : sent[m] = p /\ sent[j] = r

(***************************************************************************)
(* No packet is lost, duplicated or misdelivered, and none overtakes one   *)
(* of its class: what was sent is on its path or passed to its file, and   *)
(* what is further on was sent before, nothing being sent before itself.   *)
(***************************************************************************)
InOrder ==
  /\ \A c \in Classes :
       LET mine == {x \in Positions(c) : ClassOf[At(c, x)] = c}
       IN  /\ {At(c, x) : x \in mine} = {p \in ToSet(sent) : ClassOf[p] = c}
           /\ \A x, y \in mine :
                Further(x, y) => SentBefore(At(c, x), At(c, y))
  /\ \A a \in Destinations : \A p \in ToSet(written[a]) :
       Destination[ClassOf[p]] = a

(***************************************************************************)
(* A packet comes to no input adaptor off the path of its class, whatever  *)
(* queues the ports offer.  coreRun does not look at the -1 of indexOf: so *)
(* it is QueuesOffered, of the ports on the paths, that keeps it from using*)
(* a queue that is not there.                                              *)
(***************************************************************************)
OnlyOnPath ==
  \A a \in InAdaptors : \A p \in ToSet(inpHand[a]) :
    a \in ToSet(Path[ClassOf[p]])

(***************************************************************************)
(* The books of a destination at any step of its thread, which terminate() *)
(* may make its last.  The total of each flow is the number of packets     *)
(* written that came that way, without the one in hand if that has not been*)
(* added yet: its flow, if new, may then be in flowMap already, with no    *)
(* total or a total of 0.  A packet is not counted before it is added.  The*)
(* file has every packet passed to it, but those passed when terminate()   *)
(* had closed it, which are in the totals and counted all the same.        *)
(***************************************************************************)
FlowTotalsExact ==
  \A a \in Destinations :
    LET added == IF outPc[a] \in {"flow", "total"} THEN Front(written[a])
                                                  ELSE written[a]
        flows == {flow[p] : p \in ToSet(added)}
    IN  /\ flows \subseteq DOMAIN flowMap[a]
        /\ \A f \in flows :
             flowTotalPackets[a][flowMap[a][f]] =
               Cardinality({k \in DOMAIN added : flow[added[k]] = f})
        /\ \A f \in DOMAIN flowMap[a] \ flows :
             /\ added # written[a] /\ f = FlowInHand(a)
             /\ IF outPc[a] = "total"
                THEN flowMap[a][f] \notin DOMAIN flowTotalPackets[a]
                ELSE flowTotalPackets[a][flowMap[a][f]] = 0
        /\ toDest[a] <= Len(added)
        /\ IsPrefix(outFile[a], written[a])
        /\ ~ closed[a] => outFile[a] = written[a]

(***************************************************************************)
(* To the main thread the core network delivers what was sent, and all of  *)
(* it unless it is being stopped: this is what Network assumes of Deliver, *)
(* its fairness included.                                                  *)
(***************************************************************************)
Delivery == INSTANCE CoreDelivery WITH sent <- Len(sent), stopping <- Stopping

DeliverySpec == Delivery!Spec
=============================================================================
