-------------------------- MODULE CoreNetworkProofs --------------------------
(***************************************************************************)
(* Theorems about the core routers, for any number of routers, ports,      *)
(* queues, links, classes and packets.                                     *)
(***************************************************************************)
EXTENDS CoreNetwork, OperatorTheorems, SequenceTheorems

Pcs == {"next", "pop", "transfer", "write", "flow", "total", "count", "end"}

(***************************************************************************)
(* The types, and what an output adaptor is doing when it holds a packet.  *)
(***************************************************************************)
OutTypes(a) ==
  /\ outQueue[a] \in [Queues(a) -> Seq(Packets)]
  /\ outPc[a] \in Pcs
  /\ qNum[a] \in Queues(a)
  /\ outHand[a] \in Seq(Packets)
  /\ Len(outHand[a]) = IF outPc[a] \in {"next", "pop", "end"} THEN 0 ELSE 1
  /\ outPc[a] = "transfer" => a \in DOMAIN links
  /\ outPc[a] \in {"write", "flow", "total", "count"} => a \in Destinations

Types ==
  /\ sent \in Seq(Packets)
  /\ DOMAIN flow = Packets
  /\ inpQueue \in [InAdaptors -> Seq(Packets)]
  /\ inpHand \in [InAdaptors -> Seq(Packets)]
  /\ \A a \in InAdaptors : Len(inpHand[a]) <= 1
  /\ DOMAIN outQueue = OutAdaptors
  /\ DOMAIN outPc = OutAdaptors
  /\ DOMAIN qNum = OutAdaptors
  /\ DOMAIN i = OutAdaptors
  /\ DOMAIN outHand = OutAdaptors
  /\ \A a \in OutAdaptors : OutTypes(a)
  /\ written \in [Destinations -> Seq(Packets)]

LEMMA QueueNumbers ==
  ASSUME NEW a \in OutAdaptors
  PROVE  /\ numQueues[a[1]][a[2]] \in Nat \ {0}
         /\ numQueues[a[1]][a[2]] \in Queues(a)
         /\ \A n \in Queues(a) : (n % numQueues[a[1]][a[2]]) + 1 \in Queues(a)
  <1>1. PICK r \in Routers : a \in {r} \X (1 .. Len(numQueues[r]))
    BY DEF OutAdaptors
  <1>2. a[1] = r /\ a[2] \in 1 .. Len(numQueues[r])
    BY <1>1
  <1>3. numQueues[r] \in Seq(Nat \ {0})
    BY PortsAssumption
  <1>4. numQueues[a[1]][a[2]] \in Nat \ {0}
    BY <1>2, <1>3
  <1> QED
    BY <1>4 DEF Queues

LEMMA HeadOfOne ==
  ASSUME NEW s \in Seq(Packets), Len(s) # 0
  PROVE  s # << >> /\ Head(s) \in Packets /\ Tail(s) \in Seq(Packets)
  OBVIOUS

LEMMA TypesInit == Init => Types
  <1> SUFFICES ASSUME Init PROVE Types
    OBVIOUS
  <1>1. ASSUME NEW a \in OutAdaptors
        PROVE  OutTypes(a)
    BY <1>1, QueueNumbers DEF Init, OutTypes, Pcs
  <1> QED
    BY <1>1 DEF Init, Types

LEMMA LinksLead == \A a \in DOMAIN links : links[a] \in InAdaptors
  BY LinksAssumption

LEMMA EntriesLead ==
  ASSUME NEW p \in Packets
  PROVE  ClassOf[p] \in Classes /\ Entry[ClassOf[p]] \in InAdaptors
  BY ClassAssumption, EntryAssumption

(***************************************************************************)
(* A step of one output adaptor leaves the others as they are.             *)
(***************************************************************************)
OutKept(a) ==
  /\ outQueue'[a] = outQueue[a]
  /\ outPc'[a] = outPc[a]
  /\ qNum'[a] = qNum[a]
  /\ outHand'[a] = outHand[a]

LEMMA OutTypesKept ==
  ASSUME NEW a, OutTypes(a), OutKept(a)
  PROVE  OutTypes(a)'
  BY DEF OutTypes, OutKept, Queues, Destinations, OutAdaptors, Pcs

LEMMA TypesNext == Types /\ [Next]_vars => Types'
  <1> SUFFICES ASSUME Types, [Next]_vars PROVE Types'
    OBVIOUS
  <1> USE DEF Types
  <1>1. ASSUME NEW p \in Packets, Send(p)
        PROVE  Types'
    <2>1. \A a \in OutAdaptors : OutTypes(a)'
      BY <1>1, OutTypesKept DEF Send, OutKept, outVars
    <2> QED
      BY <1>1, <2>1, EntriesLead DEF Send, InsertPacket, outVars, fileVars
  <1>2. ASSUME NEW a \in InAdaptors, InputPop(a)
        PROVE  Types'
    <2>1. \A b \in OutAdaptors : OutTypes(b)'
      BY <1>2, OutTypesKept DEF InputPop, OutKept, outVars
    <2>2. Head(inpQueue[a]) \in Packets /\ Tail(inpQueue[a]) \in Seq(Packets)
      BY <1>2 DEF InputPop
    <2>3. inpHand'[a] = << Head(inpQueue[a]) >> /\ \A b \in InAdaptors : b # a => inpHand'[b] = inpHand[b]
      BY <1>2 DEF InputPop
    <2>4. ASSUME NEW b \in InAdaptors
          PROVE  Len(inpHand'[b]) <= 1
      <3>1. Len(<< Head(inpQueue[a]) >>) <= 1
        OBVIOUS
      <3>2. CASE b = a
        BY <2>3, <3>1, <3>2, Zenon
      <3>3. CASE b # a
        <4>1. inpHand'[b] = inpHand[b]
          BY <2>3, <3>3
        <4> QED
          BY <4>1
      <3> QED
        BY <3>2, <3>3
    <2>5. inpHand' \in [InAdaptors -> Seq(Packets)]
      BY <1>2, <2>2 DEF InputPop
    <2>6. inpQueue' \in [InAdaptors -> Seq(Packets)]
      BY <1>2, <2>2 DEF InputPop
    <2> QED
      BY <1>2, <2>1, <2>4, <2>5, <2>6 DEF InputPop, outVars, fileVars
  <1>3. ASSUME NEW a \in InAdaptors, InputFabric(a)
        PROVE  Types'
    <2>1. PICK p \in ToSet(inpHand[a]) :
            /\ outQueue' = [outQueue EXCEPT
                   ![Port(a[1], ClassOf[p])][QNum[a[1]][ClassOf[p]]] =
                     Append(@, p)]
            /\ inpHand' = [inpHand EXCEPT ![a] = << >>]
            /\ UNCHANGED << sent, flow, inpQueue, outVars, written >>
      BY <1>3 DEF InputFabric, fileVars
    <2> DEFINE o == Port(a[1], ClassOf[p])
               q == QNum[a[1]][ClassOf[p]]
    <2>2. p \in Packets
      BY DEF ToSet
    <2> HIDE DEF o, q
    <2>3. DOMAIN outQueue' = OutAdaptors
      BY <2>1
    <2>4. ASSUME NEW b \in OutAdaptors
          PROVE  OutTypes(b)'
      <3>1. outQueue'[b] = IF b = o THEN [outQueue[o] EXCEPT ![q] = Append(@, p)]
                           ELSE outQueue[b]
        BY <2>1, <2>4 DEF o, q
      <3>2. outQueue'[b] \in [Queues(b) -> Seq(Packets)]
        <4>1. outQueue[b] \in [Queues(b) -> Seq(Packets)]
          BY <2>4 DEF OutTypes
        <4>2. ASSUME b = o, q \in Queues(b)
              PROVE  Append(outQueue[b][q], p) \in Seq(Packets)
          BY <2>2, <4>1, <4>2
        <4> QED
          BY <3>1, <4>1, <4>2
      <3> QED
        BY <2>1, <2>4, <3>2 DEF OutTypes, outVars, Queues, Destinations, OutAdaptors, Pcs
    <2>5. \A b \in InAdaptors : Len(inpHand'[b]) <= 1
      BY <2>1
    <2> QED
      BY <2>1, <2>3, <2>4, <2>5 DEF outVars
  <1>4. ASSUME NEW a \in OutAdaptors, OutputStep(a)
        PROVE  Types'
    <2>1. ASSUME NEW b \in OutAdaptors, b # a
          PROVE  OutKept(b)
      BY <1>4, <2>1 DEF OutputStep, OutputSkip, OutputVisit, OutputPop,
           OutputService, OutputTransfer, OutputWrite, OutputEnd, FlowNumber, FlowTotal,
           FlowAdd, OutputCount,
           EndPacket, Goto, OutKept
    <2>2. OutTypes(a) /\ NextQueue(a) \in Queues(a)
      BY QueueNumbers DEF NextQueue, OutTypes
    <2>3. SUFFICES /\ OutTypes(a)'
                   /\ DOMAIN flow' = Packets
                   /\ inpQueue' \in [InAdaptors -> Seq(Packets)]
                   /\ written' \in [Destinations -> Seq(Packets)]
                   /\ UNCHANGED << sent, inpHand >>
                   /\ DOMAIN outQueue' = OutAdaptors
                   /\ DOMAIN outPc' = OutAdaptors
                   /\ DOMAIN qNum' = OutAdaptors
                   /\ DOMAIN i' = OutAdaptors
                   /\ DOMAIN outHand' = OutAdaptors
      <3>1. \A b \in OutAdaptors : OutTypes(b)'
        BY <2>1, <2>3, OutTypesKept
      <3> QED
        BY <2>3, <3>1
    <2>4. CASE OutputSkip(a)
      BY <2>2, <2>4 DEF OutputSkip, OutTypes, Pcs, Queues, inpVars, fileVars
    <2>5. CASE OutputVisit(a)
      BY <2>2, <2>5 DEF OutputVisit, Goto, OutTypes, Pcs, Queues, inpVars, fileVars
    <2>6. CASE OutputPop(a)
      <3> DEFINE q == qNum[a]
                 p == Head(outQueue[a][q])
      <3>1. p \in Packets /\ Tail(outQueue[a][q]) \in Seq(Packets) /\ q \in Queues(a)
        BY <2>2, <2>6 DEF OutputPop, OutTypes
      <3>2. /\ outQueue'[a] = [outQueue[a] EXCEPT ![q] = Tail(@)]
            /\ outHand'[a] = << p >>
            /\ outPc'[a] = IF a \in DOMAIN links THEN "transfer" ELSE "write"
            /\ qNum'[a] = qNum[a]
        BY <2>6 DEF OutputPop, Goto
      <3>3. outHand'[a] \in Seq(Packets) /\ Len(outHand'[a]) = 1
        BY <3>1, <3>2
      <3>4. outQueue'[a] \in [Queues(a) -> Seq(Packets)]
        BY <2>2, <3>1, <3>2 DEF OutTypes
      <3>5. OutTypes(a)'
        BY <3>1, <3>2, <3>3, <3>4 DEF OutTypes, Pcs, Queues, Destinations, OutAdaptors
      <3> QED
        BY <2>6, <3>5 DEF OutputPop, Goto, inpVars, fileVars
    <2>7. CASE OutputService(a)
      BY <2>2, <2>7 DEF OutputService, Goto, OutTypes, Pcs, Queues, inpVars, fileVars
    <2>8. CASE OutputTransfer(a)
      <3>1. Head(outHand[a]) \in Packets /\ a \in DOMAIN links
        <4>1. outHand[a] \in Seq(Packets) /\ Len(outHand[a]) = 1
          BY <2>2, <2>8 DEF OutputTransfer, OutTypes
        <4>2. a \in DOMAIN links
          BY <2>2, <2>8 DEF OutputTransfer, OutTypes
        <4>3. Len(outHand[a]) # 0
          BY <4>1
        <4> QED
          BY ONLY <4>1, <4>2, <4>3, HeadOfOne
      <3>2. inpQueue' \in [InAdaptors -> Seq(Packets)]
        BY <2>8, <3>1, LinksLead DEF OutputTransfer, Transfer, InsertPacket
      <3>3. OutTypes(a)'
        BY <2>2, <2>8 DEF OutputTransfer, EndPacket, Goto, OutTypes, Pcs, Queues
      <3> QED
        BY <2>8, <3>2, <3>3 DEF OutputTransfer, EndPacket, Goto, fileVars
    <2>9. CASE OutputWrite(a)
      <3>1. a \in Destinations /\ outHand[a] \in Seq(Packets)
        BY <2>2, <2>9 DEF OutputWrite, OutTypes
      <3>2. written' \in [Destinations -> Seq(Packets)]
        BY <2>9, <3>1 DEF OutputWrite
      <3>3. OutTypes(a)'
        BY <2>2, <2>9 DEF OutputWrite, Goto, OutTypes, Pcs, Queues, Destinations, OutAdaptors
      <3> QED
        BY <2>9, <3>2, <3>3 DEF OutputWrite, Goto, inpVars
    <2>10. CASE FlowNumber(a) \/ FlowTotal(a) \/ FlowAdd(a)
      BY <2>2, <2>10 DEF FlowNumber, FlowTotal, FlowAdd, Goto, OutTypes, Pcs,
           Queues, inpVars, fileVars, Destinations, OutAdaptors
    <2>11. CASE OutputCount(a)
      BY <2>2, <2>11 DEF OutputCount, EndPacket, Goto, OutTypes, Pcs, Queues, fileVars
    <2>12. CASE OutputEnd(a)
      BY <2>2, <2>12 DEF OutputEnd, Goto, OutTypes, Pcs, Queues, inpVars, fileVars
    <2> QED
      BY <1>4, <2>4, <2>5, <2>6, <2>7, <2>8, <2>9, <2>10, <2>11, <2>12 DEF OutputStep
  <1>5. CASE UNCHANGED << sent, flow, inpVars, outQueue, outVars, written >>
    <2>1. \A a \in OutAdaptors : OutTypes(a)'
      BY <1>5, OutTypesKept DEF OutKept, outVars
    <2> QED
      BY <1>5, <2>1 DEF inpVars, outVars
  <1>6. ASSUME NEW a, Terminate(a) \/ Close(a)
        PROVE  UNCHANGED << sent, flow, inpVars, outQueue, outVars, written >>
    BY <1>6 DEF Terminate, Close, fileVars
  <1>7. CASE UNCHANGED vars
    BY <1>5, <1>7 DEF vars, fileVars
  <1> QED
    BY <1>1, <1>2, <1>3, <1>4, <1>5, <1>6, <1>7 DEF Next, InputStep

-----------------------------------------------------------------------------
(***************************************************************************)
(* The places a packet may be at, and what is there.  An output adaptor    *)
(* that has written the packet it holds does not count as a place for it.  *)
(***************************************************************************)
Inp(a)     == << "inp", a >>
InpHand(a) == << "inpHand", a >>
Out(a, q)  == << "out", << a, q >> >>
OutHand(a) == << "outHand", a >>
File(a)    == << "file", a >>

Names ==
  ({"inp", "inpHand"} \X InAdaptors)
    \cup ({"out"} \X UNION {{a} \X Queues(a) : a \in OutAdaptors})
    \cup ({"outHand"} \X OutAdaptors) \cup ({"file"} \X Destinations)

content ==
  [x \in Names |->
     CASE x[1] = "inp"     -> inpQueue[x[2]]
       [] x[1] = "inpHand" -> inpHand[x[2]]
       [] x[1] = "out"     -> outQueue[x[2][1]][x[2][2]]
       [] x[1] = "outHand" -> IF outPc[x[2]] \in {"transfer", "write"}
                              THEN outHand[x[2]] ELSE << >>
       [] x[1] = "file"    -> written[x[2]]]

ContentParts ==
  /\ \A a \in InAdaptors : content[Inp(a)] = inpQueue[a]
  /\ \A a \in InAdaptors : content[InpHand(a)] = inpHand[a]
  /\ \A a \in OutAdaptors : \A q \in Queues(a) :
       content[Out(a, q)] = outQueue[a][q]
  /\ \A a \in OutAdaptors :
       content[OutHand(a)] = IF outPc[a] \in {"transfer", "write"}
                             THEN outHand[a] ELSE << >>
  /\ \A a \in Destinations : content[File(a)] = written[a]

LEMMA NamesAre ==
  /\ \A a \in InAdaptors : Inp(a) \in Names /\ InpHand(a) \in Names
  /\ \A a \in OutAdaptors : OutHand(a) \in Names
  /\ \A a \in OutAdaptors : \A q \in Queues(a) : Out(a, q) \in Names
  /\ \A a, q : Out(a, q) \in Names => a \in OutAdaptors /\ q \in Queues(a)
  /\ \A a \in Destinations : File(a) \in Names
  /\ \A x \in Names :
       \/ \E a \in InAdaptors : x = Inp(a) \/ x = InpHand(a)
       \/ \E a \in OutAdaptors : x = OutHand(a)
       \/ \E a \in OutAdaptors : \E q \in Queues(a) : x = Out(a, q)
       \/ \E a \in Destinations : x = File(a)
  <1> DEFINE OQ == UNION {{a} \X Queues(a) : a \in OutAdaptors}
  <1>1. \A a \in OutAdaptors : \A q \in Queues(a) : << a, q >> \in OQ
    OBVIOUS
  <1>2. \A z \in OQ : \E a \in OutAdaptors : \E q \in Queues(a) : z = << a, q >>
    OBVIOUS
  <1>3. \A a, q : << a, q >> \in OQ => a \in OutAdaptors /\ q \in Queues(a)
    <2>1. SUFFICES ASSUME NEW a, NEW q, << a, q >> \in OQ
                   PROVE  a \in OutAdaptors /\ q \in Queues(a)
      OBVIOUS
    <2>2. PICK b \in OutAdaptors : \E k \in Queues(b) : << a, q >> = << b, k >>
      BY <1>2, <2>1
    <2> QED
      BY <2>2
  <1>4. Names = ({"inp", "inpHand"} \X InAdaptors) \cup ({"out"} \X OQ)
                 \cup ({"outHand"} \X OutAdaptors) \cup ({"file"} \X Destinations)
    BY DEF Names
  <1> HIDE DEF OQ
  <1>5. \A a, q : Out(a, q) \in Names => << a, q >> \in OQ
    BY <1>4 DEF Out
  <1>6. ASSUME NEW x \in Names
        PROVE  \/ \E a \in InAdaptors : x = Inp(a) \/ x = InpHand(a)
               \/ \E a \in OutAdaptors : x = OutHand(a)
               \/ \E z \in OQ : x = << "out", z >>
               \/ \E a \in Destinations : x = File(a)
    BY <1>4 DEF Inp, InpHand, OutHand, File
  <1>7. /\ \A a \in InAdaptors : Inp(a) \in Names /\ InpHand(a) \in Names
        /\ \A a \in OutAdaptors : OutHand(a) \in Names
        /\ \A z \in OQ : << "out", z >> \in Names
        /\ \A a \in Destinations : File(a) \in Names
    BY <1>4 DEF Inp, InpHand, OutHand, File
  <1>8. \A x \in Names :
          \/ \E a \in InAdaptors : x = Inp(a) \/ x = InpHand(a)
          \/ \E a \in OutAdaptors : x = OutHand(a)
          \/ \E a \in OutAdaptors : \E q \in Queues(a) : x = Out(a, q)
          \/ \E a \in Destinations : x = File(a)
    BY <1>2, <1>6 DEF Out
  <1>9. \A a \in OutAdaptors : \A q \in Queues(a) : Out(a, q) \in Names
    BY <1>1, <1>7 DEF Out
  <1> QED
    BY <1>3, <1>5, <1>7, <1>8, <1>9

LEMMA NamesDiffer ==
  /\ \A a, b : /\ Inp(a) = Inp(b) => a = b
               /\ InpHand(a) = InpHand(b) => a = b
               /\ OutHand(a) = OutHand(b) => a = b
               /\ File(a) = File(b) => a = b
               /\ Inp(a) # InpHand(b) /\ Inp(a) # OutHand(b) /\ Inp(a) # File(b)
               /\ InpHand(a) # OutHand(b) /\ InpHand(a) # File(b)
               /\ OutHand(a) # File(b)
  /\ \A a, q, b : /\ Out(a, q) # Inp(b) /\ Out(a, q) # InpHand(b)
                  /\ Out(a, q) # OutHand(b) /\ Out(a, q) # File(b)
  /\ \A a, q, b, r : Out(a, q) = Out(b, r) => a = b /\ q = r
  BY DEF Inp, InpHand, Out, OutHand, File

LEMMA ContentPartsLemma == ContentParts
  <1>1. ASSUME NEW a \in InAdaptors
        PROVE  content[Inp(a)] = inpQueue[a] /\ content[InpHand(a)] = inpHand[a]
    <2>1. Inp(a) \in Names /\ InpHand(a) \in Names
      BY NamesAre
    <2> QED
      BY <2>1 DEF content, Inp, InpHand
  <1>2. ASSUME NEW a \in OutAdaptors
        PROVE  /\ \A q \in Queues(a) : content[Out(a, q)] = outQueue[a][q]
               /\ content[OutHand(a)] = IF outPc[a] \in {"transfer", "write"}
                                        THEN outHand[a] ELSE << >>
    <2>1. OutHand(a) \in Names /\ \A q \in Queues(a) : Out(a, q) \in Names
      BY NamesAre
    <2> QED
      BY <2>1 DEF content, Out, OutHand
  <1>3. ASSUME NEW a \in Destinations
        PROVE  content[File(a)] = written[a]
    <2>1. File(a) \in Names
      BY NamesAre
    <2> QED
      BY <2>1 DEF content, File
  <1> QED
    BY <1>1, <1>2, <1>3 DEF ContentParts

LEMMA ContentPartsNext == ContentParts'
  BY ContentPartsLemma, PTL

-----------------------------------------------------------------------------
(***************************************************************************)
(* What a step does to the places: the border router sends a packet, the   *)
(* first packet of a place goes on to the end of the next, or it is lost   *)
(* because there is no such queue, or nothing moves.                       *)
(***************************************************************************)
Hop(x, y, c) ==
  \/ \E a \in InAdaptors : x = Inp(a) /\ y = InpHand(a)
  \/ \E a \in InAdaptors : x = InpHand(a) /\ y = Out(Port(a[1], c), QNum[a[1]][c])
  \/ \E a \in OutAdaptors : \E q \in Queues(a) : x = Out(a, q) /\ y = OutHand(a)
  \/ \E a \in OutAdaptors : /\ a \in DOMAIN links
                            /\ x = OutHand(a)
                            /\ y = Inp(links[a])
  \/ \E a \in Destinations : x = OutHand(a) /\ y = File(a)

OthersKept(S) == \A z \in Names \ S : content'[z] = content[z]

Taken(x) ==
  /\ content[x] # << >>
  /\ content'[x] = Tail(content[x])
  /\ sent' = sent

EntryOf(p) == Inp(Entry[ClassOf[p]])

Sends(p) ==
  /\ p \notin ToSet(sent)
  /\ sent' = Append(sent, p)
  /\ content'[EntryOf(p)] = Append(content[EntryOf(p)], p)
  /\ OthersKept({EntryOf(p)})

Moves(x, y) ==
  /\ Taken(x)
  /\ Hop(x, y, ClassOf[Head(content[x])])
  /\ x # y
  /\ content'[y] = Append(content[y], Head(content[x]))
  /\ OthersKept({x, y})

Loses(x) ==
  /\ Taken(x)
  /\ OthersKept({x})
  /\ \E a \in InAdaptors :
       LET c == ClassOf[Head(content[x])]
       IN  x = InpHand(a) /\ Out(Port(a[1], c), QNum[a[1]][c]) \notin Names

Rests == sent' = sent /\ OthersKept({})

(***************************************************************************)
(* A place is as it was if the variable behind it is.                      *)
(***************************************************************************)
LEMMA KeptParts ==
  ASSUME NEW S,
         \A a \in InAdaptors : /\ Inp(a) \in S \/ inpQueue'[a] = inpQueue[a]
                               /\ InpHand(a) \in S \/ inpHand'[a] = inpHand[a],
         \A a \in OutAdaptors :
           /\ OutHand(a) \in S \/ (outPc'[a] = outPc[a] /\ outHand'[a] = outHand[a])
           /\ \A q \in Queues(a) :
                Out(a, q) \in S \/ outQueue'[a][q] = outQueue[a][q],
         \A a \in Destinations : File(a) \in S \/ written'[a] = written[a]
  PROVE  OthersKept(S)
  <1> SUFFICES ASSUME NEW z \in Names, z \notin S
               PROVE  content'[z] = content[z]
    BY DEF OthersKept
  <1>1. ASSUME NEW a \in InAdaptors, z = Inp(a) \/ z = InpHand(a)
        PROVE  content'[z] = content[z]
    BY <1>1, ContentPartsLemma, ContentPartsNext DEF ContentParts
  <1>2. ASSUME NEW a \in OutAdaptors, z = OutHand(a)
        PROVE  content'[z] = content[z]
    BY <1>2, ContentPartsLemma, ContentPartsNext DEF ContentParts
  <1>3. ASSUME NEW a \in OutAdaptors, NEW q \in Queues(a), z = Out(a, q)
        PROVE  content'[z] = content[z]
    <2>1. content'[z] = outQueue'[a][q] /\ content[z] = outQueue[a][q]
      BY <1>3, ContentPartsLemma, ContentPartsNext DEF ContentParts
    <2> QED
      BY <1>3, <2>1
  <1>4. ASSUME NEW a \in Destinations, z = File(a)
        PROVE  content'[z] = content[z]
    BY <1>4, ContentPartsLemma, ContentPartsNext DEF ContentParts
  <1> QED
    BY <1>1, <1>2, <1>3, <1>4, NamesAre

LEMMA SendMoves ==
  ASSUME Types, NEW p \in Packets, Send(p)
  PROVE  Sends(p)
  <1>1. EntryOf(p) \in Names /\ Entry[ClassOf[p]] \in InAdaptors
    BY EntriesLead, NamesAre DEF EntryOf
  <1>2. content'[EntryOf(p)] = Append(content[EntryOf(p)], p)
    <2> DEFINE e == Entry[ClassOf[p]]
    <2>1. inpQueue'[e] = Append(inpQueue[e], p)
      BY <1>1 DEF Types, Send, InsertPacket
    <2>2. content[Inp(e)] = inpQueue[e] /\ content'[Inp(e)] = inpQueue'[e]
      BY <1>1, ContentPartsLemma, ContentPartsNext DEF ContentParts
    <2> QED
      BY <2>1, <2>2 DEF EntryOf
  <1>3. OthersKept({EntryOf(p)})
    <2> DEFINE S == {EntryOf(p)}
    <2>1. \A a \in InAdaptors : /\ Inp(a) \in S \/ inpQueue'[a] = inpQueue[a]
                                /\ InpHand(a) \in S \/ inpHand'[a] = inpHand[a]
      BY DEF Types, Send, InsertPacket, EntryOf
    <2> HIDE DEF S
    <2> QED
      BY <2>1, KeptParts DEF Send, outVars, fileVars, S
  <1> QED
    BY <1>2, <1>3 DEF Sends, Send

LEMMA InputPopMoves ==
  ASSUME Types, NEW a \in InAdaptors, InputPop(a)
  PROVE  Moves(Inp(a), InpHand(a))
  <1>1. /\ content[Inp(a)] = inpQueue[a] /\ content[InpHand(a)] = << >>
        /\ content'[Inp(a)] = Tail(inpQueue[a])
        /\ content'[InpHand(a)] = << Head(inpQueue[a]) >>
        /\ inpQueue[a] # << >>
    BY ContentPartsLemma, ContentPartsNext DEF ContentParts, Types, InputPop
  <1>2. OthersKept({Inp(a), InpHand(a)})
    <2> DEFINE S == {Inp(a), InpHand(a)}
    <2>1. \A b \in InAdaptors : /\ Inp(b) \in S \/ inpQueue'[b] = inpQueue[b]
                                /\ InpHand(b) \in S \/ inpHand'[b] = inpHand[b]
      BY DEF Types, InputPop
    <2> HIDE DEF S
    <2> QED
      BY <2>1, KeptParts DEF InputPop, outVars, fileVars, S
  <1>3. Append(<< >>, Head(inpQueue[a])) = << Head(inpQueue[a]) >>
    OBVIOUS
  <1>4. Hop(Inp(a), InpHand(a), ClassOf[Head(content[Inp(a)])])
    BY DEF Hop
  <1>5. sent' = sent
    BY DEF InputPop
  <1> QED
    BY <1>1, <1>2, <1>3, <1>4, <1>5, NamesDiffer DEF Moves, Taken

LEMMA SingleSeq ==
  ASSUME NEW S, NEW s \in Seq(S), Len(s) = 1
  PROVE  s = << Head(s) >> /\ s # << >> /\ Tail(s) = << >> /\ Head(s) \in S
  <1>1. s # << >>
    OBVIOUS
  <1>2. Head(s) \in S /\ Tail(s) \in Seq(S) /\ Len(Tail(s)) = 0
    BY <1>1
  <1>3. Tail(s) = << >>
    BY <1>2, EmptySeq
  <1>4. << Head(s) >> \in Seq(S) /\ Len(<< Head(s) >>) = 1
    BY <1>2
  <1>5. s[1] = Head(s) /\ << Head(s) >>[1] = Head(s)
    BY <1>1
  <1>6. \A n \in 1 .. Len(s) : s[n] = << Head(s) >>[n]
    <2>1. \A n \in 1 .. Len(s) : n = 1
      OBVIOUS
    <2> QED
      BY <1>5, <2>1
  <1>7. s = << Head(s) >>
    BY <1>4, <1>6, SeqEqual
  <1> QED
    BY <1>1, <1>2, <1>3, <1>7, Zenon

LEMMA InputFabricMoves ==
  ASSUME Types, NEW a \in InAdaptors, InputFabric(a)
  PROVE  \/ \E y \in Names : Moves(InpHand(a), y)
         \/ Loses(InpHand(a))
  <1>1. PICK p \in ToSet(inpHand[a]) :
          /\ outQueue' = [outQueue EXCEPT
                 ![Port(a[1], ClassOf[p])][QNum[a[1]][ClassOf[p]]] =
                   Append(@, p)]
          /\ inpHand' = [inpHand EXCEPT ![a] = << >>]
          /\ UNCHANGED << sent, inpQueue, outPc, outHand, written >>
    BY DEF InputFabric, outVars, fileVars
  <1> DEFINE o == Port(a[1], ClassOf[p])
             q == QNum[a[1]][ClassOf[p]]
             x == InpHand(a)
             y == Out(o, q)
  <1>2. /\ inpHand[a] = << p >> /\ inpHand[a] # << >>
        /\ Head(inpHand[a]) = p /\ Tail(inpHand[a]) = << >>
    <2>1. inpHand[a] \in Seq(Packets) /\ Len(inpHand[a]) <= 1
      BY DEF Types
    <2>2. PICK n \in DOMAIN inpHand[a] : inpHand[a][n] = p
      BY DEF ToSet
    <2>3. Len(inpHand[a]) = 1 /\ n = 1
      <3> DEFINE m == Len(inpHand[a])
      <3>1. m \in Nat /\ n \in 1 .. m /\ m <= 1
        BY <2>1
      <3> HIDE DEF m
      <3>2. m = 1 /\ n = 1
        BY ONLY <3>1
      <3> QED
        BY <3>2 DEF m
    <2> QED
      BY <2>1, <2>2, <2>3, SingleSeq
  <1>3. content[x] = inpHand[a] /\ content'[x] = << >>
    BY <1>1, ContentPartsLemma, ContentPartsNext DEF ContentParts, Types
  <1>4. Taken(x)
    BY <1>1, <1>2, <1>3 DEF Taken
  <1>5. ASSUME y \in Names
        PROVE  content'[y] = Append(content[y], p)
    <2>1. o \in OutAdaptors /\ q \in Queues(o)
      BY <1>5, NamesAre
    <2>2. content[y] = outQueue[o][q] /\ content'[y] = outQueue'[o][q]
      BY <2>1, ContentPartsLemma, ContentPartsNext DEF ContentParts
    <2>3. DOMAIN outQueue = OutAdaptors /\ DOMAIN outQueue[o] = Queues(o)
      BY <2>1 DEF Types, OutTypes
    <2> HIDE DEF o, q, y
    <2>4. outQueue' = [outQueue EXCEPT ![o][q] = Append(@, p)]
      BY <1>1 DEF o, q
    <2> QED
      BY <2>1, <2>2, <2>3, <2>4
  <1>6. OthersKept({x, y})
    <2> DEFINE S == {x, y}
    <2>1. \A b \in InAdaptors : /\ Inp(b) \in S \/ inpQueue'[b] = inpQueue[b]
                                /\ InpHand(b) \in S \/ inpHand'[b] = inpHand[b]
      BY <1>1 DEF Types
    <2>2. ASSUME NEW b \in OutAdaptors, NEW k \in Queues(b)
          PROVE  Out(b, k) \in S \/ outQueue'[b][k] = outQueue[b][k]
      <3>1. DOMAIN outQueue = OutAdaptors /\ DOMAIN outQueue[b] = Queues(b)
        BY DEF Types, OutTypes
      <3> HIDE DEF o, q, x
      <3>2. outQueue' = [outQueue EXCEPT ![o][q] = Append(@, p)]
        BY <1>1 DEF o, q
      <3>3. CASE b = o /\ k = q
        BY <3>3
      <3>4. CASE ~ (b = o /\ k = q)
        BY <3>1, <3>2, <3>4
      <3> QED
        BY <3>3, <3>4
    <2> HIDE DEF S
    <2> QED
      BY <1>1, <2>1, <2>2, KeptParts DEF S
  <1>7. Head(content[x]) = p
    BY <1>2, <1>3
  <1>8. CASE y \in Names
    <2>1. Hop(x, y, ClassOf[p])
      BY DEF Hop
    <2>2. x # y
      BY NamesDiffer
    <2>3. Moves(x, y)
      BY <1>4, <1>5, <1>6, <1>7, <1>8, <2>1, <2>2 DEF Moves
    <2> QED
      BY <1>8, <2>3
  <1>9. CASE y \notin Names
    <2>1. OthersKept({x})
      BY <1>6, <1>9 DEF OthersKept
    <2> QED
      BY <1>4, <1>7, <1>9, <2>1 DEF Loses
  <1> QED
    BY <1>8, <1>9

LEMMA OutputPopMoves ==
  ASSUME Types, NEW a \in OutAdaptors, OutputPop(a)
  PROVE  Moves(Out(a, qNum[a]), OutHand(a))
  <1> DEFINE q == qNum[a]
             p == Head(outQueue[a][q])
             x == Out(a, q)
             y == OutHand(a)
  <1>1. /\ q \in Queues(a) /\ DOMAIN outQueue[a] = Queues(a)
        /\ outPc[a] = "pop" /\ DOMAIN outPc = OutAdaptors
        /\ DOMAIN outHand = OutAdaptors /\ DOMAIN outQueue = OutAdaptors
    BY DEF Types, OutTypes, OutputPop
  <1>2. /\ outQueue[a][q] # << >>
        /\ outQueue' = [outQueue EXCEPT ![a][q] = Tail(@)]
        /\ outHand' = [outHand EXCEPT ![a] = << p >>]
        /\ outPc' = [outPc EXCEPT ![a] = IF a \in DOMAIN links THEN "transfer"
                                         ELSE "write"]
        /\ UNCHANGED << sent, inpQueue, inpHand, written >>
    BY DEF OutputPop, Goto, inpVars, fileVars
  <1>3. /\ content[x] = outQueue[a][q] /\ content'[x] = Tail(outQueue[a][q])
        /\ content[y] = << >> /\ content'[y] = << p >>
    <2> HIDE DEF q, p
    <2>1. content[x] = outQueue[a][q] /\ content'[x] = outQueue'[a][q]
      BY <1>1, ContentPartsLemma, ContentPartsNext DEF ContentParts
    <2>2. outQueue'[a][q] = Tail(outQueue[a][q])
      BY <1>1, <1>2
    <2>3. outPc'[a] \in {"transfer", "write"} /\ outHand'[a] = << p >>
      BY <1>1, <1>2
    <2>4. content[y] = << >> /\ content'[y] = << p >>
      BY <1>1, <2>3, ContentPartsLemma, ContentPartsNext DEF ContentParts
    <2> QED
      BY <2>1, <2>2, <2>4
  <1>4. OthersKept({x, y})
    <2> DEFINE S == {x, y}
    <2> HIDE DEF x, y, q, p
    <2>1. ASSUME NEW b \in OutAdaptors
          PROVE  OutHand(b) \in S \/ (outPc'[b] = outPc[b] /\ outHand'[b] = outHand[b])
      BY <1>1, <1>2 DEF y
    <2>2. ASSUME NEW b \in OutAdaptors, NEW k \in Queues(b)
          PROVE  Out(b, k) \in S \/ outQueue'[b][k] = outQueue[b][k]
      <3>1. CASE b = a /\ k = q
        BY <3>1 DEF x
      <3>2. CASE b = a /\ k # q
        <4>1. outQueue'[a] = [outQueue[a] EXCEPT ![q] = Tail(@)]
          BY <1>1, <1>2
        <4> QED
          BY <1>1, <3>2, <4>1
      <3>3. CASE b # a
        BY <1>1, <1>2, <3>3
      <3> QED
        BY <3>1, <3>2, <3>3
    <2> HIDE DEF S
    <2> QED
      BY <1>2, <2>1, <2>2, KeptParts DEF S
  <1>5. Hop(x, y, ClassOf[Head(content[x])])
    BY <1>1 DEF Hop
  <1>6. Append(<< >>, p) = << p >>
    OBVIOUS
  <1>7. x # y
    BY NamesDiffer
  <1> HIDE DEF x, y, q, p
  <1>8. Moves(x, y)
    <2>1. Taken(x)
      BY <1>2, <1>3 DEF Taken
    <2>2. content'[y] = Append(content[y], Head(content[x]))
      BY <1>3, <1>6 DEF p
    <2> QED
      BY <2>1, <2>2, <1>4, <1>5, <1>7 DEF Moves
  <1> QED
    BY <1>8 DEF x, y, q

LEMMA OutputTransferMoves ==
  ASSUME Types, NEW a \in OutAdaptors, OutputTransfer(a)
  PROVE  a \in DOMAIN links /\ Moves(OutHand(a), Inp(links[a]))
  <1> DEFINE x == OutHand(a)
             y == Inp(links[a])
             p == Head(outHand[a])
  <1>1. /\ outPc[a] = "transfer" /\ DOMAIN outPc = OutAdaptors
        /\ DOMAIN outHand = OutAdaptors
        /\ outHand[a] \in Seq(Packets) /\ Len(outHand[a]) = 1
        /\ a \in DOMAIN links
    BY DEF Types, OutTypes, OutputTransfer
  <1>2. /\ links[a] \in InAdaptors
        /\ outHand[a] # << >> /\ Tail(outHand[a]) = << >>
    BY <1>1, LinksLead, SingleSeq
  <1>3. /\ inpQueue' = [inpQueue EXCEPT ![links[a]] = Append(@, p)]
        /\ outHand' = [outHand EXCEPT ![a] = << >>]
        /\ outPc' = [outPc EXCEPT ![a] = "pop"]
        /\ UNCHANGED << sent, inpHand, outQueue, written >>
    BY DEF OutputTransfer, EndPacket, Goto, Transfer, InsertPacket, fileVars
  <1>4. content[x] = outHand[a] /\ content'[x] = << >>
    BY <1>1, <1>3, ContentPartsLemma, ContentPartsNext DEF ContentParts
  <1>5. content'[y] = Append(content[y], p)
    <2>1. content[y] = inpQueue[links[a]] /\ content'[y] = inpQueue'[links[a]]
      BY <1>2, ContentPartsLemma, ContentPartsNext DEF ContentParts
    <2> QED
      BY <1>2, <1>3, <2>1 DEF Types
  <1>6. OthersKept({x, y})
    <2> DEFINE S == {x, y}
    <2>1. \A b \in OutAdaptors :
            OutHand(b) \in S \/ (outPc'[b] = outPc[b] /\ outHand'[b] = outHand[b])
      BY <1>1, <1>3
    <2>2. \A b \in InAdaptors : Inp(b) \in S \/ inpQueue'[b] = inpQueue[b]
      BY <1>3 DEF Types
    <2> HIDE DEF S
    <2> QED
      BY <1>3, <2>1, <2>2, KeptParts DEF S
  <1>7. Hop(x, y, ClassOf[Head(content[x])])
    BY <1>1 DEF Hop
  <1>8. x # y
    BY NamesDiffer
  <1> HIDE DEF x, y, p
  <1>9. Moves(x, y)
    <2>1. Taken(x)
      BY <1>2, <1>3, <1>4 DEF Taken
    <2>2. content'[y] = Append(content[y], Head(content[x]))
      BY <1>4, <1>5 DEF p
    <2> QED
      BY <2>1, <2>2, <1>6, <1>7, <1>8 DEF Moves
  <1> QED
    BY <1>1, <1>9 DEF x, y

LEMMA OutputWriteMoves ==
  ASSUME Types, NEW a \in OutAdaptors, OutputWrite(a)
  PROVE  a \in Destinations /\ Moves(OutHand(a), File(a))
  <1> DEFINE x == OutHand(a)
             y == File(a)
             p == Head(outHand[a])
  <1>1. /\ outPc[a] = "write" /\ DOMAIN outPc = OutAdaptors
        /\ outHand[a] \in Seq(Packets) /\ Len(outHand[a]) = 1
        /\ a \in Destinations
    BY DEF Types, OutTypes, OutputWrite
  <1>2. /\ outHand[a] = << p >> /\ p \in Packets
        /\ outHand[a] # << >> /\ Tail(outHand[a]) = << >>
    BY <1>1, SingleSeq
  <1>3. /\ written' = [written EXCEPT ![a] = @ \o outHand[a]]
        /\ outPc' = [outPc EXCEPT ![a] = "flow"]
        /\ UNCHANGED << sent, inpQueue, inpHand, outQueue, outHand >>
    BY DEF OutputWrite, Goto, inpVars
  <1>4. content[x] = outHand[a] /\ content'[x] = << >>
    BY <1>1, <1>3, ContentPartsLemma, ContentPartsNext DEF ContentParts
  <1>5. content'[y] = Append(content[y], p)
    <2>1. content[y] = written[a] /\ content'[y] = written'[a]
      BY <1>1, ContentPartsLemma, ContentPartsNext DEF ContentParts
    <2>2. written[a] \in Seq(Packets) /\ written'[a] = written[a] \o outHand[a]
      BY <1>1, <1>3 DEF Types
    <2>3. written[a] \o << p >> = Append(written[a], p)
      BY <1>2, <2>2, AppendIsConcat
    <2> QED
      BY <1>2, <2>1, <2>2, <2>3
  <1>6. OthersKept({x, y})
    <2> DEFINE S == {x, y}
    <2>1. \A b \in OutAdaptors :
            OutHand(b) \in S \/ (outPc'[b] = outPc[b] /\ outHand'[b] = outHand[b])
      BY <1>1, <1>3
    <2>2. \A b \in Destinations : File(b) \in S \/ written'[b] = written[b]
      BY <1>3 DEF Types
    <2> HIDE DEF S
    <2> QED
      BY <1>3, <2>1, <2>2, KeptParts DEF S
  <1>7. Hop(x, y, ClassOf[Head(content[x])])
    BY <1>1 DEF Hop
  <1>8. x # y
    BY NamesDiffer
  <1> HIDE DEF x, y, p
  <1>9. Moves(x, y)
    <2>1. Taken(x)
      BY <1>2, <1>3, <1>4 DEF Taken
    <2>2. content'[y] = Append(content[y], Head(content[x]))
      BY <1>4, <1>5 DEF p
    <2> QED
      BY <2>1, <2>2, <1>6, <1>7, <1>8 DEF Moves
  <1> QED
    BY <1>1, <1>9 DEF x, y

(***************************************************************************)
(* The other steps of an output adaptor move nothing.  Their packet, if    *)
(* they hold one, has been written.                                        *)
(***************************************************************************)
LEMMA OutputRests ==
  ASSUME Types, NEW a \in OutAdaptors,
         \/ OutputSkip(a) \/ OutputVisit(a) \/ OutputService(a)
         \/ OutputEnd(a) \/ FlowNumber(a) \/ FlowTotal(a) \/ FlowAdd(a)
         \/ OutputCount(a)
  PROVE  Rests
  <1>1. /\ UNCHANGED << sent, inpQueue, inpHand, outQueue, written >>
        /\ \A b \in OutAdaptors \ {a} : outPc'[b] = outPc[b] /\ outHand'[b] = outHand[b]
        /\ outPc[a] \notin {"transfer", "write"}
        /\ outPc'[a] \notin {"transfer", "write"}
    BY DEF Types, OutTypes, OutputSkip, OutputVisit, OutputService, OutputEnd, FlowNumber, FlowTotal,
           FlowAdd, OutputCount, EndPacket, Goto, inpVars, fileVars
  <1>2. OthersKept({OutHand(a)})
    <2> DEFINE S == {OutHand(a)}
    <2>1. \A b \in OutAdaptors :
            OutHand(b) \in S \/ (outPc'[b] = outPc[b] /\ outHand'[b] = outHand[b])
      BY <1>1
    <2> HIDE DEF S
    <2> QED
      BY <1>1, <2>1, KeptParts DEF S
  <1>3. content'[OutHand(a)] = content[OutHand(a)]
    BY <1>1, ContentPartsLemma, ContentPartsNext DEF ContentParts
  <1> QED
    BY <1>1, <1>2, <1>3 DEF Rests, OthersKept

LEMMA Steps ==
  ASSUME Types, [Next]_vars
  PROVE  \/ \E p \in Packets : Sends(p)
         \/ \E x, y \in Names : Moves(x, y)
         \/ \E x \in Names : Loses(x)
         \/ Rests
  <1>1. ASSUME NEW p \in Packets, Send(p)
        PROVE  Sends(p)
    BY <1>1, SendMoves
  <1>2. ASSUME NEW a \in InAdaptors, InputStep(a)
        PROVE  \/ \E x, y \in Names : Moves(x, y)
               \/ \E x \in Names : Loses(x)
    BY <1>2, InputPopMoves, InputFabricMoves, NamesAre DEF InputStep
  <1>3. ASSUME NEW a \in OutAdaptors, OutputStep(a)
        PROVE  Rests \/ \E x, y \in Names : Moves(x, y)
    <2>1. OutHand(a) \in Names
      BY NamesAre
    <2>2. CASE OutputPop(a)
      <3>1. qNum[a] \in Queues(a)
        BY DEF Types, OutTypes
      <3> QED
        BY <2>1, <2>2, <3>1, OutputPopMoves, NamesAre
    <2>3. CASE OutputTransfer(a)
      BY <2>1, <2>3, OutputTransferMoves, LinksLead, NamesAre
    <2>4. CASE OutputWrite(a)
      BY <2>1, <2>4, OutputWriteMoves, NamesAre
    <2> QED
      BY <1>3, <2>2, <2>3, <2>4, OutputRests DEF OutputStep
  <1>4. CASE UNCHANGED << sent, inpVars, outQueue, outVars, written >>
    <2>1. OthersKept({})
      BY <1>4, KeptParts DEF inpVars, outVars
    <2> QED
      BY <1>4, <2>1 DEF Rests
  <1>5. ASSUME NEW a, Terminate(a) \/ Close(a)
        PROVE  UNCHANGED << sent, inpVars, outQueue, outVars, written >>
    BY <1>5 DEF Terminate, Close, fileVars
  <1>6. CASE UNCHANGED vars
    BY <1>4, <1>6 DEF vars, fileVars
  <1> QED
    BY <1>1, <1>2, <1>3, <1>4, <1>5, <1>6 DEF Next

-----------------------------------------------------------------------------
(***************************************************************************)
(* A packet is sent once, and is at one place at most, as one item of it.  *)
(***************************************************************************)
NoneSentTwice ==
  \A j, k \in 1 .. Len(sent) : sent[j] = sent[k] => j = k

OnlySent ==
  \A x \in Names : \A j \in 1 .. Len(content[x]) :
    \E k \in 1 .. Len(sent) : sent[k] = content[x][j]

OnePlace ==
  \A x, y \in Names :
    \A j \in 1 .. Len(content[x]), k \in 1 .. Len(content[y]) :
      content[x][j] = content[y][k] => x = y /\ j = k

Single == NoneSentTwice /\ OnlySent /\ OnePlace

ContentTypes == \A x \in Names : content[x] \in Seq(Packets)

LEMMA ContentTypesLemma == Types => ContentTypes
  <1> SUFFICES ASSUME Types, NEW x \in Names
               PROVE  content[x] \in Seq(Packets)
    BY DEF ContentTypes
  <1>1. ASSUME NEW a \in InAdaptors, x = Inp(a) \/ x = InpHand(a)
        PROVE  content[x] \in Seq(Packets)
    BY <1>1, ContentPartsLemma DEF ContentParts, Types
  <1>2. ASSUME NEW a \in OutAdaptors, x = OutHand(a)
        PROVE  content[x] \in Seq(Packets)
    <2>1. outHand[a] \in Seq(Packets) /\ << >> \in Seq(Packets)
      BY DEF Types, OutTypes
    <2>2. content[x] = outHand[a] \/ content[x] = << >>
      BY <1>2, ContentPartsLemma DEF ContentParts
    <2> QED
      BY <2>1, <2>2
  <1>3. ASSUME NEW a \in OutAdaptors, NEW q \in Queues(a), x = Out(a, q)
        PROVE  content[x] \in Seq(Packets)
    <2>1. content[x] = outQueue[a][q]
      BY <1>3, ContentPartsLemma DEF ContentParts
    <2>2. outQueue[a][q] \in Seq(Packets)
      BY <1>3 DEF Types, OutTypes
    <2> QED
      BY <2>1, <2>2
  <1>4. ASSUME NEW a \in Destinations, x = File(a)
        PROVE  content[x] \in Seq(Packets)
    BY <1>4, ContentPartsLemma DEF ContentParts, Types
  <1> QED
    BY <1>1, <1>2, <1>3, <1>4, NamesAre

(***************************************************************************)
(* Where an item was before a step: the step took the first item of x, and *)
(* unless it was lost it is now the last item of y.                        *)
(***************************************************************************)
Came(y, z, j) == z = y /\ j = Len(content[y]) + 1

OldName(x, y, z, j) == IF Came(y, z, j) THEN x ELSE z

OldIndex(x, y, z, j) ==
  IF Came(y, z, j) THEN 1 ELSE IF z = x THEN j + 1 ELSE j

LEMMA TailAt ==
  ASSUME NEW s \in Seq(Packets), s # << >>
  PROVE  /\ Head(s) = s[1] /\ 1 \in 1 .. Len(s)
         /\ \A j \in 1 .. Len(Tail(s)) : /\ j + 1 \in 1 .. Len(s)
                                         /\ Tail(s)[j] = s[j + 1]
  <1>1. Len(Tail(s)) = Len(s) - 1 /\ Len(s) \in Nat /\ Len(s) # 0
    BY HeadTailProperties, EmptySeq
  <1>2. \A j \in 1 .. Len(Tail(s)) : Tail(s)[j] = s[j + 1]
    BY HeadTailProperties
  <1>3. \A j \in 1 .. Len(Tail(s)) : j + 1 \in 1 .. Len(s)
    BY <1>1
  <1>4. Head(s) = s[1] /\ 1 \in 1 .. Len(s)
    BY <1>1
  <1> QED
    BY <1>2, <1>3, <1>4

LEMMA MoveOrigin ==
  ASSUME ContentTypes, NEW x \in Names, NEW y \in Names, Moves(x, y),
         NEW z \in Names, NEW j \in 1 .. Len(content'[z])
  PROVE  /\ OldName(x, y, z, j) \in Names
         /\ OldIndex(x, y, z, j) \in 1 .. Len(content[OldName(x, y, z, j)])
         /\ content'[z][j] = content[OldName(x, y, z, j)][OldIndex(x, y, z, j)]
         /\ Came(y, z, j) => content'[z][j] = Head(content[x])
  <1>1. /\ content[x] \in Seq(Packets) /\ content[x] # << >>
        /\ content[y] \in Seq(Packets) /\ Head(content[x]) \in Packets
    BY HeadOfOne, EmptySeq DEF ContentTypes, Moves, Taken
  <1>2. CASE z = y
    <2>1. content'[y] = Append(content[y], Head(content[x])) /\ x # y
      BY DEF Moves
    <2>2. /\ Len(content'[y]) = Len(content[y]) + 1 /\ Len(content[y]) \in Nat
          /\ \A k \in 1 .. Len(content[y]) : content'[y][k] = content[y][k]
          /\ content'[y][Len(content[y]) + 1] = Head(content[x])
      BY <1>1, <2>1, AppendProperties, LenProperties
    <2>3. CASE Came(y, z, j)
      BY <1>1, <1>2, <2>2, <2>3, TailAt DEF Came, OldName, OldIndex
    <2>4. CASE ~ Came(y, z, j)
      <3>1. j \in 1 .. Len(content[y])
        BY <1>2, <2>2, <2>4 DEF Came
      <3> QED
        BY <1>2, <2>1, <2>2, <2>4, <3>1 DEF OldName, OldIndex
    <2> QED
      BY <2>3, <2>4
  <1>3. CASE z = x
    <2>1. ~ Came(y, z, j)
      BY <1>3 DEF Came, Moves
    <2>2. content'[x] = Tail(content[x])
      BY DEF Moves, Taken
    <2> QED
      BY <1>1, <1>3, <2>1, <2>2, TailAt DEF OldName, OldIndex
  <1>4. CASE z # x /\ z # y
    <2>1. content'[z] = content[z] /\ ~ Came(y, z, j)
      BY <1>4 DEF Moves, OthersKept, Came
    <2> QED
      BY <1>4, <2>1 DEF OldName, OldIndex
  <1> QED
    BY <1>2, <1>3, <1>4

LEMMA LossOrigin ==
  ASSUME ContentTypes, NEW x \in Names, Loses(x),
         NEW z \in Names, NEW j \in 1 .. Len(content'[z])
  PROVE  LET k == IF z = x THEN j + 1 ELSE j
         IN  k \in 1 .. Len(content[z]) /\ content'[z][j] = content[z][k]
  <1>1. content[x] \in Seq(Packets) /\ content[x] # << >>
    BY DEF ContentTypes, Loses, Taken
  <1>2. CASE z = x
    <2>1. content'[x] = Tail(content[x])
      BY DEF Loses, Taken
    <2> QED
      BY <1>1, <1>2, <2>1, TailAt
  <1>3. CASE z # x
    <2>1. content'[z] = content[z]
      BY <1>3 DEF Loses, OthersKept
    <2> QED
      BY <1>3, <2>1
  <1> QED
    BY <1>2, <1>3

LEMMA SendOrigin ==
  ASSUME ContentTypes, NEW p \in Packets, Sends(p),
         NEW z \in Names, NEW j \in 1 .. Len(content'[z])
  PROVE  \/ j \in 1 .. Len(content[z]) /\ content'[z][j] = content[z][j]
         \/ /\ z = EntryOf(p) /\ j = Len(content[z]) + 1
            /\ content'[z][j] = p
  <1>1. CASE z = EntryOf(p)
    <2>1. content'[z] = Append(content[z], p) /\ content[z] \in Seq(Packets)
      BY <1>1 DEF Sends, ContentTypes
    <2>2. /\ Len(content'[z]) = Len(content[z]) + 1 /\ Len(content[z]) \in Nat
          /\ \A k \in 1 .. Len(content[z]) : content'[z][k] = content[z][k]
          /\ content'[z][Len(content[z]) + 1] = p
      BY <2>1, AppendProperties, LenProperties
    <2> QED
      BY <1>1, <2>2
  <1>2. CASE z # EntryOf(p)
    BY <1>2 DEF Sends, OthersKept
  <1> QED
    BY <1>1, <1>2

LEMMA SentGrows ==
  ASSUME Types, NEW p \in Packets, Sends(p)
  PROVE  /\ Len(sent) \in Nat /\ Len(sent') = Len(sent) + 1
         /\ \A k \in 1 .. Len(sent) : sent'[k] = sent[k] /\ sent[k] # p
         /\ sent'[Len(sent) + 1] = p
  <1>1. sent \in Seq(Packets) /\ sent' = Append(sent, p)
    BY DEF Types, Sends
  <1>2. \A k \in 1 .. Len(sent) : sent[k] # p
    BY <1>1 DEF Sends, ToSet
  <1> QED
    BY <1>1, <1>2, AppendProperties, LenProperties

LEMMA EmptyAtFirst == Init => \A x \in Names : content[x] = << >>
  <1> SUFFICES ASSUME Init, NEW x \in Names PROVE content[x] = << >>
    OBVIOUS
  <1>1. ASSUME NEW a \in InAdaptors, x = Inp(a) \/ x = InpHand(a)
        PROVE  content[x] = << >>
    BY <1>1, ContentPartsLemma DEF ContentParts, Init
  <1>2. ASSUME NEW a \in OutAdaptors, x = OutHand(a)
        PROVE  content[x] = << >>
    BY <1>2, ContentPartsLemma DEF ContentParts, Init
  <1>3. ASSUME NEW a \in OutAdaptors, NEW q \in Queues(a), x = Out(a, q)
        PROVE  content[x] = << >>
    BY <1>3, ContentPartsLemma DEF ContentParts, Init
  <1>4. ASSUME NEW a \in Destinations, x = File(a)
        PROVE  content[x] = << >>
    BY <1>4, ContentPartsLemma DEF ContentParts, Init
  <1> QED
    BY <1>1, <1>2, <1>3, <1>4, NamesAre

LEMMA SingleInit == Init => Single
  <1> SUFFICES ASSUME Init PROVE Single
    OBVIOUS
  <1>1. \A x \in Names : content[x] = << >>
    BY EmptyAtFirst
  <1>2. Len(<< >>) = 0 /\ 1 .. 0 = {} /\ sent = << >>
    BY DEF Init
  <1> QED
    BY <1>1, <1>2 DEF Single, NoneSentTwice, OnlySent, OnePlace

LEMMA OnePlaceAt ==
  ASSUME Single, NEW x \in Names, NEW y \in Names,
         NEW j \in 1 .. Len(content[x]), NEW k \in 1 .. Len(content[y]),
         content[x][j] = content[y][k]
  PROVE  x = y /\ j = k
  BY DEF Single, OnePlace

LEMMA SingleNext == Types /\ Single /\ [Next]_vars => Single'
  <1> SUFFICES ASSUME Types, Single, [Next]_vars PROVE Single'
    OBVIOUS
  <1>1. ContentTypes
    BY ContentTypesLemma
  <1>2. ASSUME NEW p \in Packets, Sends(p)
        PROVE  Single'
    <2>1. /\ Len(sent) \in Nat /\ Len(sent') = Len(sent) + 1
          /\ \A k \in 1 .. Len(sent) : sent'[k] = sent[k] /\ sent[k] # p
          /\ sent'[Len(sent) + 1] = p
      BY <1>2, SentGrows
    <2>2. NoneSentTwice'
      BY <2>1 DEF Single, NoneSentTwice
    <2>3. ASSUME NEW z \in Names, NEW j \in 1 .. Len(content'[z])
          PROVE  \/ j \in 1 .. Len(content[z]) /\ content'[z][j] = content[z][j]
                 \/ /\ z = EntryOf(p) /\ j = Len(content[z]) + 1
                    /\ content'[z][j] = p
      BY <1>1, <1>2, SendOrigin
    <2>4. ASSUME NEW z \in Names, NEW j \in 1 .. Len(content[z])
          PROVE  content[z][j] # p
      BY <2>1 DEF Single, OnlySent
    <2>5. ASSUME NEW z \in Names, NEW j \in 1 .. Len(content'[z])
          PROVE  \E k \in 1 .. Len(sent') : sent'[k] = content'[z][j]
      <3>1. CASE content'[z][j] = p
        <4>1. Len(sent) + 1 \in 1 .. Len(sent')
          BY <2>1
        <4> QED
          BY <2>1, <3>1, <4>1
      <3>2. CASE content'[z][j] # p
        <4>1. j \in 1 .. Len(content[z]) /\ content'[z][j] = content[z][j]
          BY <2>3, <3>2
        <4>2. PICK k \in 1 .. Len(sent) : sent[k] = content[z][j]
          BY <4>1 DEF Single, OnlySent
        <4>3. k \in 1 .. Len(sent') /\ sent'[k] = sent[k]
          BY <2>1
        <4> QED
          BY <4>1, <4>2, <4>3
      <3> QED
        BY <3>1, <3>2
    <2>6. OnlySent'
      BY <2>5 DEF OnlySent
    <2>7. ASSUME NEW z \in Names, NEW w \in Names,
                 NEW j \in 1 .. Len(content'[z]), NEW k \in 1 .. Len(content'[w]),
                 content'[z][j] = content'[w][k]
          PROVE  z = w /\ j = k
      <3>1. CASE content'[z][j] = p
        <4>1. z = EntryOf(p) /\ j = Len(content[z]) + 1
          BY <2>3, <2>4, <3>1
        <4>2. w = EntryOf(p) /\ k = Len(content[w]) + 1
          BY <2>3, <2>4, <2>7, <3>1
        <4> QED
          BY <4>1, <4>2
      <3>2. CASE content'[z][j] # p
        <4>1. /\ j \in 1 .. Len(content[z]) /\ content'[z][j] = content[z][j]
              /\ k \in 1 .. Len(content[w]) /\ content'[w][k] = content[w][k]
          BY <2>3, <2>7, <3>2
        <4>2. content[z][j] = content[w][k]
          BY <2>7, <4>1
        <4>3. Single
          OBVIOUS
        <4> QED
          BY ONLY <4>1, <4>2, <4>3, OnePlaceAt
      <3> QED
        BY <3>1, <3>2
    <2>8. OnePlace'
      BY <2>7 DEF OnePlace
    <2> QED
      BY <2>2, <2>6, <2>8 DEF Single
  <1>3. ASSUME NEW x \in Names, NEW y \in Names, Moves(x, y)
        PROVE  Single'
    <2>1. sent' = sent /\ x # y
      BY <1>3 DEF Moves, Taken
    <2>2. OnlySent'
      <3>1. ASSUME NEW z \in Names, NEW j \in 1 .. Len(content'[z])
            PROVE  \E k \in 1 .. Len(sent) : sent[k] = content'[z][j]
        <4> DEFINE o == OldName(x, y, z, j)
                   n == OldIndex(x, y, z, j)
        <4>1. o \in Names /\ n \in 1 .. Len(content[o]) /\ content'[z][j] = content[o][n]
          BY <1>1, <1>3, MoveOrigin
        <4> HIDE DEF o, n
        <4>2. \E k \in 1 .. Len(sent) : sent[k] = content[o][n]
          BY <4>1 DEF Single, OnlySent
        <4> QED
          BY <4>1, <4>2
      <3> QED
        BY <2>1, <3>1 DEF OnlySent
    <2>3. ASSUME NEW z \in Names, NEW w \in Names,
                 NEW j \in 1 .. Len(content'[z]), NEW k \in 1 .. Len(content'[w]),
                 content'[z][j] = content'[w][k]
          PROVE  z = w /\ j = k
      <3>1. /\ OldName(x, y, z, j) = OldName(x, y, w, k)
            /\ OldIndex(x, y, z, j) = OldIndex(x, y, w, k)
        <4> DEFINE o == OldName(x, y, z, j)
                   n == OldIndex(x, y, z, j)
                   u == OldName(x, y, w, k)
                   m == OldIndex(x, y, w, k)
        <4>1. o \in Names /\ n \in 1 .. Len(content[o]) /\ content'[z][j] = content[o][n]
          BY <1>1, <1>3, MoveOrigin
        <4>2. u \in Names /\ m \in 1 .. Len(content[u]) /\ content'[w][k] = content[u][m]
          BY <1>1, <1>3, MoveOrigin
        <4> HIDE DEF o, n, u, m
        <4>3. content[o][n] = content[u][m] /\ Single
          BY <2>3, <4>1, <4>2
        <4>4. o = u /\ n = m
          BY ONLY <4>1, <4>2, <4>3, OnePlaceAt
        <4> QED
          BY <4>4 DEF o, n, u, m
      <3> QED
        BY <2>1, <3>1 DEF OldName, OldIndex, Came
    <2> QED
      BY <2>1, <2>2, <2>3 DEF Single, OnePlace, NoneSentTwice
  <1>4. ASSUME NEW x \in Names, Loses(x)
        PROVE  Single'
    <2>1. sent' = sent
      BY <1>4 DEF Loses, Taken
    <2>2. OnlySent'
      <3>1. ASSUME NEW z \in Names, NEW j \in 1 .. Len(content'[z])
            PROVE  \E k \in 1 .. Len(sent) : sent[k] = content'[z][j]
        <4> DEFINE n == IF z = x THEN j + 1 ELSE j
        <4>1. n \in 1 .. Len(content[z]) /\ content'[z][j] = content[z][n]
          BY <1>1, <1>4, LossOrigin
        <4> HIDE DEF n
        <4> QED
          BY <4>1 DEF Single, OnlySent
      <3> QED
        BY <2>1, <3>1 DEF OnlySent
    <2>3. ASSUME NEW z \in Names, NEW w \in Names,
                 NEW j \in 1 .. Len(content'[z]), NEW k \in 1 .. Len(content'[w]),
                 content'[z][j] = content'[w][k]
          PROVE  z = w /\ j = k
      <3> DEFINE jj == IF z = x THEN j + 1 ELSE j
                 kk == IF w = x THEN k + 1 ELSE k
      <3>1. /\ jj \in 1 .. Len(content[z]) /\ content'[z][j] = content[z][jj]
            /\ kk \in 1 .. Len(content[w]) /\ content'[w][k] = content[w][kk]
        BY <1>1, <1>4, LossOrigin
      <3> HIDE DEF jj, kk
      <3>3. content[z][jj] = content[w][kk] /\ Single
        BY <2>3, <3>1
      <3>2. z = w /\ jj = kk
        BY ONLY <3>1, <3>3, OnePlaceAt
      <3> QED
        BY <3>2 DEF jj, kk
    <2> QED
      BY <2>1, <2>2, <2>3 DEF Single, OnePlace, NoneSentTwice
  <1>5. CASE Rests
    <2>1. sent' = sent /\ \A z \in Names : content'[z] = content[z]
      BY <1>5 DEF Rests, OthersKept
    <2> QED
      BY <2>1 DEF Single, NoneSentTwice, OnlySent, OnePlace
  <1> QED
    BY <1>2, <1>3, <1>4, <1>5, Steps

-----------------------------------------------------------------------------
(***************************************************************************)
(* The account of the first n of the flows s: a number for each flow, and  *)
(* how many packets came that way, which is none for a flow that is in the *)
(* map before its packet is added.                                         *)
(***************************************************************************)
Among(n, s)    == {s[k] : k \in 1 .. n}
Times(n, s, f) == Cardinality({k \in 1 .. n : s[k] = f})

IsAccount(n, s, map, count, totals) ==
  /\ count \in Nat \ {0}
  /\ Among(n, s) \subseteq DOMAIN map
  /\ \A f \in DOMAIN map : map[f] \in 1 .. (count - 1)
  /\ \A f, g \in DOMAIN map : map[f] = map[g] => f = g
  /\ totals \in [1 .. (count - 1) -> Nat]
  /\ \A f \in DOMAIN map : totals[map[f]] = Times(n, s, f)

LEMMA OneMore ==
  ASSUME NEW n \in Nat, NEW s
  PROVE  /\ Among(n + 1, s) = Among(n, s) \cup {s[n + 1]}
         /\ \A f : Times(n, s, f) \in Nat
         /\ Times(n + 1, s, s[n + 1]) = Times(n, s, s[n + 1]) + 1
         /\ \A f : f # s[n + 1] => Times(n + 1, s, f) = Times(n, s, f)
         /\ \A f : f \notin Among(n, s) => Times(n, s, f) = 0
  <1> DEFINE A(f) == {k \in 1 .. n : s[k] = f}
             B(f) == {k \in 1 .. (n + 1) : s[k] = f}
  <1>1. Among(n + 1, s) = Among(n, s) \cup {s[n + 1]}
    <2>1. 1 .. (n + 1) = (1 .. n) \cup {n + 1}
      OBVIOUS
    <2> QED
      BY <2>1 DEF Among
  <1>2. ASSUME NEW f
        PROVE  /\ IsFiniteSet(A(f))
               /\ n + 1 \notin A(f)
               /\ s[n + 1] = f => B(f) = A(f) \cup {n + 1}
               /\ s[n + 1] # f => B(f) = A(f)
               /\ f \notin Among(n, s) => A(f) = {}
    <2>1. IsFiniteSet(1 .. n) /\ A(f) \subseteq 1 .. n
      BY FS_Interval
    <2>2. IsFiniteSet(A(f))
      BY <2>1, FS_Subset
    <2>3. n + 1 \notin A(f)
      OBVIOUS
    <2>4. s[n + 1] = f => B(f) = A(f) \cup {n + 1}
      OBVIOUS
    <2>5. s[n + 1] # f => B(f) = A(f)
      OBVIOUS
    <2>6. f \notin Among(n, s) => A(f) = {}
      BY DEF Among
    <2> QED
      BY <2>2, <2>3, <2>4, <2>5, <2>6
  <1>3. \A f : Times(n, s, f) = Cardinality(A(f)) /\ Times(n + 1, s, f) = Cardinality(B(f))
    BY DEF Times
  <1> HIDE DEF A, B
  <1>4. \A f : Cardinality(A(f)) \in Nat
    BY <1>2, FS_CardinalityType
  <1>5. Cardinality(B(s[n + 1])) = Cardinality(A(s[n + 1])) + 1
    BY <1>2, FS_AddElement
  <1>6. \A f : f # s[n + 1] => Cardinality(B(f)) = Cardinality(A(f))
    BY <1>2
  <1>7. \A f : f \notin Among(n, s) => Cardinality(A(f)) = 0
    BY <1>2, FS_EmptySet
  <1> QED
    BY <1>1, <1>3, <1>4, <1>5, <1>6, <1>7

LEMMA AccountSame ==
  ASSUME NEW n \in Nat, NEW s, NEW t, NEW map, NEW count, NEW totals,
         IsAccount(n, s, map, count, totals),
         \A k \in 1 .. n : s[k] = t[k]
  PROVE  IsAccount(n, t, map, count, totals)
  <1>1. Among(n, s) = Among(n, t)
    BY DEF Among
  <1>2. ASSUME NEW f
        PROVE  Times(n, s, f) = Times(n, t, f)
    <2>1. {k \in 1 .. n : s[k] = f} = {k \in 1 .. n : t[k] = f}
      OBVIOUS
    <2> QED
      BY <2>1 DEF Times
  <1> QED
    BY <1>1, <1>2 DEF IsAccount

\* Only the values of the map matter.
LEMMA AccountOfMap ==
  ASSUME NEW n, NEW s, NEW map, NEW count, NEW totals, NEW other,
         IsAccount(n, s, map, count, totals),
         DOMAIN other = DOMAIN map,
         \A f \in DOMAIN map : other[f] = map[f]
  PROVE  IsAccount(n, s, other, count, totals)
  BY DEF IsAccount

LEMMA AccountNew ==
  ASSUME NEW n \in Nat, NEW s, NEW map, NEW count, NEW totals, NEW f,
         IsAccount(n, s, map, count, totals),
         f \notin DOMAIN map
  PROVE  IsAccount(n, s, Inserted(map, f, count), count + 1,
                   Inserted(totals, count, 0))
  <1> DEFINE m1 == Inserted(map, f, count)
             t1 == Inserted(totals, count, 0)
  <1> USE DEF IsAccount
  <1>1. /\ DOMAIN m1 = DOMAIN map \cup {f} /\ m1[f] = count
        /\ \A g \in DOMAIN map : m1[g] = map[g]
    BY DEF m1, Inserted
  <1>2. /\ count \notin DOMAIN totals /\ DOMAIN totals = 1 .. (count - 1)
        /\ count \in Nat \ {0}
    OBVIOUS
  <1>3. /\ DOMAIN t1 = DOMAIN totals \cup {count} /\ t1[count] = 0
        /\ \A k \in DOMAIN totals : t1[k] = totals[k]
        /\ t1 = [k \in DOMAIN t1 |-> t1[k]]
    BY <1>2 DEF t1, Inserted
  <1> HIDE DEF m1, t1
  <1>4. DOMAIN t1 = 1 .. count /\ 1 .. count = 1 .. ((count + 1) - 1)
    <2>1. (count + 1) - 1 = count /\ 1 .. count = 1 .. (count - 1) \cup {count}
      BY <1>2
    <2> QED
      BY <1>2, <1>3, <2>1
  <1>5. \A k \in 1 .. count : t1[k] \in Nat
    BY <1>2, <1>3, <1>4
  <1>6. t1 \in [1 .. count -> Nat]
    BY <1>3, <1>4, <1>5
  <1>7. Among(n, s) \subseteq DOMAIN m1
    BY <1>1
  <1>8. \A g \in DOMAIN m1 : m1[g] \in 1 .. count
    BY <1>1
  <1>9. \A g, h \in DOMAIN m1 : m1[g] = m1[h] => g = h
    <2>1. \A g \in DOMAIN map : map[g] # count
      OBVIOUS
    <2> QED
      BY <1>1, <2>1
  <1>10. ASSUME NEW g \in DOMAIN m1
         PROVE  t1[m1[g]] = Times(n, s, g)
    <2>1. CASE g = f
      <3>1. Times(n, s, g) = 0
        BY <2>1, OneMore
      <3> QED
        BY <1>1, <1>3, <2>1, <3>1
    <2>2. CASE g # f
      <3>1. g \in DOMAIN map /\ map[g] \in DOMAIN totals
        BY <1>1, <1>2, <2>2
      <3>2. t1[m1[g]] = totals[map[g]]
        BY <1>1, <1>3, <3>1
      <3> QED
        BY <3>1, <3>2
    <2> QED
      BY <2>1, <2>2
  <1> QED
    <2>1. \A g \in DOMAIN m1 : m1[g] \in 1 .. ((count + 1) - 1)
      BY <1>4, <1>8
    <2>2. t1 \in [1 .. ((count + 1) - 1) -> Nat] /\ count + 1 \in Nat \ {0}
      BY <1>2, <1>4, <1>6
    <2>3. IsAccount(n, s, m1, count + 1, t1)
      BY ONLY <2>1, <2>2, <1>7, <1>9, <1>10 DEF IsAccount
    <2> QED
      BY <2>3 DEF m1, t1

LEMMA AccountKnown ==
  ASSUME NEW n \in Nat, NEW s, NEW map, NEW count, NEW totals,
         IsAccount(n, s, map, count, totals),
         s[n + 1] \in DOMAIN map
  PROVE  IsAccount(n + 1, s, map, count,
                   [totals EXCEPT ![map[s[n + 1]]] = @ + 1])
  <1> DEFINE f  == s[n + 1]
             x  == map[f]
             t1 == [totals EXCEPT ![x] = @ + 1]
  <1>0. /\ Among(n + 1, s) = Among(n, s) \cup {f}
        /\ \A g : Times(n, s, g) \in Nat
        /\ Times(n + 1, s, f) = Times(n, s, f) + 1
        /\ \A g : g # f => Times(n + 1, s, g) = Times(n, s, g)
        /\ \A g : g \notin Among(n, s) => Times(n, s, g) = 0
    BY OneMore
  <1> USE DEF IsAccount
  <1>1. /\ x \in 1 .. (count - 1) /\ totals[x] \in Nat /\ count \in Nat
        /\ totals \in [1 .. (count - 1) -> Nat]
    OBVIOUS
  <1> HIDE DEF x, f
  <1>2. t1 \in [1 .. (count - 1) -> Nat]
    BY <1>1
  <1>4. Among(n + 1, s) \subseteq DOMAIN map
    BY <1>0 DEF f
  <1>5. ASSUME NEW g \in DOMAIN map
        PROVE  t1[map[g]] = Times(n + 1, s, g)
    <2>1. totals[map[g]] = Times(n, s, g) /\ map[g] \in 1 .. (count - 1)
      OBVIOUS
    <2>2. CASE g = f
      <3>1. t1[map[g]] = totals[map[g]] + 1
        BY <1>1, <2>1, <2>2 DEF x
      <3>2. Times(n + 1, s, g) = Times(n, s, g) + 1
        BY <2>2, <1>0 DEF f
      <3> QED
        BY <2>1, <3>1, <3>2
    <2>3. CASE g # f
      <3>1. map[g] # x
        BY <2>3 DEF x, f
      <3>2. t1[map[g]] = totals[map[g]]
        BY <1>1, <2>1, <3>1
      <3>3. Times(n + 1, s, g) = Times(n, s, g)
        BY <2>3, <1>0 DEF f
      <3> QED
        BY <2>1, <3>2, <3>3
    <2> QED
      BY <2>2, <2>3
  <1> HIDE DEF t1
  <1>6. IsAccount(n + 1, s, map, count, t1)
    <2>1. /\ count \in Nat \ {0}
          /\ \A g \in DOMAIN map : map[g] \in 1 .. (count - 1)
          /\ \A g, h \in DOMAIN map : map[g] = map[h] => g = h
      OBVIOUS
    <2> QED
      BY ONLY <1>2, <1>4, <1>5, <2>1 DEF IsAccount
  <1> QED
    BY <1>6 DEF t1, x, f

(***************************************************************************)
(* Each destination keeps the account of what it has passed to its file.  A*)
(* packet that it has not accounted for is the one it still holds, and the *)
(* flow of that one may have a number that has no total yet.               *)
(***************************************************************************)
Flows(a) == [k \in 1 .. Len(written[a]) |-> flow[written[a][k]]]

Accounted(a) ==
  IF outPc[a] \in {"flow", "total"} THEN Len(written[a]) - 1 ELSE Len(written[a])

Accounting == {"flow", "total", "count"}

Counted(a) ==
  IF outPc[a] \in Accounting THEN Len(written[a]) - 1 ELSE Len(written[a])

Totalled(a) ==
  IF outPc[a] = "total"
  THEN [f \in DOMAIN flowMap[a] \ {FlowInHand(a)} |-> flowMap[a][f]]
  ELSE flowMap[a]

Account(a) ==
  /\ IsAccount(Accounted(a), Flows(a), Totalled(a), flowCount[a],
               flowTotalPackets[a])
  /\ DOMAIN flowMap[a] \subseteq Among(Len(written[a]), Flows(a))
  /\ outPc[a] = "total" =>
       /\ FlowInHand(a) \in DOMAIN flowMap[a]
       /\ flowMap[a][FlowInHand(a)] = flowCount[a]
  /\ toDest[a] = Counted(a)
  /\ outPc[a] \in Accounting =>
       Len(written[a]) # 0 /\ Head(outHand[a]) = written[a][Len(written[a])]

AccountTypes ==
  /\ DOMAIN flowMap = Destinations
  /\ DOMAIN flowCount = Destinations
  /\ DOMAIN flowTotalPackets = Destinations
  /\ toDest \in [Destinations -> Nat]

Accounts == AccountTypes /\ \A a \in Destinations : Account(a)

LEMMA AccountsInit == Init => Accounts
  <1> SUFFICES ASSUME Init PROVE Accounts
    OBVIOUS
  <1>1. AccountTypes
    BY DEF Init, AccountTypes
  <1>2. ASSUME NEW a \in Destinations
        PROVE  Account(a)
    <2>1. a \in OutAdaptors
      BY DEF Destinations
    <2>2. /\ written[a] = << >> /\ outPc[a] = "next" /\ toDest[a] = 0
          /\ flowMap[a] = << >> /\ flowCount[a] = 1
          /\ flowTotalPackets[a] = << >>
      BY <2>1 DEF Init
    <2>3. /\ Len(written[a]) = 0 /\ Accounted(a) = 0 /\ Counted(a) = 0
          /\ Totalled(a) = << >>
      BY <2>2 DEF Accounted, Counted, Accounting, Totalled
    <2>4. 1 .. 0 = {} /\ 1 .. (1 - 1) = {} /\ DOMAIN << >> = {}
      OBVIOUS
    <2>5. << >> \in [{} -> Nat]
      BY <2>4
    <2>6. Among(0, Flows(a)) = {}
      BY <2>4 DEF Among
    <2>7. IsAccount(0, Flows(a), << >>, 1, << >>)
      BY <2>4, <2>5, <2>6 DEF IsAccount
    <2>8. DOMAIN flowMap[a] \subseteq Among(Len(written[a]), Flows(a))
      BY <2>2, <2>4
    <2> QED
      BY <2>2, <2>3, <2>7, <2>8 DEF Account, Accounting
  <1> QED
    BY <1>1, <1>2 DEF Accounts

(***************************************************************************)
(* Nobody touches the flow of a packet that has been written.              *)
(***************************************************************************)
LEMMA FileFlowKept ==
  ASSUME Types, Single, [Next]_vars, NEW a \in Destinations,
         NEW k \in 1 .. Len(written[a])
  PROVE  flow'[written[a][k]] = flow[written[a][k]]
  <1> DEFINE r == written[a][k]
  <1>1. File(a) \in Names /\ content[File(a)] = written[a]
    BY NamesAre, ContentPartsLemma DEF ContentParts
  <1>2. r \in Packets /\ DOMAIN flow = Packets
    <2>1. written[a] \in Seq(Packets)
      BY DEF Types
    <2> QED
      BY <2>1 DEF Types
  <1>3. ASSUME NEW p \in Packets, Send(p)
        PROVE  flow'[r] = flow[r]
    <2>1. PICK m \in 1 .. Len(sent) : sent[m] = r
      BY <1>1 DEF Single, OnlySent
    <2>2. r # p
      BY <1>3, <2>1 DEF Send, ToSet, Types
    <2>3. flow' = [flow EXCEPT ![p] = << 0 >>]
      BY <1>3 DEF Send
    <2> HIDE DEF r
    <2> QED
      BY <1>2, <2>2, <2>3
  <1>4. ASSUME NEW b \in OutAdaptors, OutputPop(b)
        PROVE  flow'[r] = flow[r]
    <2> DEFINE q == qNum[b]
               p == Head(outQueue[b][q])
    <2>1. /\ q \in Queues(b) /\ outQueue[b][q] \in Seq(Packets)
          /\ outQueue[b][q] # << >>
      BY <1>4 DEF Types, OutTypes, OutputPop
    <2>2. Out(b, q) \in Names /\ content[Out(b, q)] = outQueue[b][q]
      BY <2>1, NamesAre, ContentPartsLemma DEF ContentParts
    <2>3. p = content[Out(b, q)][1] /\ 1 \in 1 .. Len(content[Out(b, q)])
      BY <2>1, <2>2, TailAt
    <2>4. flow' = [flow EXCEPT ![p] = Append(@, b[1])]
      BY <1>4 DEF OutputPop
    <2>5. r = content[File(a)][k] /\ k \in 1 .. Len(content[File(a)])
      BY <1>1
    <2>6. Single /\ File(a) \in Names
      BY <1>1
    <2> HIDE DEF r, q, p
    <2>7. r # p
      <3>1. Out(b, q) # File(a)
        BY NamesDiffer
      <3> QED
        BY ONLY <3>1, <2>2, <2>3, <2>5, <2>6, OnePlaceAt
    <2> QED
      BY <1>2, <2>4, <2>7
  <1>5. ASSUME flow' = flow
        PROVE  flow'[r] = flow[r]
    BY <1>5
  <1> HIDE DEF r
  <1>6. ASSUME NEW b \in OutAdaptors, OutputStep(b)
        PROVE  flow'[r] = flow[r]
    <2>1. OutputPop(b) \/ flow' = flow
      BY <1>6 DEF OutputStep, OutputSkip, OutputVisit, OutputService,
           OutputTransfer, OutputWrite, OutputEnd, FlowNumber, FlowTotal,
           FlowAdd, OutputCount, EndPacket
    <2> QED
      BY <1>4, <1>5, <2>1
  <1>7. ASSUME NEW b \in InAdaptors, InputStep(b)
        PROVE  flow'[r] = flow[r]
    BY <1>7 DEF InputStep, InputPop, InputFabric
  <1>8. CASE UNCHANGED vars
    BY <1>8 DEF vars
  <1>10. ASSUME NEW b, Terminate(b) \/ Close(b)
         PROVE  flow'[r] = flow[r]
    BY <1>10 DEF Terminate, Close
  <1>9. flow'[r] = flow[r]
    <2>1. [Next]_vars
      OBVIOUS
    <2> QED
      BY ONLY <1>3, <1>6, <1>7, <1>8, <1>10, <2>1 DEF Next, r
  <1> QED
    BY <1>9 DEF r

(***************************************************************************)
(* An account stays as it is while its thread does something else.         *)
(***************************************************************************)
BooksKept(a) ==
  /\ flowMap'[a] = flowMap[a]
  /\ flowCount'[a] = flowCount[a]
  /\ flowTotalPackets'[a] = flowTotalPackets[a]

Idle(a) ==
  /\ BooksKept(a)
  /\ written'[a] = written[a]
  /\ toDest'[a] = toDest[a]
  /\ \/ outPc'[a] = outPc[a] /\ outHand'[a] = outHand[a]
     \/ outPc[a] \notin Accounting /\ outPc'[a] \notin Accounting

LEMMA FlowsKept ==
  ASSUME Types, Types', NEW a \in Destinations, NEW n \in Nat,
         n <= Len(written[a]), n <= Len(written'[a]),
         \A k \in 1 .. Len(written[a]) : flow'[written[a][k]] = flow[written[a][k]],
         \A k \in 1 .. n : written'[a][k] = written[a][k]
  PROVE  \A k \in 1 .. n : Flows(a)[k] = Flows(a)'[k]
  <1>1. Len(written[a]) \in Nat /\ Len(written'[a]) \in Nat
    BY DEF Types
  <1> SUFFICES ASSUME NEW k \in 1 .. n PROVE Flows(a)[k] = Flows(a)'[k]
    OBVIOUS
  <1>2. k \in 1 .. Len(written[a]) /\ k \in 1 .. Len(written'[a])
    BY <1>1
  <1>3. Flows(a)[k] = flow[written[a][k]]
    BY <1>2 DEF Flows
  <1>4. Flows(a)'[k] = flow'[written'[a][k]]
    BY <1>2 DEF Flows
  <1> QED
    BY <1>2, <1>3, <1>4

LEMMA AccountIdle ==
  ASSUME Types, Types', NEW a \in Destinations, Account(a), Idle(a),
         \A k \in 1 .. Len(written[a]) : flow'[written[a][k]] = flow[written[a][k]]
  PROVE  Account(a)'
  <1>1. Accounted(a)' = Accounted(a) /\ Counted(a)' = Counted(a)
    BY DEF Idle, Accounting, Accounted, Counted
  <1>2. /\ Accounted(a) \in Nat /\ Accounted(a) <= Len(written[a])
        /\ written[a] \in Seq(Packets) /\ Len(written[a]) \in Nat
    <2>1. written[a] \in Seq(Packets) /\ Len(written[a]) \in Nat
      BY DEF Types
    <2> QED
      BY <2>1 DEF Account, Accounted, Accounting
  <1>3. Flows(a)' = Flows(a)
    BY DEF Idle, Flows
  <1>4. ASSUME outPc[a] \in Accounting
        PROVE  FlowInHand(a)' = FlowInHand(a)
    <2>1. /\ outHand'[a] = outHand[a] /\ Head(outHand[a]) = written[a][Len(written[a])]
          /\ Len(written[a]) \in 1 .. Len(written[a])
      BY <1>2, <1>4 DEF Idle, Account
    <2> QED
      BY <2>1 DEF FlowInHand
  <1>5. Totalled(a)' = Totalled(a)
    <2>1. outPc'[a] = "total" <=> outPc[a] = "total"
      BY DEF Idle, Accounting
    <2> QED
      BY <1>4, <2>1 DEF Totalled, Idle, BooksKept, Accounting
  <1>6. IsAccount(Accounted(a)', Flows(a)', Totalled(a)', flowCount'[a],
                  flowTotalPackets'[a])
    BY <1>1, <1>3, <1>5 DEF Idle, BooksKept, Account
  <1>7. outPc'[a] \in Accounting =>
          Len(written'[a]) # 0 /\ Head(outHand'[a]) = written'[a][Len(written'[a])]
    BY DEF Idle, Account
  <1>8. toDest'[a] = Counted(a)'
    BY <1>1 DEF Idle, Account
  <1>9. DOMAIN flowMap'[a] \subseteq Among(Len(written'[a]), Flows(a)')
    BY <1>3 DEF Idle, BooksKept, Account
  <1>10. outPc'[a] = "total" =>
           /\ FlowInHand(a)' \in DOMAIN flowMap'[a]
           /\ flowMap'[a][FlowInHand(a)'] = flowCount'[a]
    BY <1>4 DEF Idle, BooksKept, Account, Accounting
  <1> QED
    BY <1>6, <1>7, <1>8, <1>9, <1>10 DEF Account

(***************************************************************************)
(* The three steps of the account.                                         *)
(***************************************************************************)
LEMMA Holding ==
  ASSUME Types, NEW a \in Destinations, Account(a), outPc[a] \in {"flow", "total"}
  PROVE  /\ Len(written[a]) \in Nat \ {0}
         /\ Accounted(a) = Len(written[a]) - 1
         /\ Flows(a)[Len(written[a])] = FlowInHand(a)
         /\ Among(Len(written[a]), Flows(a)) =
              Among(Accounted(a), Flows(a)) \cup {FlowInHand(a)}
         /\ a \in OutAdaptors /\ DOMAIN outPc = OutAdaptors
  <1>1. /\ Len(written[a]) \in Nat \ {0} /\ Head(outHand[a]) = written[a][Len(written[a])]
        /\ Accounted(a) = Len(written[a]) - 1
    BY DEF Types, Account, Accounting, Accounted
  <1>2. Flows(a)[Len(written[a])] = FlowInHand(a)
    BY <1>1 DEF Flows, FlowInHand
  <1> DEFINE n == Len(written[a])
             s == Flows(a)
  <1>3. n - 1 \in Nat /\ (n - 1) + 1 = n
    BY <1>1
  <1> HIDE DEF n, s
  <1>4. Among((n - 1) + 1, s) = Among(n - 1, s) \cup {s[(n - 1) + 1]}
    BY ONLY <1>3, OneMore
  <1>5. a \in OutAdaptors /\ DOMAIN outPc = OutAdaptors
    BY DEF Types, Destinations
  <1> QED
    BY <1>1, <1>2, <1>3, <1>4, <1>5 DEF n, s

LEMMA FlowNumberKeeps ==
  ASSUME Types, NEW a, AccountTypes, a \in Destinations => Account(a), FlowNumber(a),
         a \in OutAdaptors
  PROVE  AccountTypes' /\ (a \in Destinations => Account(a)')
  <1>1. AccountTypes'
    BY DEF FlowNumber, AccountTypes
  <1> SUFFICES ASSUME a \in Destinations PROVE Account(a)'
    BY <1>1
  <1> DEFINE f == FlowInHand(a)
  <1>2. /\ outPc[a] = "flow" /\ f \notin DOMAIN flowMap[a]
        /\ UNCHANGED << flow, written, outHand, flowCount, flowTotalPackets, toDest >>
        /\ flowMap'[a] = Inserted(flowMap[a], f, flowCount[a])
        /\ outPc'[a] = "total"
    BY Holding DEF FlowNumber, Goto, fileVars, AccountTypes
  <1>3. Flows(a)' = Flows(a) /\ FlowInHand(a)' = f
    BY <1>2 DEF Flows, FlowInHand
  <1>4. /\ Accounted(a)' = Accounted(a) /\ Counted(a)' = Counted(a)
        /\ Totalled(a) = flowMap[a]
        /\ Totalled(a)' = [g \in DOMAIN flowMap'[a] \ {f} |-> flowMap'[a][g]]
    BY <1>2, <1>3 DEF Accounted, Counted, Accounting, Totalled
  <1>5. /\ Among(Len(written[a]), Flows(a)) = Among(Accounted(a), Flows(a)) \cup {f}
        /\ IsAccount(Accounted(a), Flows(a), flowMap[a], flowCount[a],
                     flowTotalPackets[a])
        /\ DOMAIN flowMap[a] \subseteq Among(Len(written[a]), Flows(a))
    BY <1>2, <1>4, Holding DEF Account
  <1> HIDE DEF f
  <1>6. /\ DOMAIN flowMap'[a] = DOMAIN flowMap[a] \cup {f}
        /\ flowMap'[a][f] = flowCount[a]
        /\ \A g \in DOMAIN flowMap[a] : flowMap'[a][g] = flowMap[a][g]
    BY <1>2 DEF Inserted
  <1>7. /\ DOMAIN (Totalled(a)') = DOMAIN flowMap[a]
        /\ \A g \in DOMAIN flowMap[a] : (Totalled(a)')[g] = flowMap[a][g]
    BY <1>2, <1>4, <1>6
  <1>8. IsAccount(Accounted(a), Flows(a), Totalled(a)', flowCount[a],
                  flowTotalPackets[a])
    BY ONLY <1>5, <1>7, AccountOfMap
  <1>9. DOMAIN flowMap'[a] \subseteq Among(Len(written'[a]), Flows(a)')
    BY <1>2, <1>3, <1>5, <1>6
  <1>10. /\ toDest'[a] = Counted(a)'
         /\ Len(written'[a]) # 0 /\ Head(outHand'[a]) = written'[a][Len(written'[a])]
    BY <1>2, <1>4 DEF Account, Accounting
  <1> QED
    BY <1>2, <1>3, <1>4, <1>6, <1>8, <1>9, <1>10 DEF Account

LEMMA FlowTotalKeeps ==
  ASSUME Types, NEW a, AccountTypes, a \in Destinations => Account(a), FlowTotal(a),
         a \in OutAdaptors
  PROVE  AccountTypes' /\ (a \in Destinations => Account(a)')
  <1>1. AccountTypes'
    BY DEF FlowTotal, AccountTypes
  <1> SUFFICES ASSUME a \in Destinations PROVE Account(a)'
    BY <1>1
  <1> DEFINE f == FlowInHand(a)
  <1>2. /\ outPc[a] = "total"
        /\ UNCHANGED << flow, written, outHand, flowMap, toDest >>
        /\ flowCount'[a] = flowCount[a] + 1
        /\ flowTotalPackets'[a] = Inserted(flowTotalPackets[a], flowCount[a], 0)
        /\ outPc'[a] = "flow"
    BY Holding DEF FlowTotal, Goto, fileVars, AccountTypes
  <1>3. Flows(a)' = Flows(a)
    BY <1>2 DEF Flows
  <1>4. /\ Accounted(a)' = Accounted(a) /\ Counted(a)' = Counted(a)
        /\ Totalled(a)' = flowMap[a]
        /\ Totalled(a) = [g \in DOMAIN flowMap[a] \ {f} |-> flowMap[a][g]]
        /\ Accounted(a) \in Nat
    BY <1>2, Holding DEF Accounted, Counted, Accounting, Totalled
  <1>5. /\ IsAccount(Accounted(a), Flows(a), Totalled(a), flowCount[a],
                     flowTotalPackets[a])
        /\ f \in DOMAIN flowMap[a] /\ flowMap[a][f] = flowCount[a]
    BY <1>2 DEF Account
  <1> HIDE DEF f
  <1>6. IsAccount(Accounted(a), Flows(a), Inserted(Totalled(a), f, flowCount[a]),
                  flowCount[a] + 1, Inserted(flowTotalPackets[a], flowCount[a], 0))
    <2>1. f \notin DOMAIN Totalled(a)
      BY <1>4
    <2> QED
      BY ONLY <1>4, <1>5, <2>1, AccountNew
  <1>7. /\ DOMAIN flowMap[a] = DOMAIN Inserted(Totalled(a), f, flowCount[a])
        /\ \A g \in DOMAIN Inserted(Totalled(a), f, flowCount[a]) :
             flowMap[a][g] = Inserted(Totalled(a), f, flowCount[a])[g]
    BY <1>4, <1>5 DEF Inserted
  <1>8. IsAccount(Accounted(a), Flows(a), flowMap[a], flowCount[a] + 1,
                  Inserted(flowTotalPackets[a], flowCount[a], 0))
    BY ONLY <1>6, <1>7, AccountOfMap
  <1>9. /\ toDest'[a] = Counted(a)'
        /\ Len(written'[a]) # 0 /\ Head(outHand'[a]) = written'[a][Len(written'[a])]
        /\ DOMAIN flowMap'[a] \subseteq Among(Len(written'[a]), Flows(a)')
    BY <1>2, <1>3, <1>4 DEF Account, Accounting
  <1> QED
    BY <1>2, <1>3, <1>4, <1>8, <1>9 DEF Account

LEMMA FlowAddKeeps ==
  ASSUME Types, NEW a, AccountTypes, a \in Destinations => Account(a), FlowAdd(a),
         a \in OutAdaptors
  PROVE  AccountTypes' /\ (a \in Destinations => Account(a)')
  <1>1. AccountTypes'
    BY DEF FlowAdd, AccountTypes
  <1> SUFFICES ASSUME a \in Destinations PROVE Account(a)'
    BY <1>1
  <1> DEFINE f == FlowInHand(a)
             n == Len(written[a])
  <1>2. /\ outPc[a] = "flow" /\ f \in DOMAIN flowMap[a]
        /\ UNCHANGED << flow, written, outHand, flowMap, flowCount, toDest >>
        /\ flowTotalPackets'[a] =
             [flowTotalPackets[a] EXCEPT ![flowMap[a][f]] = @ + 1]
        /\ outPc'[a] = "count"
    BY Holding DEF FlowAdd, Goto, fileVars, AccountTypes
  <1>3. Flows(a)' = Flows(a)
    BY <1>2 DEF Flows
  <1>4. /\ n \in Nat \ {0} /\ Accounted(a) = n - 1 /\ Accounted(a)' = n
        /\ Flows(a)[n] = f
    BY <1>2, Holding DEF Accounted
  <1>5. /\ Counted(a)' = Counted(a)
        /\ Totalled(a)' = flowMap[a] /\ Totalled(a) = flowMap[a]
    BY <1>2 DEF Counted, Accounting, Totalled
  <1>6. IsAccount(n - 1, Flows(a), flowMap[a], flowCount[a], flowTotalPackets[a])
    BY <1>4, <1>5 DEF Account
  <1> HIDE DEF f, n
  <1>7. n - 1 \in Nat /\ (n - 1) + 1 = n
    BY <1>4
  <1>8. IsAccount(n, Flows(a), flowMap[a], flowCount[a],
                  [flowTotalPackets[a] EXCEPT ![flowMap[a][f]] = @ + 1])
    <2>1. Flows(a)[(n - 1) + 1] \in DOMAIN flowMap[a]
      BY <1>2, <1>4, <1>7
    <2>2. IsAccount((n - 1) + 1, Flows(a), flowMap[a], flowCount[a],
            [flowTotalPackets[a] EXCEPT
               ![flowMap[a][Flows(a)[(n - 1) + 1]]] = @ + 1])
      BY ONLY <1>6, <1>7, <2>1, AccountKnown
    <2> QED
      BY <1>4, <1>7, <2>2
  <1>9. /\ toDest'[a] = Counted(a)'
        /\ Len(written'[a]) # 0 /\ Head(outHand'[a]) = written'[a][Len(written'[a])]
        /\ DOMAIN flowMap'[a] \subseteq Among(Len(written'[a]), Flows(a)')
    BY <1>2, <1>3, <1>5 DEF Account, Accounting
  <1> QED
    BY <1>2, <1>3, <1>4, <1>5, <1>8, <1>9 DEF Account

LEMMA AccountsNext ==
  Types /\ Types' /\ Single /\ Accounts /\ [Next]_vars => Accounts'
  <1> SUFFICES ASSUME Types, Types', Single, Accounts, [Next]_vars
               PROVE  Accounts'
    OBVIOUS
  <1>1. \A a \in Destinations : \A k \in 1 .. Len(written[a]) :
          flow'[written[a][k]] = flow[written[a][k]]
    BY FileFlowKept
  <1>2. \A a \in Destinations : Idle(a) => Account(a)'
    BY <1>1, AccountIdle DEF Accounts
  <1>3. AccountTypes
    BY DEF Accounts
  <1>4. CASE UNCHANGED << flowVars, toDest, written, outPc, outHand >>
    <2>1. \A a \in Destinations : Idle(a)
      BY <1>4 DEF Idle, BooksKept, flowVars
    <2>2. AccountTypes'
      BY <1>3, <1>4 DEF AccountTypes, flowVars
    <2> QED
      BY <1>2, <2>1, <2>2 DEF Accounts
  <1>5. ASSUME NEW a \in OutAdaptors, OutputStep(a)
        PROVE  Accounts'
    <2>1. ASSUME NEW b \in Destinations, b # a
          PROVE  Account(b)'
      <3>1. /\ outPc'[b] = outPc[b] /\ outHand'[b] = outHand[b]
            /\ written'[b] = written[b] /\ toDest'[b] = toDest[b]
        <4>1. /\ DOMAIN outPc = OutAdaptors /\ DOMAIN outHand = OutAdaptors
              /\ DOMAIN written = Destinations /\ DOMAIN toDest = Destinations
              /\ b \in OutAdaptors
          BY <1>3 DEF Types, AccountTypes, Destinations
        <4> QED
          BY ONLY <1>5, <2>1, <4>1 DEF OutputStep, OutputSkip, OutputVisit,
             OutputPop, OutputService, OutputTransfer, OutputWrite, OutputEnd,
             FlowNumber, FlowTotal, FlowAdd, OutputCount, EndPacket, Goto, fileVars
      <3>2. BooksKept(b)
        <4>1. CASE FlowNumber(a) \/ FlowTotal(a) \/ FlowAdd(a)
          BY <1>3, <2>1, <4>1 DEF FlowNumber, FlowTotal, FlowAdd, BooksKept,
               AccountTypes
        <4>2. CASE ~ (FlowNumber(a) \/ FlowTotal(a) \/ FlowAdd(a))
          BY <1>5, <4>2 DEF OutputStep, OutputSkip, OutputVisit, OutputPop,
               OutputService, OutputTransfer, OutputWrite, OutputEnd, OutputCount,
               EndPacket, BooksKept, flowVars
        <4> QED
          BY <4>1, <4>2
      <3>3. Idle(b)
        BY <3>1, <3>2 DEF Idle
      <3> QED
        BY <1>2, <3>3
    <2>2. /\ DOMAIN outPc = OutAdaptors /\ DOMAIN outHand = OutAdaptors
          /\ OutTypes(a)
      BY DEF Types
    <2>3. SUFFICES AccountTypes' /\ (a \in Destinations => Account(a)')
      BY <2>1 DEF Accounts
    <2>4. CASE OutputSkip(a) \/ OutputVisit(a) \/ OutputEnd(a) \/ OutputPop(a)
                 \/ OutputService(a) \/ OutputTransfer(a)
      <3>1. /\ UNCHANGED << flowMap, flowCount, flowTotalPackets, toDest, written >>
            /\ \/ outPc'[a] = outPc[a] /\ outHand'[a] = outHand[a]
               \/ outPc[a] \notin Accounting /\ outPc'[a] \notin Accounting
        BY <2>2, <2>4 DEF OutputSkip, OutputVisit, OutputEnd, OutputPop, OutputService,
             OutputTransfer, EndPacket, Goto, flowVars, fileVars, Accounting
      <3>2. Idle(a)
        BY <3>1 DEF Idle, BooksKept
      <3>3. AccountTypes'
        BY <1>3, <3>1 DEF AccountTypes
      <3> QED
        BY <1>2, <3>2, <3>3
    <2>5. CASE OutputWrite(a)
      <3>1. /\ a \in Destinations /\ outPc[a] = "write" /\ Account(a)
            /\ outHand[a] \in Seq(Packets) /\ Len(outHand[a]) = 1
            /\ written[a] \in Seq(Packets) /\ DOMAIN written = Destinations
        BY <2>2, <2>5 DEF OutputWrite, OutTypes, Accounts, Types
      <3>2. /\ UNCHANGED << flowMap, flowCount, flowTotalPackets, toDest, outHand >>
            /\ written'[a] = written[a] \o outHand[a]
            /\ outPc'[a] = "flow"
        BY <2>2, <2>5, <3>1 DEF OutputWrite, Goto, flowVars
      <3>3. outHand[a] = << Head(outHand[a]) >> /\ Head(outHand[a]) \in Packets
        BY <3>1, SingleSeq
      <3>4. written'[a] = Append(written[a], Head(outHand[a]))
        <4>1. written[a] \o << Head(outHand[a]) >> = Append(written[a], Head(outHand[a]))
          BY <3>1, <3>3, AppendIsConcat
        <4> QED
          BY <3>2, <3>3, <4>1
      <3>5. /\ Len(written[a]) \in Nat /\ Len(written'[a]) = Len(written[a]) + 1
            /\ \A k \in 1 .. Len(written[a]) : written'[a][k] = written[a][k]
            /\ written'[a][Len(written[a]) + 1] = Head(outHand[a])
        BY <3>1, <3>3, <3>4, AppendProperties, LenProperties
      <3>6. /\ Accounted(a) = Len(written[a]) /\ Counted(a) = Len(written[a])
            /\ Accounted(a)' = Len(written[a]) /\ Counted(a)' = Len(written[a])
            /\ Totalled(a) = flowMap[a] /\ Totalled(a)' = flowMap[a]
        BY <3>1, <3>2, <3>5 DEF Accounted, Counted, Accounting, Totalled
      <3>7. \A k \in 1 .. Len(written[a]) : Flows(a)[k] = Flows(a)'[k]
        BY <1>1, <3>1, <3>5, FlowsKept
      <3>8. IsAccount(Len(written[a]), Flows(a)', flowMap[a], flowCount[a],
                      flowTotalPackets[a])
        <4>1. IsAccount(Len(written[a]), Flows(a), flowMap[a], flowCount[a],
                        flowTotalPackets[a])
          BY <3>1, <3>6 DEF Account
        <4> QED
          BY ONLY <3>5, <3>7, <4>1, AccountSame
      <3>9. DOMAIN flowMap[a] \subseteq Among(Len(written'[a]), Flows(a)')
        <4>1. DOMAIN flowMap[a] \subseteq Among(Len(written[a]), Flows(a))
          BY <3>1 DEF Account
        <4> QED
          BY <3>5, <3>7, <4>1 DEF Among
      <3>10. Account(a)'
        BY <3>1, <3>2, <3>5, <3>6, <3>8, <3>9 DEF Account
      <3>11. AccountTypes'
        BY <1>3, <3>2 DEF AccountTypes
      <3> QED
        BY <3>10, <3>11
    <2>6. CASE FlowNumber(a)
      BY <1>3, <2>6, FlowNumberKeeps DEF Accounts
    <2>7. CASE FlowTotal(a)
      BY <1>3, <2>7, FlowTotalKeeps DEF Accounts
    <2>8. CASE FlowAdd(a)
      BY <1>3, <2>8, FlowAddKeeps DEF Accounts
    <2>9. CASE OutputCount(a)
      <3>1. /\ a \in Destinations /\ outPc[a] = "count" /\ Account(a)
            /\ Len(written[a]) \in Nat
        BY <2>2, <2>9 DEF OutputCount, OutTypes, Accounts, Types
      <3>2. /\ UNCHANGED << flow, written, flowMap, flowCount, flowTotalPackets >>
            /\ toDest' = [toDest EXCEPT ![a] = @ + 1]
            /\ outPc'[a] = "pop"
        BY <2>2, <2>9 DEF OutputCount, EndPacket, Goto, flowVars, fileVars
      <3>3. /\ Accounted(a)' = Accounted(a) /\ Accounted(a) = Len(written[a])
            /\ Counted(a)' = Len(written[a]) /\ Counted(a) = Len(written[a]) - 1
            /\ Totalled(a)' = Totalled(a)
        BY <3>1, <3>2 DEF Accounted, Counted, Accounting, Totalled
      <3>4. toDest[a] = Len(written[a]) - 1 /\ toDest \in [Destinations -> Nat]
        BY <1>3, <3>1, <3>3 DEF Account, AccountTypes
      <3>5. toDest'[a] = Len(written[a]) /\ toDest' \in [Destinations -> Nat]
        BY <3>1, <3>2, <3>4
      <3>6. Flows(a)' = Flows(a)
        BY <3>2 DEF Flows
      <3>7. AccountTypes'
        BY <1>3, <3>2, <3>5 DEF AccountTypes
      <3>8. Account(a)'
        BY <3>1, <3>2, <3>3, <3>5, <3>6 DEF Account, Accounting
      <3> QED
        BY <3>7, <3>8
    <2> QED
      BY <1>5, <2>4, <2>5, <2>6, <2>7, <2>8, <2>9 DEF OutputStep
  <1>6. ASSUME NEW p \in Packets, Send(p)
        PROVE  UNCHANGED << flowVars, toDest, written, outPc, outHand >>
    BY <1>6 DEF Send, outVars, fileVars
  <1>7. ASSUME NEW a \in InAdaptors, InputStep(a)
        PROVE  UNCHANGED << flowVars, toDest, written, outPc, outHand >>
    BY <1>7 DEF InputStep, InputPop, InputFabric, outVars, fileVars
  <1>8. ASSUME NEW a, Terminate(a) \/ Close(a)
        PROVE  UNCHANGED << flowVars, toDest, written, outPc, outHand >>
    BY <1>8 DEF Terminate, Close, outVars, fileVars
  <1>9. CASE UNCHANGED vars
    BY <1>4, <1>9 DEF vars, outVars, fileVars
  <1> QED
    BY <1>4, <1>5, <1>6, <1>7, <1>8, <1>9 DEF Next

(***************************************************************************)
(* The file holds what was passed to it before it was closed.              *)
(***************************************************************************)
FileHolds(a) ==
  /\ Len(outFile[a]) <= Len(written[a])
  /\ \A k \in 1 .. Len(outFile[a]) : outFile[a][k] = written[a][k]
  /\ ~ closed[a] => outFile[a] = written[a]

Files ==
  /\ outFile \in [Destinations -> Seq(Packets)]
  /\ DOMAIN closed = Destinations
  /\ \A a \in Destinations : FileHolds(a)

LEMMA Longer ==
  ASSUME NEW s \in Seq(Packets), NEW t \in Seq(Packets)
  PROVE  /\ Len(s) \in Nat /\ Len(s) <= Len(s \o t)
         /\ \A k \in 1 .. Len(s) : (s \o t)[k] = s[k]
  OBVIOUS

LEMMA FilesInit == Init => Files
  <1>1. Len(<< >>) <= Len(<< >>) /\ 1 .. Len(<< >>) = {}
    OBVIOUS
  <1> QED
    BY <1>1 DEF Init, Files, FileHolds

LEMMA FilesNext == Types /\ Files /\ [Next]_vars => Files'
  <1> SUFFICES ASSUME Types, Files, [Next]_vars PROVE Files'
    OBVIOUS
  <1>1. CASE UNCHANGED << fileVars, closed >>
    BY <1>1 DEF Files, FileHolds, fileVars
  <1>2. ASSUME NEW a \in OutAdaptors, OutputWrite(a)
        PROVE  Files'
    <2>1. /\ a \in Destinations /\ outHand[a] \in Seq(Packets) /\ Len(outHand[a]) = 1
          /\ written[a] \in Seq(Packets) /\ DOMAIN written = Destinations
          /\ outFile[a] \in Seq(Packets) /\ DOMAIN outFile = Destinations
      BY <1>2 DEF OutputWrite, Types, OutTypes, Files
    <2>2. /\ written' = [written EXCEPT ![a] = @ \o outHand[a]]
          /\ closed' = closed
          /\ \/ ~ closed[a] /\ outFile' = [outFile EXCEPT ![a] = @ \o outHand[a]]
             \/ closed[a] /\ outFile' = outFile
      BY <1>2 DEF OutputWrite, stopVars
    <2>3. outFile' \in [Destinations -> Seq(Packets)]
      <3>1. outFile[a] \o outHand[a] \in Seq(Packets)
        BY <2>1
      <3> QED
        BY <2>1, <2>2, <3>1 DEF Files
    <2>4. ASSUME NEW b \in Destinations, b # a
          PROVE  FileHolds(b)'
      <3>1. FileHolds(b) /\ written'[b] = written[b] /\ outFile'[b] = outFile[b]
        BY <2>1, <2>2, <2>4 DEF Files
      <3> QED
        BY <2>2, <3>1 DEF FileHolds
    <2>5. FileHolds(a)'
      <3>1. FileHolds(a) /\ written'[a] = written[a] \o outHand[a]
        BY <2>1, <2>2 DEF Files
      <3>2. CASE ~ closed[a]
        <4>1. outFile'[a] = outFile[a] \o outHand[a] /\ outFile[a] = written[a]
          BY <2>1, <2>2, <3>1, <3>2 DEF FileHolds
        <4>2. outFile'[a] = written'[a] /\ outFile'[a] \in Seq(Packets)
          BY <2>1, <3>1, <4>1
        <4>3. Len(outFile'[a]) \in Nat
          BY <4>2
        <4> QED
          BY <4>2, <4>3 DEF FileHolds
      <3>3. CASE closed[a]
        <4>1. outFile'[a] = outFile[a]
          BY <2>2, <3>3
        <4>2. /\ Len(written[a]) \in Nat /\ Len(written[a]) <= Len(written'[a])
              /\ \A k \in 1 .. Len(written[a]) : written'[a][k] = written[a][k]
          BY ONLY <2>1, <3>1, Longer
        <4>3. Len(outFile[a]) \in Nat /\ Len(written'[a]) \in Nat
          BY <2>1, <3>1
        <4> QED
          BY <2>2, <3>1, <3>3, <4>1, <4>2, <4>3 DEF FileHolds
      <3> QED
        BY <3>2, <3>3
    <2> QED
      BY <2>2, <2>3, <2>4, <2>5 DEF Files
  <1>3. ASSUME NEW a \in OutAdaptors, OutputStep(a), ~ OutputWrite(a)
        PROVE  UNCHANGED << fileVars, closed >>
    BY <1>3 DEF OutputStep, OutputSkip, OutputVisit, OutputEnd, OutputPop,
         OutputService, OutputTransfer, FlowNumber, FlowTotal, FlowAdd, OutputCount,
         EndPacket, stopVars
  <1>4. ASSUME NEW a \in Destinations, Close(a)
        PROVE  Files'
    <2>1. /\ UNCHANGED fileVars /\ DOMAIN closed' = Destinations
          /\ \A b \in Destinations : ~ closed'[b] => ~ closed[b]
      BY <1>4 DEF Close, Files
    <2> QED
      BY <2>1 DEF Files, FileHolds, fileVars
  <1>5. ASSUME NEW a, Terminate(a)
        PROVE  UNCHANGED << fileVars, closed >>
    BY <1>5 DEF Terminate
  <1>6. ASSUME NEW p, Send(p)
        PROVE  UNCHANGED << fileVars, closed >>
    BY <1>6 DEF Send, stopVars
  <1>7. ASSUME NEW a \in InAdaptors, InputStep(a)
        PROVE  UNCHANGED << fileVars, closed >>
    BY <1>7 DEF InputStep, InputPop, InputFabric, stopVars
  <1>8. CASE UNCHANGED vars
    BY <1>1, <1>8 DEF vars, stopVars
  <1> QED
    BY <1>1, <1>2, <1>3, <1>4, <1>5, <1>6, <1>7, <1>8 DEF Next

LEMMA FilesShown ==
  ASSUME Types, Files, NEW a \in Destinations
  PROVE  /\ IsPrefix(outFile[a], written[a])
         /\ ~ closed[a] => outFile[a] = written[a]
  <1> DEFINE s == outFile[a]
             t == written[a]
             n == Len(s)
  <1>1. /\ s \in Seq(Packets) /\ t \in Seq(Packets) /\ n <= Len(t)
        /\ n \in Nat /\ Len(t) \in Nat
        /\ \A k \in 1 .. n : s[k] = t[k]
    BY DEF Types, Files, FileHolds
  <1> HIDE DEF s, t, n
  <1>2. \A k \in 1 .. n : k \in 1 .. Len(t)
    BY <1>1
  <1>3. SubSeq(s, 1, n) = SubSeq(t, 1, n)
    <2>1. n = Len(s)
      BY DEF n
    <2>2. /\ Len(SubSeq(s, 1, n)) = n /\ Len(SubSeq(t, 1, n)) = n
          /\ SubSeq(s, 1, n) \in Seq(Packets) /\ SubSeq(t, 1, n) \in Seq(Packets)
          /\ \A k \in 1 .. n : SubSeq(s, 1, n)[k] = s[k]
          /\ \A k \in 1 .. n : SubSeq(t, 1, n)[k] = t[k]
      BY <1>1, <1>2, <2>1, SubSeqProperties
    <2> QED
      BY <1>1, <2>2, SeqEqual
  <1> QED
    BY <1>1, <1>3 DEF s, t, n, IsPrefix, Files, FileHolds

LEMMA AccountsShown == Types /\ Accounts /\ Files => FlowTotalsExact
  <1> SUFFICES ASSUME Types, Accounts, Files, NEW a \in Destinations
               PROVE  LET added == IF outPc[a] \in {"flow", "total"}
                                   THEN Front(written[a]) ELSE written[a]
                          flows == {flow[p] : p \in ToSet(added)}
                      IN  /\ flows \subseteq DOMAIN flowMap[a]
                          /\ \A f \in flows :
                               flowTotalPackets[a][flowMap[a][f]] =
                                 Cardinality({k \in DOMAIN added : flow[added[k]] = f})
                          /\ \A f \in DOMAIN flowMap[a] \ flows :
                               /\ added # written[a] /\ f = FlowInHand(a)
                               /\ IF outPc[a] = "total"
                                  THEN flowMap[a][f] \notin DOMAIN flowTotalPackets[a]
                                  ELSE flowTotalPackets[a][flowMap[a][f]] = 0
                          /\ toDest[a] <= Len(added)
                          /\ IsPrefix(outFile[a], written[a])
                          /\ ~ closed[a] => outFile[a] = written[a]
    BY DEF FlowTotalsExact
  <1> DEFINE added == IF outPc[a] \in {"flow", "total"} THEN Front(written[a])
                                                        ELSE written[a]
             flows == {flow[p] : p \in ToSet(added)}
             n == Accounted(a)
  <1>1. /\ Account(a) /\ written[a] \in Seq(Packets) /\ Len(written[a]) \in Nat
        /\ IsAccount(n, Flows(a), Totalled(a), flowCount[a], flowTotalPackets[a])
    BY DEF Types, Accounts, Account
  <1>2. /\ n \in Nat /\ n <= Len(written[a]) /\ Len(added) = n
        /\ DOMAIN added = 1 .. n /\ \A k \in 1 .. n : added[k] = written[a][k]
    <2>1. CASE outPc[a] \in {"flow", "total"}
      <3>1. Len(written[a]) # 0 /\ n = Len(written[a]) - 1 /\ added = Front(written[a])
        BY <1>1, <2>1, Holding
      <3>2. added = SubSeq(written[a], 1, Len(written[a]) - 1)
        BY <3>1 DEF Front
      <3>3. Len(added) = n /\ \A k \in 1 .. n : added[k] = written[a][k]
        BY <1>1, <3>1, <3>2, SubSeqProperties
      <3>4. DOMAIN added = 1 .. Len(added)
        BY <1>1, <3>1, <3>2, SubSeqProperties
      <3> QED
        BY <1>1, <3>1, <3>3, <3>4
    <2>2. CASE outPc[a] \notin {"flow", "total"}
      BY <1>1, <2>2 DEF Accounted
    <2> QED
      BY <2>1, <2>2
  <1>3. \A k \in 1 .. n : Flows(a)[k] = flow[added[k]]
    BY <1>1, <1>2 DEF Flows
  <1>10. added # written[a] \/ (outPc[a] \notin {"flow", "total"} /\ n = Len(written[a]))
    <2>1. CASE outPc[a] \in {"flow", "total"}
      BY <1>1, <1>2, <2>1, Holding
    <2>2. CASE outPc[a] \notin {"flow", "total"}
      BY <2>2 DEF Accounted
    <2> QED
      BY <2>1, <2>2
  <1> HIDE DEF added, n
  <1>4. flows = Among(n, Flows(a))
    <2>1. ToSet(added) = {added[k] : k \in 1 .. n}
      BY <1>2 DEF ToSet
    <2>2. flows = {flow[added[k]] : k \in 1 .. n}
      BY <2>1
    <2>3. Among(n, Flows(a)) = {flow[added[k]] : k \in 1 .. n}
      BY <1>3 DEF Among
    <2> QED
      BY <2>2, <2>3
  <1> HIDE DEF flows
  <1>5. /\ DOMAIN Totalled(a) \subseteq DOMAIN flowMap[a]
        /\ \A f \in DOMAIN Totalled(a) : Totalled(a)[f] = flowMap[a][f]
        /\ flows \subseteq DOMAIN Totalled(a)
    BY <1>1, <1>4 DEF Totalled, IsAccount
  <1>6. ASSUME NEW f \in flows
        PROVE  flowTotalPackets[a][flowMap[a][f]] =
                 Cardinality({k \in DOMAIN added : flow[added[k]] = f})
    <2>1. {k \in DOMAIN added : flow[added[k]] = f} = {k \in 1 .. n : Flows(a)[k] = f}
      BY <1>2, <1>3
    <2> QED
      BY <1>1, <1>5, <2>1 DEF IsAccount, Times
  <1>7. ASSUME NEW f \in DOMAIN flowMap[a] \ flows
        PROVE  /\ added # written[a] /\ f = FlowInHand(a)
               /\ IF outPc[a] = "total"
                  THEN flowMap[a][f] \notin DOMAIN flowTotalPackets[a]
                  ELSE flowTotalPackets[a][flowMap[a][f]] = 0
    <2>1. f \in Among(Len(written[a]), Flows(a))
      BY <1>1 DEF Account
    <2>2. added # written[a] /\ outPc[a] \in {"flow", "total"}
      <3>1. n # Len(written[a])
        BY <1>4, <2>1
      <3>2. outPc[a] \in {"flow", "total"}
        BY <3>1 DEF n, Accounted
      <3> QED
        BY <1>10, <3>1, <3>2
    <2>3. f = FlowInHand(a)
      BY <1>1, <1>4, <2>1, <2>2, Holding DEF n
    <2>4. CASE outPc[a] = "total"
      <3>1. flowMap[a][f] = flowCount[a] /\ flowCount[a] \in Nat
        BY <1>1, <2>3, <2>4 DEF Account, IsAccount
      <3>2. DOMAIN flowTotalPackets[a] = 1 .. (flowCount[a] - 1)
        BY <1>1 DEF IsAccount
      <3> QED
        BY <2>2, <2>3, <2>4, <3>1, <3>2
    <2>5. CASE outPc[a] # "total"
      <3>1. flowTotalPackets[a][flowMap[a][f]] = Times(n, Flows(a), f)
        BY <1>1, <2>5 DEF IsAccount, Totalled
      <3>2. Times(n, Flows(a), f) = 0
        BY <1>2, <1>4, OneMore
      <3> QED
        BY <2>2, <2>3, <2>5, <3>1, <3>2
    <2> QED
      BY <2>4, <2>5
  <1>8. toDest[a] <= Len(added)
    <2>1. toDest[a] = Counted(a)
      BY <1>1 DEF Account
    <2>2. CASE outPc[a] \in {"flow", "total"}
      <3>1. n = Len(written[a]) - 1 /\ Counted(a) = Len(written[a]) - 1
        BY <2>2 DEF n, Accounted, Counted, Accounting
      <3> QED
        BY <1>1, <1>2, <2>1, <3>1
    <2>3. CASE outPc[a] \notin {"flow", "total"}
      <3>1. n = Len(written[a]) /\ Counted(a) \in {Len(written[a]) - 1, Len(written[a])}
        BY <2>3 DEF n, Accounted, Counted
      <3> QED
        BY <1>1, <1>2, <2>1, <3>1
    <2> QED
      BY <2>2, <2>3
  <1>9. IsPrefix(outFile[a], written[a]) /\ (~ closed[a] => outFile[a] = written[a])
    BY FilesShown
  <1> QED
    BY <1>5, <1>6, <1>7, <1>8, <1>9 DEF added, flows

(***************************************************************************)
(* The types, that a packet is at one place at most, the accounts and the  *)
(* files.                                                                  *)
(***************************************************************************)
\* Every output adaptor has a flag that terminate() sets.
Flags == DOMAIN doTerminate = OutAdaptors

LEMMA FlagsNext == Flags /\ [Next]_vars => Flags'
  <1> SUFFICES ASSUME Flags, [Next]_vars PROVE Flags'
    OBVIOUS
  <1>1. ASSUME NEW a, Terminate(a) \/ Close(a)
        PROVE  Flags'
    BY <1>1 DEF Terminate, Close, Flags
  <1>2. ASSUME NEW p, Send(p)
        PROVE  UNCHANGED doTerminate
    BY <1>2 DEF Send, stopVars
  <1>3. ASSUME NEW a \in InAdaptors, InputStep(a)
        PROVE  UNCHANGED doTerminate
    BY <1>3 DEF InputStep, InputPop, InputFabric, stopVars
  <1>4. ASSUME NEW a \in OutAdaptors, OutputStep(a)
        PROVE  UNCHANGED doTerminate
    BY <1>4 DEF OutputStep, OutputSkip, OutputVisit, OutputEnd, OutputPop,
         OutputService, OutputTransfer, OutputWrite, FlowNumber, FlowTotal,
         FlowAdd, OutputCount, EndPacket, stopVars
  <1>5. CASE UNCHANGED vars
    BY <1>5 DEF vars, stopVars, Flags
  <1> QED
    BY <1>1, <1>2, <1>3, <1>4, <1>5 DEF Next, Flags

Inv == Types /\ Single /\ Accounts /\ Files /\ Flags

LEMMA Invariance == Spec => []Inv
  <1>1. Init => Inv
    BY TypesInit, SingleInit, AccountsInit, FilesInit DEF Inv, Flags, Init
  <1>2. Inv /\ [Next]_vars => Inv'
    BY TypesNext, SingleNext, AccountsNext, FilesNext, FlagsNext DEF Inv
  <1> QED
    BY <1>1, <1>2, PTL DEF Spec

(***************************************************************************)
(* At every step of the thread of a destination, which terminate() may make*)
(* its last, the totals of its flows are the numbers of packets passed to  *)
(* its file that came that way, but for the one in hand; the file has all  *)
(* that were passed to it before terminate() closed it.  This is so        *)
(* whatever the tables send where and even if packets are lost on the way. *)
(***************************************************************************)
THEOREM FlowTotalsAreExact == Spec => []FlowTotalsExact
  <1>1. Inv => FlowTotalsExact
    BY AccountsShown DEF Inv
  <1> QED
    BY <1>1, Invariance, PTL

-----------------------------------------------------------------------------
(***************************************************************************)
(* The core network delivers no more than was sent: what the destinations  *)
(* have counted is in their files, each packet in one file and once.       *)
(***************************************************************************)
LEMMA DestinationsFinite == IsFiniteSet(Destinations)
  <1> DEFINE R  == {{r} \X (1 .. Len(numQueues[r])) : r \in Routers}
             g  == [r \in Routers |-> {r} \X (1 .. Len(numQueues[r]))]
  <1>1. IsFiniteSet(R)
    <2>1. g \in Surjection(Routers, R)
      BY DEF Surjection
    <2> HIDE DEF g, R
    <2> QED
      BY <2>1, RoutersAssumption, FS_Surjection
  <1>2. ASSUME NEW r \in Routers
        PROVE  IsFiniteSet({r} \X (1 .. Len(numQueues[r])))
    <2>1. Len(numQueues[r]) \in Nat
      BY PortsAssumption
    <2> DEFINE n == Len(numQueues[r])
    <2> HIDE DEF n
    <2>2. IsFiniteSet(1 .. n)
      BY <2>1, FS_Interval DEF n
    <2>3. IsFiniteSet({r})
      BY FS_Singleton
    <2> QED
      BY <2>2, <2>3, FS_Product DEF n
  <1>3. \A x \in R : IsFiniteSet(x)
    BY <1>2
  <1> HIDE DEF R
  <1>4. IsFiniteSet(UNION R)
    BY <1>1, <1>3, FS_UNION
  <1>5. Destinations \subseteq UNION R
    BY DEF Destinations, OutAdaptors, R
  <1> QED
    BY <1>4, <1>5, FS_Subset

LEMMA DistinctAmong ==
  ASSUME NEW n \in Nat, NEW s, \A j, k \in 1 .. n : s[j] = s[k] => j = k
  PROVE  IsFiniteSet(Among(n, s)) /\ Cardinality(Among(n, s)) = n
  BY DistinctItems DEF Among

LEMMA CountedFewer ==
  ASSUME Types, Single, Accounts, NEW a \in Destinations, outPc[a] = "count"
  PROVE  SumFunction(toDest) < Len(sent)
  <1> DEFINE Items(b) == Among(Counted(b), written[b])
             parts == [b \in Destinations |-> Items(b)]
             last  == written[a][Len(written[a])]
             all   == Among(Len(sent), sent)
             W     == all \ {last}
  <1>1. ASSUME NEW b \in Destinations
        PROVE  /\ File(b) \in Names /\ content[File(b)] = written[b]
               /\ Len(written[b]) \in Nat /\ Counted(b) \in Nat
               /\ Counted(b) <= Len(written[b]) /\ toDest[b] = Counted(b)
               /\ 1 .. Counted(b) \subseteq 1 .. Len(content[File(b)])
    <2>1. File(b) \in Names /\ content[File(b)] = written[b]
      BY NamesAre, ContentPartsLemma DEF ContentParts
    <2>2. Len(written[b]) \in Nat
      BY DEF Types
    <2>3. Counted(b) \in Nat /\ Counted(b) <= Len(written[b]) /\ toDest[b] = Counted(b)
      BY <2>2 DEF Accounts, Account, Counted
    <2> QED
      BY <2>1, <2>2, <2>3
  <1>2. Counted(a) = Len(written[a]) - 1 /\ Len(written[a]) # 0
    BY DEF Accounts, Account, Counted, Accounting
  <1>3. ASSUME NEW b \in Destinations, NEW c \in Destinations,
               NEW j \in 1 .. Len(written[b]), NEW k \in 1 .. Len(written[c]),
               written[b][j] = written[c][k]
        PROVE  b = c /\ j = k
    <2>1. /\ File(b) \in Names /\ File(c) \in Names
          /\ j \in 1 .. Len(content[File(b)]) /\ k \in 1 .. Len(content[File(c)])
          /\ content[File(b)][j] = content[File(c)][k] /\ Single
      BY <1>1, <1>3
    <2>2. File(b) = File(c) /\ j = k
      BY ONLY <2>1, OnePlaceAt
    <2> QED
      BY <2>2, NamesDiffer
  <1>4. ASSUME NEW b \in Destinations, NEW j \in 1 .. Len(written[b])
        PROVE  written[b][j] \in all
    <2>1. PICK k \in 1 .. Len(sent) : sent[k] = content[File(b)][j]
      BY <1>1, <1>4 DEF Single, OnlySent
    <2> QED
      BY <1>1, <2>1 DEF Among
  <1>5. Len(written[a]) \in 1 .. Len(written[a]) /\ last \in all
    <2>1. Len(written[a]) \in 1 .. Len(written[a])
      BY <1>1, <1>2
    <2> QED
      BY <1>4, <2>1
  <1>6. ASSUME NEW b \in Destinations
        PROVE  Items(b) \subseteq W
    <2> SUFFICES ASSUME NEW k \in 1 .. Counted(b)
                 PROVE  written[b][k] \in all /\ written[b][k] # last
      BY DEF Among
    <2>1. k \in 1 .. Len(written[b]) /\ Counted(b) <= Len(written[b])
      BY <1>1
    <2>2. written[b][k] \in all
      BY <1>4, <2>1
    <2>3. ASSUME written[b][k] = last
          PROVE  FALSE
      <3>1. b = a /\ k = Len(written[a])
        BY <1>3, <1>5, <2>1, <2>3
      <3>2. k <= Counted(a) /\ Len(written[a]) \in Nat
        BY <1>1, <3>1
      <3> QED
        BY <1>2, <3>1, <3>2
    <2> QED
      BY <2>2, <2>3
  <1>7. ASSUME NEW b \in Destinations
        PROVE  Cardinality(Items(b)) = toDest[b]
    <2>1. \A j, k \in 1 .. Counted(b) : written[b][j] = written[b][k] => j = k
      BY <1>1, <1>3
    <2> QED
      BY <1>1, <2>1, DistinctAmong
  <1>8. ASSUME NEW b \in Destinations, NEW c \in Destinations, b # c
        PROVE  Items(b) \cap Items(c) = {}
    BY <1>1, <1>3, <1>8 DEF Among
  <1>9. IsFiniteSet(all) /\ Cardinality(all) = Len(sent) /\ Len(sent) \in Nat
    <2>1. Len(sent) \in Nat /\ \A j, k \in 1 .. Len(sent) : sent[j] = sent[k] => j = k
      BY DEF Types, Single, NoneSentTwice
    <2> QED
      BY <2>1, DistinctAmong
  <1> HIDE DEF Items, all, last
  <1>10. IsFiniteSet(W) /\ Cardinality(W) = Len(sent) - 1
    BY <1>5, <1>9, FS_RemoveElement
  <1>11. /\ \A b \in Destinations : parts[b] \subseteq W /\ Cardinality(parts[b]) = toDest[b]
         /\ \A b, c \in Destinations : b # c => parts[b] \cap parts[c] = {}
    BY <1>6, <1>7, <1>8
  <1> HIDE DEF W, parts
  <1>12. SumFunctionOnSet(toDest, Destinations) <= Cardinality(W)
    BY <1>10, <1>11, DestinationsFinite, SumOfParts
  <1>13. SumFunction(toDest) = SumFunctionOnSet(toDest, Destinations)
    BY DEF SumFunction, Accounts, AccountTypes
  <1>14. SumFunctionOnSet(toDest, Destinations) \in Int
    BY DestinationsFinite, SumInt DEF Accounts, AccountTypes
  <1> QED
    BY <1>9, <1>10, <1>12, <1>13, <1>14

LEMMA DeliveryInit == Init => Delivery!Init
  <1> SUFFICES ASSUME Init PROVE Delivery!Init
    OBVIOUS
  <1>1. Len(<< >>) = 0
    OBVIOUS
  <1>2. Stopping = FALSE
    BY DEF Init, Stopping
  <1> QED
    BY <1>1, <1>2 DEF Init, Delivery!Init

LEMMA DeliverySum == Delivery!SumFunction(toDest) = SumFunction(toDest)
  <1> DEFINE D == DOMAIN toDest
  <1>1. Delivery!SumFunctionOnSet(toDest, D) = (CHOOSE g : Sums(toDest, D, g))[D]
    BY DEF Delivery!SumFunctionOnSet, Delivery!FoldFunctionOnSet,
           Delivery!MapThenFoldSet, Sums, First
  <1> QED
    BY <1>1, SumIsFold DEF Delivery!SumFunction, SumFunction

LEMMA DeliveryNext ==
  Inv /\ [Next]_vars => [Delivery!Next]_(Delivery!vars)
  <1> SUFFICES ASSUME Inv, [Next]_vars
               PROVE  Delivery!Next \/ Delivery!vars' = Delivery!vars
    OBVIOUS
  <1> USE DEF Inv
  <1>1. ASSUME doTerminate' = doTerminate
        PROVE  Stopping' = Stopping
    BY <1>1 DEF Stopping
  <1>2. ASSUME UNCHANGED << sent, toDest, doTerminate >>
        PROVE  Delivery!vars' = Delivery!vars
    BY <1>1, <1>2 DEF Delivery!vars
  <1>3. ASSUME NEW p \in Packets, Send(p)
        PROVE  Delivery!Next
    <2>1. Len(sent') = Len(sent) + 1 /\ toDest' = toDest
      BY <1>3, SendMoves, SentGrows DEF Send
    <2>2. Stopping' = Stopping
      BY <1>1, <1>3 DEF Send, stopVars
    <2> QED
      BY <2>1, <2>2 DEF Delivery!Next, Delivery!Send
  <1>4. ASSUME NEW a \in InAdaptors, InputStep(a)
        PROVE  UNCHANGED << sent, toDest, doTerminate >>
    BY <1>4 DEF InputStep, InputPop, InputFabric, stopVars
  <1>5. ASSUME NEW a \in OutAdaptors, OutputStep(a)
        PROVE  Delivery!Next \/ UNCHANGED << sent, toDest, doTerminate >>
    <2>1. CASE OutputCount(a)
      <3>1. a \in Destinations /\ outPc[a] = "count"
        BY <2>1 DEF OutputCount, Types, OutTypes
      <3>2. SumFunction(toDest) < Len(sent)
        BY <3>1, CountedFewer
      <3>3. toDest' = [toDest EXCEPT ![a] = @ + 1] /\ sent' = sent
        BY <2>1 DEF OutputCount, EndPacket
      <3>4. Stopping' = Stopping
        BY <1>1, <2>1 DEF OutputCount, EndPacket, stopVars
      <3>5. Delivery!Arrive(a)
        BY <3>2, <3>3, <3>4, DeliverySum DEF Delivery!Arrive
      <3> QED
        BY <3>1, <3>5 DEF Delivery!Next
    <2>2. CASE ~ OutputCount(a)
      BY <1>5, <2>2 DEF OutputStep, OutputSkip, OutputVisit, OutputPop,
           OutputService, OutputTransfer, OutputWrite, OutputEnd, FlowNumber,
           FlowTotal, FlowAdd, EndPacket, stopVars
    <2> QED
      BY <2>1, <2>2
  <1>6. ASSUME NEW a \in OutAdaptors, Terminate(a)
        PROVE  Delivery!Next
    <2>1. doTerminate'[a]
      BY <1>6 DEF Terminate, Flags
    <2>2. Stopping' = TRUE
      BY <2>1 DEF Stopping
    <2> QED
      BY <1>6, <2>2 DEF Terminate, Delivery!Next, Delivery!Stop
  <1>7. ASSUME NEW a \in Destinations, Close(a)
        PROVE  UNCHANGED << sent, toDest, doTerminate >>
    BY <1>7 DEF Close
  <1>8. CASE UNCHANGED vars
    BY <1>2, <1>8 DEF vars, stopVars
  <1> QED
    BY <1>2, <1>3, <1>4, <1>5, <1>6, <1>7, <1>8 DEF Next

(***************************************************************************)
(* The safety part of DeliverySpec: the core network takes the steps that  *)
(* Network allows Deliver, and no others, whatever the tables send where.  *)
(***************************************************************************)
DeliverySafety == Delivery!Init /\ [][Delivery!Next]_(Delivery!vars)

THEOREM DeliversOnlyWhatWasSent == Spec => DeliverySafety
  BY DeliveryInit, DeliveryNext, Invariance, PTL DEF Spec, DeliverySafety

-----------------------------------------------------------------------------
(***************************************************************************)
(* The places on the path of a class, in their order, each with its rank.  *)
(* A hop takes a packet to the next.                                       *)
(***************************************************************************)
L(c)          == Len(Path[c])
OutOf(c, k)   == Port(Path[c][k][1], c)
QueueOf(c, k) == QNum[Path[c][k][1]][c]

IsAt(c, x, r) ==
  \E k \in 1 .. L(c) :
    \/ x = Inp(Path[c][k]) /\ r = 4 * k + 1
    \/ x = InpHand(Path[c][k]) /\ r = 4 * k + 2
    \/ x = Out(OutOf(c, k), QueueOf(c, k)) /\ r = 4 * k + 3
    \/ x = OutHand(OutOf(c, k)) /\ r = 4 * k + 4
    \/ x = File(OutOf(c, k)) /\ r = 4 * k + 5 /\ k = L(c)

LEMMA PathIs ==
  ASSUME NEW c \in Classes
  PROVE  /\ L(c) \in Nat \ {0}
         /\ DOMAIN Path[c] = 1 .. L(c)
         /\ \A k \in 1 .. L(c) : Path[c][k] \in InAdaptors
         /\ Path[c][1] = Entry[c]
         /\ \A k \in 1 .. (L(c) - 1) :
              OutOf(c, k) \in DOMAIN links /\ Path[c][k + 1] = links[OutOf(c, k)]
         /\ OutOf(c, L(c)) \in Destinations
         /\ Destination[c] = OutOf(c, L(c))
         /\ \A k \in 1 .. L(c) : OutOf(c, k) \in OutAdaptors
  <1> DEFINE s == Path[c]
  <1>1. s \in Paths(c)
    BY RoutesAssumption DEF Path
  <1>2. PICK n \in 1 .. Cardinality(Routers) : s \in [1 .. n -> InAdaptors]
    BY <1>1 DEF Paths
  <1>3. Cardinality(Routers) \in Nat
    BY RoutersAssumption, FS_CardinalityType
  <1>4. n \in Nat \ {0}
    BY <1>2, <1>3
  <1>5. s \in Seq(InAdaptors) /\ Len(s) = n
    BY <1>2, <1>4
  <1>6. IsPath(s, c)
    BY <1>1 DEF Paths
  <1>7. Last(s) = s[n]
    BY <1>5 DEF Last
  <1>8. L(c) = n
    BY <1>5 DEF L
  <1> HIDE DEF s
  <1>9. /\ s[1] = Entry[c]
        /\ \A k \in 1 .. (n - 1) : /\ Port(s[k][1], c) \in DOMAIN links
                                   /\ s[k + 1] = links[Port(s[k][1], c)]
        /\ Port(s[n][1], c) \in Destinations
    BY <1>5, <1>6, <1>7 DEF IsPath
  <1>10. \A k \in 1 .. n : Port(s[k][1], c) \in OutAdaptors
    <2> SUFFICES ASSUME NEW k \in 1 .. n PROVE Port(s[k][1], c) \in OutAdaptors
      OBVIOUS
    <2>1. CASE k = n
      BY <1>9, <2>1 DEF Destinations
    <2>2. CASE k # n
      <3>1. k \in 1 .. (n - 1)
        BY <1>4, <2>2
      <3> QED
        BY <1>9, <3>1, LinksAssumption
    <2> QED
      BY <2>1, <2>2
  <1>11. Destination[c] = Port(s[n][1], c)
    BY <1>7 DEF Destination, s
  <1>12. DOMAIN s = 1 .. n /\ \A k \in 1 .. n : s[k] \in InAdaptors
    BY <1>2
  <1> QED
    BY <1>4, <1>8, <1>9, <1>10, <1>11, <1>12 DEF OutOf, s

LEMMA PathQueues ==
  ASSUME QueuesOffered, NEW c \in Classes, NEW k \in 1 .. L(c)
  PROVE  QueueOf(c, k) \in Queues(OutOf(c, k))
  <1>1. k \in DOMAIN Path[c]
    BY PathIs
  <1> QED
    BY <1>1 DEF QueuesOffered, QueueOf, OutOf

(***************************************************************************)
(* A path comes to no port twice: from there it would go round for ever.   *)
(***************************************************************************)
LEMMA PortsDiffer ==
  ASSUME NEW c \in Classes, NEW j \in 1 .. L(c), NEW k \in 1 .. L(c),
         OutOf(c, j) = OutOf(c, k)
  PROVE  j = k
  <1> DEFINE n == L(c)
             T == {m \in Nat : \E u, v \in 1 .. n :
                     /\ u < v
                     /\ OutOf(c, u) = OutOf(c, v)
                     /\ m = n - v}
  <1>1. n \in Nat \ {0}
    BY PathIs
  <1>2. ASSUME NEW m \in T, \A l \in T : m <= l
        PROVE  FALSE
    <2>1. PICK u \in 1 .. n : \E v \in 1 .. n :
            u < v /\ OutOf(c, u) = OutOf(c, v) /\ m = n - v
      OBVIOUS
    <2>2. PICK v \in 1 .. n :
            u < v /\ OutOf(c, u) = OutOf(c, v) /\ m = n - v
      BY <2>1
    <2> HIDE DEF n, T
    <2>3. u \in 1 .. (n - 1) /\ u + 1 \in 1 .. n
      BY <1>1, <2>2
    <2>4. OutOf(c, u) \in DOMAIN links /\ Path[c][u + 1] = links[OutOf(c, u)]
      BY <2>3, PathIs DEF n
    <2>5. CASE v = n
      <3>1. OutOf(c, v) \in Destinations
        BY <2>5, PathIs DEF n
      <3> QED
        BY <2>2, <2>4, <3>1 DEF Destinations
    <2>6. CASE v # n
      <3>1. v \in 1 .. (n - 1) /\ v + 1 \in 1 .. n /\ u + 1 < v + 1
        BY <1>1, <2>2, <2>6
      <3>2. Path[c][v + 1] = links[OutOf(c, v)]
        BY <3>1, PathIs DEF n
      <3>3. OutOf(c, u + 1) = OutOf(c, v + 1)
        BY <2>2, <2>4, <3>2 DEF OutOf
      <3>4. n - (v + 1) \in Nat /\ ~ (m <= n - (v + 1))
        BY <1>1, <2>2, <3>1
      <3>5. n - (v + 1) \in T
        BY <2>3, <3>1, <3>3, <3>4 DEF T
      <3> QED
        BY <1>2, <3>4, <3>5
    <2> QED
      BY <2>5, <2>6
  <1>3. T = {}
    <2>1. T \subseteq Nat
      OBVIOUS
    <2> HIDE DEF T
    <2> QED
      BY <1>2, <2>1, LeastNatural
  <1>4. \A u, v \in 1 .. n : u < v => OutOf(c, u) # OutOf(c, v)
    <2> SUFFICES ASSUME NEW u \in 1 .. n, NEW v \in 1 .. n, u < v,
                        OutOf(c, u) = OutOf(c, v)
                 PROVE  FALSE
      OBVIOUS
    <2>1. n - v \in Nat
      BY <1>1
    <2>2. n - v \in T
      BY <2>1
    <2> QED
      BY <1>3, <2>2
  <1> HIDE DEF n, T
  <1>5. j \in 1 .. n /\ k \in 1 .. n
    BY DEF n
  <1> QED
    BY <1>1, <1>4, <1>5

LEMMA RankIsOne ==
  ASSUME NEW c \in Classes, NEW x, NEW r, NEW t, IsAt(c, x, r), IsAt(c, x, t)
  PROVE  r = t
  <1>1. \A a, b : Path[c][a] = Path[c][b] => OutOf(c, a) = OutOf(c, b)
    BY DEF OutOf
  <1>2. PICK k \in 1 .. L(c) :
          \/ x = Inp(Path[c][k]) /\ r = 4 * k + 1
          \/ x = InpHand(Path[c][k]) /\ r = 4 * k + 2
          \/ x = Out(OutOf(c, k), QueueOf(c, k)) /\ r = 4 * k + 3
          \/ x = OutHand(OutOf(c, k)) /\ r = 4 * k + 4
          \/ x = File(OutOf(c, k)) /\ r = 4 * k + 5 /\ k = L(c)
    BY DEF IsAt
  <1>3. PICK m \in 1 .. L(c) :
          \/ x = Inp(Path[c][m]) /\ t = 4 * m + 1
          \/ x = InpHand(Path[c][m]) /\ t = 4 * m + 2
          \/ x = Out(OutOf(c, m), QueueOf(c, m)) /\ t = 4 * m + 3
          \/ x = OutHand(OutOf(c, m)) /\ t = 4 * m + 4
          \/ x = File(OutOf(c, m)) /\ t = 4 * m + 5 /\ m = L(c)
    BY DEF IsAt
  <1>4. OutOf(c, k) = OutOf(c, m) => k = m
    BY PortsDiffer
  <1> QED
    BY ONLY <1>1, <1>2, <1>3, <1>4, NamesDiffer

LEMMA PlaceIsOne ==
  ASSUME NEW c \in Classes, NEW x, NEW y, NEW r, IsAt(c, x, r), IsAt(c, y, r)
  PROVE  x = y
  <1>1. PICK k \in 1 .. L(c) :
          \/ x = Inp(Path[c][k]) /\ r = 4 * k + 1
          \/ x = InpHand(Path[c][k]) /\ r = 4 * k + 2
          \/ x = Out(OutOf(c, k), QueueOf(c, k)) /\ r = 4 * k + 3
          \/ x = OutHand(OutOf(c, k)) /\ r = 4 * k + 4
          \/ x = File(OutOf(c, k)) /\ r = 4 * k + 5 /\ k = L(c)
    BY DEF IsAt
  <1>2. PICK m \in 1 .. L(c) :
          \/ y = Inp(Path[c][m]) /\ r = 4 * m + 1
          \/ y = InpHand(Path[c][m]) /\ r = 4 * m + 2
          \/ y = Out(OutOf(c, m), QueueOf(c, m)) /\ r = 4 * m + 3
          \/ y = OutHand(OutOf(c, m)) /\ r = 4 * m + 4
          \/ y = File(OutOf(c, m)) /\ r = 4 * m + 5 /\ m = L(c)
    BY DEF IsAt
  <1>3. L(c) \in Nat /\ k \in 1 .. L(c) /\ m \in 1 .. L(c)
    BY PathIs
  <1>4. k = m
    BY ONLY <1>1, <1>2, <1>3
  <1> QED
    BY <1>1, <1>2, <1>3, <1>4

LEMMA RankBounds ==
  ASSUME NEW c \in Classes, NEW x, NEW r, IsAt(c, x, r)
  PROVE  r \in Nat /\ r >= 5
  <1>1. L(c) \in Nat
    BY PathIs
  <1> QED
    BY <1>1 DEF IsAt

LEMMA EntryRank ==
  ASSUME NEW c \in Classes
  PROVE  IsAt(c, Inp(Entry[c]), 5)
  <1>1. 1 \in 1 .. L(c) /\ Path[c][1] = Entry[c] /\ 5 = 4 * 1 + 1
    BY PathIs
  <1> QED
    BY <1>1 DEF IsAt

LEMMA HopRank ==
  ASSUME NEW c \in Classes, NEW x, NEW y, NEW r, IsAt(c, x, r), Hop(x, y, c)
  PROVE  IsAt(c, y, r + 1)
  <1>1. L(c) \in Nat \ {0}
    BY PathIs
  <1>2. ASSUME NEW k \in 1 .. L(c), x = Inp(Path[c][k]), r = 4 * k + 1
        PROVE  IsAt(c, y, r + 1)
    <2>1. y = InpHand(Path[c][k])
      BY <1>2, NamesDiffer DEF Hop
    <2>2. r + 1 = 4 * k + 2
      BY <1>1, <1>2
    <2> QED
      BY <2>1, <2>2 DEF IsAt
  <1>3. ASSUME NEW k \in 1 .. L(c), x = InpHand(Path[c][k]), r = 4 * k + 2
        PROVE  IsAt(c, y, r + 1)
    <2>1. y = Out(OutOf(c, k), QueueOf(c, k))
      BY <1>3, NamesDiffer DEF Hop, OutOf, QueueOf
    <2>2. r + 1 = 4 * k + 3
      BY <1>1, <1>3
    <2> QED
      BY <2>1, <2>2 DEF IsAt
  <1>4. ASSUME NEW k \in 1 .. L(c), x = Out(OutOf(c, k), QueueOf(c, k)),
               r = 4 * k + 3
        PROVE  IsAt(c, y, r + 1)
    <2>1. y = OutHand(OutOf(c, k))
      BY <1>4, NamesDiffer DEF Hop
    <2>2. r + 1 = 4 * k + 4
      BY <1>1, <1>4
    <2> QED
      BY <2>1, <2>2 DEF IsAt
  <1>5. ASSUME NEW k \in 1 .. L(c), x = OutHand(OutOf(c, k)), r = 4 * k + 4
        PROVE  IsAt(c, y, r + 1)
    <2>1. CASE k = L(c)
      <3>1. OutOf(c, k) \in Destinations
        BY <2>1, PathIs
      <3>2. y = File(OutOf(c, k))
        BY <1>5, <3>1, NamesDiffer DEF Hop, Destinations
      <3>3. r + 1 = 4 * k + 5
        BY <1>1, <1>5
      <3> QED
        BY <2>1, <3>2, <3>3 DEF IsAt
    <2>2. CASE k # L(c)
      <3>1. k \in 1 .. (L(c) - 1) /\ k + 1 \in 1 .. L(c)
        BY <1>1, <2>2
      <3>2. OutOf(c, k) \in DOMAIN links /\ Path[c][k + 1] = links[OutOf(c, k)]
        BY <3>1, PathIs
      <3>3. y = Inp(Path[c][k + 1])
        BY <1>5, <3>2, NamesDiffer DEF Hop, Destinations
      <3>4. r + 1 = 4 * (k + 1) + 1
        BY <1>1, <1>5
      <3> QED
        BY <3>1, <3>3, <3>4 DEF IsAt
    <2> QED
      BY <2>1, <2>2
  <1>6. ASSUME NEW k \in 1 .. L(c), x = File(OutOf(c, k))
        PROVE  FALSE
    BY <1>6, NamesDiffer DEF Hop
  <1> QED
    BY <1>2, <1>3, <1>4, <1>5, <1>6 DEF IsAt

LEMMA HandOnPath ==
  ASSUME QueuesOffered, NEW c \in Classes, NEW a, NEW r, IsAt(c, InpHand(a), r)
  PROVE  /\ QNum[a[1]][c] \in Queues(Port(a[1], c))
         /\ Out(Port(a[1], c), QNum[a[1]][c]) \in Names
  <1>1. PICK k \in 1 .. L(c) : a = Path[c][k]
    BY NamesDiffer DEF IsAt
  <1>2. QueueOf(c, k) \in Queues(OutOf(c, k)) /\ OutOf(c, k) \in OutAdaptors
    BY PathQueues, PathIs
  <1>3. QNum[a[1]][c] = QueueOf(c, k) /\ Port(a[1], c) = OutOf(c, k)
    BY <1>1 DEF QueueOf, OutOf
  <1> QED
    BY <1>2, <1>3, NamesAre

-----------------------------------------------------------------------------
(***************************************************************************)
(* Every packet is at a place of its path, those that are ahead were sent  *)
(* before, and none is lost.                                               *)
(***************************************************************************)
Rank(c, x) == CHOOSE r \in Nat : IsAt(c, x, r)

Ahead(c, x, j, y, k) == Rank(c, x) > Rank(c, y) \/ (x = y /\ j < k)

Earlier(s, p, r) ==
  \E k \in DOMAIN s : \E j \in 1 .. (k - 1) : s[j] = p /\ s[k] = r

OnPath ==
  \A x \in Names : \A j \in 1 .. Len(content[x]) :
    \E r \in Nat : IsAt(ClassOf[content[x][j]], x, r)

Sorted ==
  \A x, y \in Names :
    \A j \in 1 .. Len(content[x]), k \in 1 .. Len(content[y]) :
      (/\ ClassOf[content[x][j]] = ClassOf[content[y][k]]
       /\ Ahead(ClassOf[content[y][k]], x, j, y, k))
        => Earlier(sent, content[x][j], content[y][k])

Kept ==
  \A m \in 1 .. Len(sent) :
    \E x \in Names : \E j \in 1 .. Len(content[x]) : content[x][j] = sent[m]

Ordered == OnPath /\ Sorted /\ Kept

LEMMA RankOf ==
  ASSUME NEW c \in Classes, NEW x, NEW r, IsAt(c, x, r)
  PROVE  r \in Nat /\ r >= 5 /\ Rank(c, x) = r
  <1>1. r \in Nat /\ r >= 5
    BY RankBounds
  <1>2. IsAt(c, x, Rank(c, x))
    BY <1>1 DEF Rank
  <1> QED
    BY <1>1, <1>2, RankIsOne

LEMMA ItemTypes ==
  ASSUME Types, NEW x \in Names, NEW j \in 1 .. Len(content[x])
  PROVE  /\ content[x] \in Seq(Packets) /\ Len(content[x]) \in Nat
         /\ content[x][j] \in Packets
         /\ ClassOf[content[x][j]] \in Classes
  <1>1. content[x] \in Seq(Packets)
    BY ContentTypesLemma DEF ContentTypes
  <1>2. content[x][j] \in Packets
    BY <1>1
  <1> QED
    BY <1>1, <1>2, EntriesLead

(***************************************************************************)
(* The rank of an item, and that no two places on a path have the same.    *)
(***************************************************************************)
LEMMA ItemRank ==
  ASSUME Types, OnPath, NEW x \in Names, NEW j \in 1 .. Len(content[x]),
         NEW c, c = ClassOf[content[x][j]]
  PROVE  /\ c \in Classes
         /\ IsAt(c, x, Rank(c, x))
         /\ Rank(c, x) \in Nat /\ Rank(c, x) >= 5
         /\ \A y : IsAt(c, y, Rank(c, x)) => x = y
  <1>1. c \in Classes
    BY ItemTypes
  <1>2. PICK r \in Nat : IsAt(c, x, r)
    BY DEF OnPath
  <1>3. Rank(c, x) = r /\ r >= 5
    BY <1>1, <1>2, RankOf
  <1>4. \A y : IsAt(c, y, r) => x = y
    BY <1>1, <1>2, PlaceIsOne
  <1> QED
    BY <1>1, <1>2, <1>3, <1>4

LEMMA OrderedInit == Init => Ordered
  <1> SUFFICES ASSUME Init PROVE Ordered
    OBVIOUS
  <1>1. \A x \in Names : content[x] = << >>
    BY EmptyAtFirst
  <1>2. Len(<< >>) = 0 /\ 1 .. 0 = {} /\ sent = << >>
    BY DEF Init
  <1> QED
    BY <1>1, <1>2 DEF Ordered, OnPath, Sorted, Kept

LEMMA NoneLost ==
  ASSUME Types, OnPath, QueuesOffered, NEW x \in Names
  PROVE  ~ Loses(x)
  <1> SUFFICES ASSUME Loses(x) PROVE FALSE
    OBVIOUS
  <1> DEFINE c == ClassOf[Head(content[x])]
  <1>1. PICK a \in InAdaptors :
          x = InpHand(a) /\ Out(Port(a[1], c), QNum[a[1]][c]) \notin Names
    BY DEF Loses
  <1>2. content[x] \in Seq(Packets) /\ content[x] # << >>
    BY ContentTypesLemma DEF ContentTypes, Loses, Taken
  <1>3. Head(content[x]) = content[x][1] /\ 1 \in 1 .. Len(content[x])
    BY <1>2, TailAt
  <1>4. c \in Classes /\ IsAt(c, x, Rank(c, x))
    BY <1>3, ItemRank
  <1> HIDE DEF c
  <1> QED
    BY <1>1, <1>4, HandOnPath

(***************************************************************************)
(* A packet that moves goes one rank further.                              *)
(***************************************************************************)
LEMMA MoveRank ==
  ASSUME Types, OnPath, NEW x \in Names, NEW y \in Names, Moves(x, y),
         NEW c, c = ClassOf[Head(content[x])]
  PROVE  /\ content[x] \in Seq(Packets) /\ Len(content[x]) \in Nat
         /\ Head(content[x]) = content[x][1] /\ 1 \in 1 .. Len(content[x])
         /\ c \in Classes
         /\ IsAt(c, x, Rank(c, x)) /\ IsAt(c, y, Rank(c, y))
         /\ Rank(c, x) \in Nat
         /\ Rank(c, y) = Rank(c, x) + 1
         /\ \A z : IsAt(c, z, Rank(c, x)) => z = x
         /\ \A z : IsAt(c, z, Rank(c, y)) => z = y
  <1>1. /\ content[x] \in Seq(Packets) /\ content[x] # << >>
        /\ Hop(x, y, c)
    BY ContentTypesLemma DEF ContentTypes, Moves, Taken
  <1>2. Head(content[x]) = content[x][1] /\ 1 \in 1 .. Len(content[x])
    BY <1>1, TailAt
  <1>3. /\ c \in Classes /\ IsAt(c, x, Rank(c, x)) /\ Rank(c, x) \in Nat
        /\ \A z : IsAt(c, z, Rank(c, x)) => z = x
    BY <1>2, ItemRank
  <1>4. IsAt(c, y, Rank(c, x) + 1)
    BY <1>1, <1>3, HopRank
  <1>5. Rank(c, y) = Rank(c, x) + 1
    BY <1>3, <1>4, RankOf
  <1>6. \A z : IsAt(c, z, Rank(c, x) + 1) => z = y
    BY <1>3, <1>4, PlaceIsOne
  <1> QED
    BY <1>1, <1>2, <1>3, <1>4, <1>5, <1>6

LEMMA OnPathMoves ==
  ASSUME Types, OnPath, NEW x \in Names, NEW y \in Names, Moves(x, y)
  PROVE  OnPath'
  <1> SUFFICES ASSUME NEW z \in Names, NEW j \in 1 .. Len(content'[z])
               PROVE  \E r \in Nat : IsAt(ClassOf[content'[z][j]], z, r)
    BY DEF OnPath
  <1>1. ContentTypes
    BY ContentTypesLemma
  <1>2. CASE Came(y, z, j)
    <2>1. z = y /\ content'[z][j] = Head(content[x])
      BY <1>1, <1>2, MoveOrigin DEF Came
    <2> QED
      BY <2>1, MoveRank
  <1>3. CASE ~ Came(y, z, j)
    <2>1. /\ OldName(x, y, z, j) = z
          /\ OldIndex(x, y, z, j) \in 1 .. Len(content[z])
          /\ content'[z][j] = content[z][OldIndex(x, y, z, j)]
      BY <1>1, <1>3, MoveOrigin DEF OldName
    <2> QED
      BY <2>1 DEF OnPath
  <1> QED
    BY <1>2, <1>3

(***************************************************************************)
(* What is ahead after a move was ahead before.                            *)
(***************************************************************************)
LEMMA AheadBefore ==
  ASSUME Types, OnPath, NEW x \in Names, NEW y \in Names, Moves(x, y),
         NEW z \in Names, NEW w \in Names,
         NEW j \in 1 .. Len(content'[z]), NEW k \in 1 .. Len(content'[w]),
         NEW c, c = ClassOf[content'[z][j]], c = ClassOf[content'[w][k]],
         Ahead(c, z, j, w, k)
  PROVE  Ahead(c, OldName(x, y, z, j), OldIndex(x, y, z, j),
                  OldName(x, y, w, k), OldIndex(x, y, w, k))
  <1>1. ContentTypes /\ x # y
    BY ContentTypesLemma DEF Moves
  <1>2. /\ Came(y, z, j) => c = ClassOf[Head(content[x])]
        /\ Came(y, w, k) => c = ClassOf[Head(content[x])]
    <2>1. Came(y, z, j) => content'[z][j] = Head(content[x])
      BY <1>1, MoveOrigin
    <2>2. Came(y, w, k) => content'[w][k] = Head(content[x])
      BY <1>1, MoveOrigin
    <2>3. c = ClassOf[content'[z][j]] /\ c = ClassOf[content'[w][k]]
      OBVIOUS
    <2> QED
      BY ONLY <2>1, <2>2, <2>3
  <1>3. ASSUME NEW u \in Names, NEW l \in 1 .. Len(content'[u]),
               c = ClassOf[content'[u][l]], ~ Came(y, u, l)
        PROVE  /\ OldName(x, y, u, l) = u
               /\ OldIndex(x, y, u, l) = IF u = x THEN l + 1 ELSE l
               /\ OldIndex(x, y, u, l) \in 1 .. Len(content[u])
               /\ c \in Classes /\ IsAt(c, u, Rank(c, u)) /\ Rank(c, u) \in Nat
               /\ u = y => l <= Len(content[y])
    <2>1. /\ OldName(x, y, u, l) = u
          /\ OldIndex(x, y, u, l) = IF u = x THEN l + 1 ELSE l
          /\ OldIndex(x, y, u, l) \in 1 .. Len(content[u])
          /\ content'[u][l] = content[u][OldIndex(x, y, u, l)]
      BY <1>1, <1>3, MoveOrigin DEF OldName, OldIndex
    <2>2. c \in Classes /\ IsAt(c, u, Rank(c, u)) /\ Rank(c, u) \in Nat
      BY <1>3, <2>1, ItemRank
    <2> QED
      BY <1>1, <2>1, <2>2
  <1>4. CASE ~ Came(y, z, j) /\ ~ Came(y, w, k)
    <2>1. /\ OldName(x, y, z, j) = z /\ OldName(x, y, w, k) = w
          /\ OldIndex(x, y, z, j) = IF z = x THEN j + 1 ELSE j
          /\ OldIndex(x, y, w, k) = IF w = x THEN k + 1 ELSE k
      BY <1>3, <1>4
    <2>2. j \in Nat /\ k \in Nat
      BY <1>1, MoveOrigin
    <2> QED
      BY <2>1, <2>2 DEF Ahead
  <1>5. CASE Came(y, z, j) \/ Came(y, w, k)
    <2>1. /\ IsAt(c, x, Rank(c, x)) /\ Rank(c, x) \in Nat
          /\ Rank(c, y) = Rank(c, x) + 1
          /\ \A v : IsAt(c, v, Rank(c, x)) => v = x
          /\ \A v : IsAt(c, v, Rank(c, y)) => v = y
      BY <1>2, <1>5, MoveRank
    <2>2. Len(content[y]) \in Nat
      BY <1>1 DEF ContentTypes
    <2>3. CASE Came(y, z, j) /\ Came(y, w, k)
      <3>1. z = w /\ j = k
        BY <2>3 DEF Came
      <3>2. ~ (Rank(c, y) > Rank(c, y)) /\ ~ (j < j)
        BY <2>1, <2>2, <2>3 DEF Came
      <3> QED
        BY <2>3, <3>1, <3>2 DEF Ahead, Came
    <2>4. CASE Came(y, z, j) /\ ~ Came(y, w, k)
      <3>1. /\ z = y /\ j = Len(content[y]) + 1
            /\ OldName(x, y, z, j) = x /\ OldIndex(x, y, z, j) = 1
        BY <2>4 DEF Came, OldName, OldIndex
      <3>2. /\ OldName(x, y, w, k) = w
            /\ OldIndex(x, y, w, k) = IF w = x THEN k + 1 ELSE k
            /\ IsAt(c, w, Rank(c, w)) /\ Rank(c, w) \in Nat
            /\ w = y => k <= Len(content[y])
        BY <1>3, <2>4
      <3>3. k \in Nat /\ k >= 1
        BY <3>2, <1>1
      <3>4. Rank(c, y) > Rank(c, w)
        BY <2>2, <3>1, <3>2, <3>3 DEF Ahead
      <3>5. CASE Rank(c, w) = Rank(c, x)
        <4>1. w = x
          BY <2>1, <3>2, <3>5
        <4> QED
          BY <3>1, <3>2, <3>3, <4>1 DEF Ahead
      <3>6. CASE Rank(c, w) # Rank(c, x)
        <4>1. Rank(c, x) > Rank(c, w)
          BY <2>1, <3>2, <3>4, <3>6
        <4> QED
          BY <3>1, <3>2, <4>1 DEF Ahead
      <3> QED
        BY <3>5, <3>6
    <2>5. CASE ~ Came(y, z, j) /\ Came(y, w, k)
      <3>1. /\ w = y /\ k = Len(content[y]) + 1
            /\ OldName(x, y, w, k) = x /\ OldIndex(x, y, w, k) = 1
        BY <2>5 DEF Came, OldName, OldIndex
      <3>2. /\ OldName(x, y, z, j) = z
            /\ IsAt(c, z, Rank(c, z)) /\ Rank(c, z) \in Nat
        BY <1>3, <2>5
      <3>3. Rank(c, z) > Rank(c, x)
        BY <2>1, <3>1, <3>2 DEF Ahead
      <3> QED
        BY <3>1, <3>2, <3>3 DEF Ahead
    <2> QED
      BY <1>5, <2>3, <2>4, <2>5
  <1> QED
    BY <1>4, <1>5

LEMMA SortedMoves ==
  ASSUME Types, OnPath, Sorted, NEW x \in Names, NEW y \in Names, Moves(x, y)
  PROVE  Sorted'
  <1> SUFFICES ASSUME NEW z \in Names, NEW w \in Names,
                      NEW j \in 1 .. Len(content'[z]),
                      NEW k \in 1 .. Len(content'[w]),
                      ClassOf[content'[z][j]] = ClassOf[content'[w][k]],
                      Ahead(ClassOf[content'[w][k]], z, j, w, k)
               PROVE  Earlier(sent', content'[z][j], content'[w][k])
    BY DEF Sorted
  <1> DEFINE u == OldName(x, y, z, j)
             l == OldIndex(x, y, z, j)
             v == OldName(x, y, w, k)
             m == OldIndex(x, y, w, k)
             c == ClassOf[content'[w][k]]
  <1>1. ContentTypes
    BY ContentTypesLemma
  <1>2. /\ u \in Names /\ l \in 1 .. Len(content[u])
        /\ content'[z][j] = content[u][l]
    BY <1>1, MoveOrigin
  <1>3. /\ v \in Names /\ m \in 1 .. Len(content[v])
        /\ content'[w][k] = content[v][m]
    BY <1>1, MoveOrigin
  <1>4. Ahead(c, u, l, v, m)
    BY AheadBefore
  <1>5. ClassOf[content[u][l]] = ClassOf[content[v][m]] /\ c = ClassOf[content[v][m]]
    BY <1>2, <1>3
  <1>6. sent' = sent
    BY DEF Moves, Taken
  <1> HIDE DEF u, l, v, m, c
  <1>7. Earlier(sent, content[u][l], content[v][m])
    BY <1>2, <1>3, <1>4, <1>5 DEF Sorted
  <1> QED
    BY <1>2, <1>3, <1>6, <1>7

(***************************************************************************)
(* Where an item goes in a move: the first of x to the end of y.           *)
(***************************************************************************)
LEMMA KeptMoves ==
  ASSUME Types, OnPath, Kept, NEW x \in Names, NEW y \in Names, Moves(x, y)
  PROVE  Kept'
  <1>1. sent' = sent /\ x # y
    BY DEF Moves, Taken
  <1> SUFFICES ASSUME NEW m \in 1 .. Len(sent)
               PROVE  \E z \in Names : \E j \in 1 .. Len(content'[z]) :
                        content'[z][j] = sent[m]
    BY <1>1 DEF Kept
  <1>2. PICK z \in Names : \E j \in 1 .. Len(content[z]) : content[z][j] = sent[m]
    BY DEF Kept
  <1>3. PICK j \in 1 .. Len(content[z]) : content[z][j] = sent[m]
    BY <1>2
  <1>4. /\ content[x] \in Seq(Packets) /\ content[x] # << >>
        /\ content'[x] = Tail(content[x])
        /\ content[y] \in Seq(Packets) /\ Head(content[x]) \in Packets
        /\ content'[y] = Append(content[y], Head(content[x]))
    <2>1. content[x] \in Seq(Packets) /\ content[y] \in Seq(Packets)
      BY ContentTypesLemma DEF ContentTypes
    <2>2. content[x] # << >>
      BY DEF Moves, Taken
    <2>3. Len(content[x]) # 0
      BY <2>1, <2>2, EmptySeq
    <2>4. Head(content[x]) \in Packets
      BY <2>1, <2>3, HeadOfOne
    <2> QED
      BY <2>1, <2>2, <2>4 DEF Moves, Taken
  <1>5. /\ Len(content'[y]) = Len(content[y]) + 1 /\ Len(content[y]) \in Nat
        /\ \A k \in 1 .. Len(content[y]) : content'[y][k] = content[y][k]
        /\ content'[y][Len(content[y]) + 1] = Head(content[x])
    BY <1>4, AppendProperties, LenProperties
  <1>6. CASE z = x
    <2>1. /\ Head(content[x]) = content[x][1] /\ Len(content[x]) \in Nat
          /\ Len(content'[x]) = Len(content[x]) - 1
          /\ \A k \in 1 .. Len(content'[x]) : content'[x][k] = content[x][k + 1]
      BY <1>4, HeadTailProperties
    <2>2. CASE j = 1
      <3>1. Len(content[y]) + 1 \in 1 .. Len(content'[y])
        BY <1>5
      <3>2. content'[y][Len(content[y]) + 1] = sent[m]
        BY <1>3, <1>5, <1>6, <2>1, <2>2
      <3> QED
        BY <3>1, <3>2
    <2>3. CASE j # 1
      <3>1. j - 1 \in 1 .. Len(content'[x]) /\ (j - 1) + 1 = j
        BY <1>6, <2>1, <2>3
      <3>2. content'[x][j - 1] = sent[m]
        BY <1>3, <1>6, <2>1, <3>1
      <3> QED
        BY <3>1, <3>2
    <2> QED
      BY <2>2, <2>3
  <1>7. CASE z = y
    <2>1. j \in 1 .. Len(content'[y]) /\ content'[y][j] = sent[m]
      BY <1>3, <1>5, <1>7
    <2> QED
      BY <2>1
  <1>8. CASE z # x /\ z # y
    <2>1. content'[z] = content[z]
      BY <1>8 DEF Moves, OthersKept
    <2> QED
      BY <1>3, <2>1
  <1> QED
    BY <1>6, <1>7, <1>8

LEMMA OnPathSends ==
  ASSUME Types, OnPath, NEW p \in Packets, Sends(p)
  PROVE  OnPath'
  <1> SUFFICES ASSUME NEW z \in Names, NEW j \in 1 .. Len(content'[z])
               PROVE  \E r \in Nat : IsAt(ClassOf[content'[z][j]], z, r)
    BY DEF OnPath
  <1>1. IsAt(ClassOf[p], EntryOf(p), 5) /\ 5 \in Nat
    BY EntriesLead, EntryRank DEF EntryOf
  <1>2. \/ j \in 1 .. Len(content[z]) /\ content'[z][j] = content[z][j]
        \/ z = EntryOf(p) /\ content'[z][j] = p
    BY ContentTypesLemma, SendOrigin
  <1>3. CASE j \in 1 .. Len(content[z]) /\ content'[z][j] = content[z][j]
    BY <1>3 DEF OnPath
  <1>4. CASE z = EntryOf(p) /\ content'[z][j] = p
    BY <1>1, <1>4
  <1> QED
    BY <1>2, <1>3, <1>4

(***************************************************************************)
(* A packet that is lost was on its path, and the others stay on theirs: no*)
(* condition on the queues is needed for this.                             *)
(***************************************************************************)
LEMMA OnPathNext ==
  ASSUME Types, OnPath, [Next]_vars
  PROVE  OnPath'
  <1>1. ASSUME NEW x \in Names, Loses(x)
        PROVE  OnPath'
    <2> SUFFICES ASSUME NEW z \in Names, NEW j \in 1 .. Len(content'[z])
                 PROVE  \E r \in Nat : IsAt(ClassOf[content'[z][j]], z, r)
      BY DEF OnPath
    <2> DEFINE n == IF z = x THEN j + 1 ELSE j
    <2>1. n \in 1 .. Len(content[z]) /\ content'[z][j] = content[z][n]
      BY <1>1, ContentTypesLemma, LossOrigin
    <2> HIDE DEF n
    <2> QED
      BY <2>1 DEF OnPath
  <1>2. CASE Rests
    BY <1>2 DEF Rests, OthersKept, OnPath
  <1> QED
    BY <1>1, <1>2, Steps, OnPathMoves, OnPathSends

LEMMA OnPathInvariance == Spec => [](Inv /\ OnPath)
  <1>1. Init => OnPath
    BY OrderedInit DEF Ordered
  <1>2. Inv /\ OnPath /\ [Next]_vars => OnPath'
    BY OnPathNext DEF Inv
  <1> QED
    BY <1>1, <1>2, Invariance, PTL DEF Spec

LEMMA OrderedSends ==
  ASSUME Types, OnlySent, Ordered, NEW p \in Packets, Sends(p)
  PROVE  Ordered'
  <1> DEFINE e == EntryOf(p)
             n == Len(content[e]) + 1
             d == ClassOf[p]
  <1>1. /\ Len(sent) \in Nat /\ Len(sent') = Len(sent) + 1
        /\ \A m \in 1 .. Len(sent) : sent'[m] = sent[m] /\ sent[m] # p
        /\ sent'[Len(sent) + 1] = p
    BY SentGrows
  <1>2. ContentTypes
    BY ContentTypesLemma
  <1>3. e \in Names /\ d \in Classes /\ IsAt(d, e, 5) /\ Rank(d, e) = 5
    <2>1. d \in Classes /\ Entry[d] \in InAdaptors
      BY EntriesLead
    <2>2. IsAt(d, e, 5)
      BY <2>1, EntryRank DEF EntryOf
    <2>3. Rank(d, e) = 5
      BY <2>1, <2>2, RankOf
    <2> QED
      BY <2>1, <2>2, <2>3, NamesAre DEF EntryOf
  <1>4. ASSUME NEW z \in Names, NEW j \in 1 .. Len(content'[z])
        PROVE  \/ j \in 1 .. Len(content[z]) /\ content'[z][j] = content[z][j]
               \/ z = e /\ j = n /\ content'[z][j] = p
    BY <1>2, SendOrigin
  <1>5. Len(content[e]) \in Nat
    BY <1>2, <1>3 DEF ContentTypes
  <1>6. /\ Len(content'[e]) = n /\ content'[e][n] = p /\ n \in 1 .. n
        /\ \A j \in 1 .. Len(content[e]) : content'[e][j] = content[e][j]
    <2>1. content'[e] = Append(content[e], p) /\ content[e] \in Seq(Packets)
      BY <1>2, <1>3 DEF Sends, ContentTypes
    <2> QED
      BY <1>5, <2>1, AppendProperties
  <1> HIDE DEF e, n, d
  <1>7. OnPath'
    BY OnPathSends DEF Ordered
  <1>8. ASSUME NEW q, NEW r, Earlier(sent, q, r)
        PROVE  Earlier(sent', q, r)
    <2>1. PICK j \in DOMAIN sent : \E m \in 1 .. (j - 1) : sent[m] = q /\ sent[j] = r
      BY <1>8 DEF Earlier
    <2>2. PICK m \in 1 .. (j - 1) : sent[m] = q /\ sent[j] = r
      BY <2>1
    <2>3. DOMAIN sent = 1 .. Len(sent) /\ DOMAIN sent' = 1 .. Len(sent')
      BY DEF Types, Sends
    <2>4. j \in DOMAIN sent' /\ sent'[j] = r /\ sent'[m] = q
      BY <1>1, <2>2, <2>3
    <2> QED
      BY <2>4 DEF Earlier
  <1>9. ASSUME NEW m \in 1 .. Len(sent)
        PROVE  Earlier(sent', sent[m], p)
    <2>1. DOMAIN sent' = 1 .. Len(sent')
      BY DEF Types, Sends
    <2>2. Len(sent) + 1 \in DOMAIN sent' /\ m \in 1 .. ((Len(sent) + 1) - 1)
      BY <1>1, <2>1
    <2> QED
      BY <1>1, <2>2 DEF Earlier
  <1>10. Sorted'
    <2> SUFFICES ASSUME NEW z \in Names, NEW w \in Names,
                        NEW j \in 1 .. Len(content'[z]),
                        NEW k \in 1 .. Len(content'[w]),
                        ClassOf[content'[z][j]] = ClassOf[content'[w][k]],
                        Ahead(ClassOf[content'[w][k]], z, j, w, k)
                 PROVE  Earlier(sent', content'[z][j], content'[w][k])
      BY DEF Sorted
    <2>1. CASE w = e /\ k = n /\ content'[w][k] = p
      <3>1. CASE j \in 1 .. Len(content[z]) /\ content'[z][j] = content[z][j]
        <4>1. PICK m \in 1 .. Len(sent) : sent[m] = content[z][j]
          BY <3>1 DEF OnlySent
        <4> QED
          BY <1>9, <2>1, <3>1, <4>1
      <3>2. CASE z = e /\ j = n
        <4>1. ~ Ahead(d, e, n, e, n)
          BY <1>3, <1>5 DEF Ahead, n
        <4> QED
          BY <2>1, <3>2, <4>1 DEF d
      <3> QED
        BY <1>4, <3>1, <3>2
    <2>2. CASE k \in 1 .. Len(content[w]) /\ content'[w][k] = content[w][k]
      <3>1. CASE j \in 1 .. Len(content[z]) /\ content'[z][j] = content[z][j]
        <4>1. Earlier(sent, content[z][j], content[w][k])
          BY <2>2, <3>1 DEF Ordered, Sorted
        <4> QED
          BY <1>8, <2>2, <3>1, <4>1
      <3>2. CASE z = e /\ j = n /\ content'[z][j] = p
        <4>1. d = ClassOf[content[w][k]] /\ Ahead(d, e, n, w, k)
          BY <2>2, <3>2 DEF d
        <4>2. Rank(d, w) \in Nat /\ Rank(d, w) >= 5
          BY <2>2, <4>1, ItemRank DEF Ordered
        <4>3. w = e /\ n < k
          BY <1>3, <4>1, <4>2 DEF Ahead
        <4> QED
          BY <1>5, <2>2, <4>3 DEF n
      <3> QED
        BY <1>4, <3>1, <3>2
    <2> QED
      BY <1>4, <2>1, <2>2
  <1>11. Kept'
    <2> SUFFICES ASSUME NEW m \in 1 .. Len(sent')
                 PROVE  \E z \in Names : \E j \in 1 .. Len(content'[z]) :
                          content'[z][j] = sent'[m]
      BY DEF Kept
    <2>1. CASE m = Len(sent) + 1
      BY <1>1, <1>3, <1>6, <2>1
    <2>2. CASE m # Len(sent) + 1
      <3>1. m \in 1 .. Len(sent) /\ sent'[m] = sent[m]
        BY <1>1, <2>2
      <3>2. PICK z \in Names : \E j \in 1 .. Len(content[z]) : content[z][j] = sent[m]
        BY <3>1 DEF Ordered, Kept
      <3>3. PICK j \in 1 .. Len(content[z]) : content[z][j] = sent[m]
        BY <3>2
      <3>4. j \in 1 .. Len(content'[z]) /\ content'[z][j] = content[z][j]
        <4>1. CASE z = e
          BY <1>5, <1>6, <4>1 DEF n
        <4>2. CASE z # e
          BY <4>2 DEF Sends, OthersKept, e
        <4> QED
          BY <4>1, <4>2
      <3> QED
        BY <3>1, <3>3, <3>4
    <2> QED
      BY <2>1, <2>2
  <1> QED
    BY <1>7, <1>10, <1>11 DEF Ordered

LEMMA OrderedNext ==
  ASSUME QueuesOffered, Types, OnlySent, Ordered, [Next]_vars
  PROVE  Ordered'
  <1>1. ASSUME NEW x \in Names, NEW y \in Names, Moves(x, y)
        PROVE  Ordered'
    BY <1>1, OnPathMoves, SortedMoves, KeptMoves DEF Ordered
  <1>2. CASE Rests
    <2>1. sent' = sent /\ \A z \in Names : content'[z] = content[z]
      BY <1>2 DEF Rests, OthersKept
    <2>2. OnPath'
      BY <2>1 DEF Ordered, OnPath
    <2>3. Kept'
      BY <2>1 DEF Ordered, Kept
    <2>4. Sorted'
      BY <2>1 DEF Ordered, Sorted
    <2> QED
      BY <2>2, <2>3, <2>4 DEF Ordered
  <1>3. \A x \in Names : ~ Loses(x)
    BY NoneLost DEF Ordered
  <1> QED
    BY <1>1, <1>2, <1>3, Steps, OrderedSends

-----------------------------------------------------------------------------
(***************************************************************************)
(* The places of CoreNetwork!Places by their names.                        *)
(***************************************************************************)
NameOf(c, k, n) ==
  << Inp(Path[c][k]), InpHand(Path[c][k]), Out(OutOf(c, k), QueueOf(c, k)),
     OutHand(OutOf(c, k)), File(OutOf(c, k)) >>[n]

LEMMA PlacesAre ==
  ASSUME QueuesOffered, NEW c \in Classes, NEW k \in 1 .. L(c), NEW n \in 1 .. 5
  PROVE  /\ n # 5 \/ k = L(c) =>
              /\ NameOf(c, k, n) \in Names
              /\ IsAt(c, NameOf(c, k, n), 4 * k + n)
              /\ Places(c, k)[n] = content[NameOf(c, k, n)]
         /\ n = 5 /\ k # L(c) => Places(c, k)[n] = << >>
  <1> DEFINE a == Path[c][k]
             o == OutOf(c, k)
             q == QueueOf(c, k)
  <1>1. a \in InAdaptors /\ o \in OutAdaptors /\ q \in Queues(o) /\ L(c) \in Nat \ {0}
    BY PathQueues, PathIs
  <1>2. k = L(c) <=> o \in Destinations
    <2>1. CASE k = L(c)
      BY <2>1, PathIs
    <2>2. CASE k # L(c)
      <3>1. k \in 1 .. (L(c) - 1)
        BY <1>1, <2>2
      <3>2. o \in DOMAIN links
        BY <3>1, PathIs
      <3> QED
        BY <2>2, <3>2 DEF Destinations
    <2> QED
      BY <2>1, <2>2
  <1>3. Places(c, k) =
          << inpQueue[a], inpHand[a], outQueue[o][q],
             IF outPc[o] \in {"transfer", "write"} THEN outHand[o] ELSE << >>,
             IF o \in Destinations THEN written[o] ELSE << >> >>
    BY DEF Places, OutOf, QueueOf
  <1>4. NameOf(c, k, n) = << Inp(a), InpHand(a), Out(o, q), OutHand(o), File(o) >>[n]
    BY DEF NameOf
  <1>5. /\ Inp(a) \in Names /\ content[Inp(a)] = inpQueue[a]
        /\ IsAt(c, Inp(a), 4 * k + 1)
    BY <1>1, NamesAre, ContentPartsLemma DEF ContentParts, IsAt
  <1>6. /\ InpHand(a) \in Names /\ content[InpHand(a)] = inpHand[a]
        /\ IsAt(c, InpHand(a), 4 * k + 2)
    BY <1>1, NamesAre, ContentPartsLemma DEF ContentParts, IsAt
  <1>7. /\ Out(o, q) \in Names /\ content[Out(o, q)] = outQueue[o][q]
        /\ IsAt(c, Out(o, q), 4 * k + 3)
    BY <1>1, NamesAre, ContentPartsLemma DEF ContentParts, IsAt
  <1>8. /\ OutHand(o) \in Names /\ IsAt(c, OutHand(o), 4 * k + 4)
        /\ content[OutHand(o)] =
             IF outPc[o] \in {"transfer", "write"} THEN outHand[o] ELSE << >>
    BY <1>1, NamesAre, ContentPartsLemma DEF ContentParts, IsAt
  <1>9. o \in Destinations =>
           /\ File(o) \in Names /\ IsAt(c, File(o), 4 * k + 5)
           /\ content[File(o)] = written[o]
    BY <1>2, NamesAre, ContentPartsLemma DEF ContentParts, IsAt
  <1> HIDE DEF a, o, q
  <1>10. n = 1 \/ n = 2 \/ n = 3 \/ n = 4 \/ n = 5
    OBVIOUS
  <1>11. CASE n = 1
    BY ONLY <1>11, <1>3, <1>4, <1>5
  <1>12. CASE n = 2
    BY ONLY <1>12, <1>3, <1>4, <1>6
  <1>13. CASE n = 3
    BY ONLY <1>13, <1>3, <1>4, <1>7
  <1>14. CASE n = 4
    BY ONLY <1>14, <1>3, <1>4, <1>8
  <1>15. CASE n = 5
    BY ONLY <1>15, <1>2, <1>3, <1>4, <1>9
  <1> QED
    BY <1>10, <1>11, <1>12, <1>13, <1>14, <1>15

LEMMA NameExists ==
  ASSUME NEW c \in Classes, NEW x, NEW r, IsAt(c, x, r)
  PROVE  \E k \in 1 .. L(c) : \E n \in 1 .. 5 :
           x = NameOf(c, k, n) /\ (n # 5 \/ k = L(c))
  <1>1. PICK k \in 1 .. L(c) :
          \/ x = Inp(Path[c][k]) /\ r = 4 * k + 1
          \/ x = InpHand(Path[c][k]) /\ r = 4 * k + 2
          \/ x = Out(OutOf(c, k), QueueOf(c, k)) /\ r = 4 * k + 3
          \/ x = OutHand(OutOf(c, k)) /\ r = 4 * k + 4
          \/ x = File(OutOf(c, k)) /\ r = 4 * k + 5 /\ k = L(c)
    BY DEF IsAt
  <1>2. /\ NameOf(c, k, 1) = Inp(Path[c][k])
        /\ NameOf(c, k, 2) = InpHand(Path[c][k])
        /\ NameOf(c, k, 3) = Out(OutOf(c, k), QueueOf(c, k))
        /\ NameOf(c, k, 4) = OutHand(OutOf(c, k))
        /\ NameOf(c, k, 5) = File(OutOf(c, k))
    BY DEF NameOf
  <1>3. 1 \in 1 .. 5 /\ 2 \in 1 .. 5 /\ 3 \in 1 .. 5 /\ 4 \in 1 .. 5 /\ 5 \in 1 .. 5
    OBVIOUS
  <1>4. 1 # 5 /\ 2 # 5 /\ 3 # 5 /\ 4 # 5
    OBVIOUS
  <1> QED
    BY ONLY <1>1, <1>2, <1>3, <1>4

LEMMA PositionsAre ==
  ASSUME NEW c \in Classes
  PROVE  /\ \A x \in Positions(c) :
              /\ x = << x[1], x[2], x[3] >>
              /\ x[1] \in 1 .. L(c) /\ x[2] \in 1 .. 5
              /\ x[3] \in DOMAIN Places(c, x[1])[x[2]]
         /\ \A k \in 1 .. L(c) : \A n \in 1 .. 5 :
              \A j \in DOMAIN Places(c, k)[n] : << k, n, j >> \in Positions(c)
  <1>1. DOMAIN Path[c] = 1 .. L(c)
    BY PathIs
  <1>2. ASSUME NEW x \in Positions(c)
        PROVE  /\ x = << x[1], x[2], x[3] >>
               /\ x[1] \in 1 .. L(c) /\ x[2] \in 1 .. 5
               /\ x[3] \in DOMAIN Places(c, x[1])[x[2]]
    <2>1. PICK k \in 1 .. L(c) :
            x \in UNION {{k} \X {n} \X DOMAIN Places(c, k)[n] : n \in 1 .. 5}
      BY <1>1 DEF Positions
    <2>2. PICK n \in 1 .. 5 : x \in {k} \X {n} \X DOMAIN Places(c, k)[n]
      BY <2>1
    <2>3. x = << x[1], x[2], x[3] >> /\ x[1] = k /\ x[2] = n
          /\ x[3] \in DOMAIN Places(c, k)[n]
      BY <2>2
    <2> QED
      BY <2>3
  <1>3. ASSUME NEW k \in 1 .. L(c), NEW n \in 1 .. 5,
               NEW j \in DOMAIN Places(c, k)[n]
        PROVE  << k, n, j >> \in Positions(c)
    <2>1. << k, n, j >> \in {k} \X {n} \X DOMAIN Places(c, k)[n]
      OBVIOUS
    <2>2. << k, n, j >> \in UNION {{k} \X {m} \X DOMAIN Places(c, k)[m] : m \in 1 .. 5}
      BY <2>1
    <2> QED
      BY <1>1, <2>2 DEF Positions
  <1> QED
    BY <1>2, <1>3

(***************************************************************************)
(* The item at a position of a class's path.                               *)
(***************************************************************************)
LEMMA PositionItem ==
  ASSUME QueuesOffered, Types, NEW c \in Classes, NEW x \in Positions(c)
  PROVE  LET y == NameOf(c, x[1], x[2])
         IN  /\ y \in Names /\ x[3] \in 1 .. Len(content[y])
             /\ At(c, x) = content[y][x[3]]
             /\ x[1] \in 1 .. L(c) /\ x[2] \in 1 .. 5
             /\ x[2] = 5 => x[1] = L(c)
             /\ Rank(c, y) = 4 * x[1] + x[2]
  <1> DEFINE k == x[1]
             n == x[2]
             y == NameOf(c, k, n)
  <1>1. k \in 1 .. L(c) /\ n \in 1 .. 5 /\ x[3] \in DOMAIN Places(c, k)[n]
    BY PositionsAre
  <1>2. n # 5 \/ k = L(c)
    <2>1. DOMAIN << >> = {}
      OBVIOUS
    <2> QED
      BY <1>1, <2>1, PlacesAre
  <1>3. y \in Names /\ IsAt(c, y, 4 * k + n) /\ Places(c, k)[n] = content[y]
    BY <1>1, <1>2, PlacesAre
  <1>4. content[y] \in Seq(Packets)
    BY <1>3, ContentTypesLemma DEF ContentTypes
  <1>5. At(c, x) = content[y][x[3]]
    BY <1>3 DEF At
  <1>6. Rank(c, y) = 4 * k + n
    BY <1>3, RankOf
  <1> QED
    BY <1>1, <1>2, <1>3, <1>4, <1>5, <1>6

LEMMA FurtherRouter ==
  ASSUME NEW j \in Nat, NEW k \in Nat, NEW m \in 1 .. 5, NEW n \in 1 .. 4,
         j > k
  PROVE  4 * j + m > 4 * k + n
  OBVIOUS

LEMMA OrderShown ==
  ASSUME QueuesOffered, Types, OnlySent, Ordered
  PROVE  InOrder
  <1>1. ASSUME NEW c \in Classes
        PROVE  LET mine == {x \in Positions(c) : ClassOf[At(c, x)] = c}
               IN  /\ {At(c, x) : x \in mine} =
                        {p \in ToSet(sent) : ClassOf[p] = c}
                   /\ \A x, y \in mine :
                        Further(x, y) => SentBefore(At(c, x), At(c, y))
    <2> DEFINE mine == {x \in Positions(c) : ClassOf[At(c, x)] = c}
    <2>1. ASSUME NEW x \in mine
          PROVE  At(c, x) \in {p \in ToSet(sent) : ClassOf[p] = c}
      <3> DEFINE y == NameOf(c, x[1], x[2])
      <3>1. y \in Names /\ x[3] \in 1 .. Len(content[y]) /\ At(c, x) = content[y][x[3]]
        BY PositionItem
      <3> HIDE DEF y
      <3>2. PICK m \in 1 .. Len(sent) : sent[m] = At(c, x)
        BY <3>1 DEF OnlySent
      <3>3. At(c, x) \in ToSet(sent)
        BY <3>2 DEF ToSet, Types
      <3> QED
        BY <3>3
    <2>2. ASSUME NEW p \in ToSet(sent), ClassOf[p] = c
          PROVE  \E x \in mine : At(c, x) = p
      <3>1. PICK m \in 1 .. Len(sent) : sent[m] = p
        BY DEF ToSet, Types
      <3>2. PICK y \in Names : \E j \in 1 .. Len(content[y]) : content[y][j] = p
        BY <3>1 DEF Ordered, Kept
      <3>3. PICK j \in 1 .. Len(content[y]) : content[y][j] = p
        BY <3>2
      <3>4. PICK r \in Nat : IsAt(c, y, r)
        BY <2>2, <3>3 DEF Ordered, OnPath
      <3>5. PICK k \in 1 .. L(c) : \E n \in 1 .. 5 :
              y = NameOf(c, k, n) /\ (n # 5 \/ k = L(c))
        BY <3>4, NameExists
      <3>6. PICK n \in 1 .. 5 : y = NameOf(c, k, n) /\ (n # 5 \/ k = L(c))
        BY <3>5
      <3>7. Places(c, k)[n] = content[y]
        BY <3>6, PlacesAre
      <3>8. j \in DOMAIN Places(c, k)[n]
        BY <3>3, <3>7, ItemTypes
      <3>9. << k, n, j >> \in Positions(c)
        BY <3>8, PositionsAre
      <3>10. At(c, << k, n, j >>) = p
        BY <3>3, <3>7 DEF At
      <3> QED
        BY <2>2, <3>9, <3>10
    <2>3. ASSUME NEW x \in mine, NEW y \in mine, Further(x, y)
          PROVE  SentBefore(At(c, x), At(c, y))
      <3> DEFINE u == NameOf(c, x[1], x[2])
                 v == NameOf(c, y[1], y[2])
      <3>1. /\ u \in Names /\ x[3] \in 1 .. Len(content[u])
            /\ At(c, x) = content[u][x[3]]
            /\ x[1] \in 1 .. L(c) /\ x[2] \in 1 .. 5
            /\ Rank(c, u) = 4 * x[1] + x[2]
        BY PositionItem
      <3>2. /\ v \in Names /\ y[3] \in 1 .. Len(content[v])
            /\ At(c, y) = content[v][y[3]]
            /\ y[1] \in 1 .. L(c) /\ y[2] \in 1 .. 5
            /\ y[2] = 5 => y[1] = L(c)
            /\ Rank(c, v) = 4 * y[1] + y[2]
        BY PositionItem
      <3>3. ClassOf[At(c, x)] = c /\ ClassOf[At(c, y)] = c
        OBVIOUS
      <3>4. L(c) \in Nat
        BY PathIs
      <3>5. Rank(c, u) > Rank(c, v) \/ (u = v /\ x[3] < y[3])
        <4>1. CASE x[1] > y[1]
          <5>1. /\ x[1] \in 1 .. L(c) /\ y[1] \in 1 .. L(c)
                /\ x[2] \in 1 .. 5 /\ y[2] \in 1 .. 5
                /\ y[2] = 5 => y[1] = L(c)
            BY <3>1, <3>2
          <5>2. x[1] \in Nat /\ y[1] \in Nat /\ x[2] \in 1 .. 5 /\ y[2] \in 1 .. 4
            BY ONLY <3>4, <4>1, <5>1
          <5>3. 4 * x[1] + x[2] > 4 * y[1] + y[2]
            BY ONLY <4>1, <5>2, FurtherRouter
          <5> QED
            BY <3>1, <3>2, <5>3
        <4>2. CASE x[1] = y[1] /\ x[2] > y[2]
          BY <3>1, <3>2, <3>4, <4>2
        <4>3. CASE x[1] = y[1] /\ x[2] = y[2] /\ x[3] < y[3]
          BY <4>3
        <4> QED
          BY <2>3, <4>1, <4>2, <4>3 DEF Further
      <3> HIDE DEF u, v
      <3>6. Earlier(sent, content[u][x[3]], content[v][y[3]])
        BY <3>1, <3>2, <3>3, <3>5 DEF Ordered, Sorted, Ahead
      <3> QED
        BY <3>1, <3>2, <3>6 DEF Earlier, SentBefore
    <2> HIDE DEF mine
    <2>4. {At(c, x) : x \in mine} = {p \in ToSet(sent) : ClassOf[p] = c}
      BY <2>1, <2>2
    <2> QED
      BY <2>3, <2>4 DEF mine
  <1>2. ASSUME NEW a \in Destinations, NEW p \in ToSet(written[a])
        PROVE  Destination[ClassOf[p]] = a
    <2> DEFINE c == ClassOf[p]
    <2>1. File(a) \in Names /\ content[File(a)] = written[a] /\ written[a] \in Seq(Packets)
      BY NamesAre, ContentPartsLemma DEF ContentParts, Types
    <2>2. PICK j \in 1 .. Len(content[File(a)]) : content[File(a)][j] = p
      BY <2>1 DEF ToSet
    <2>3. c \in Classes
      BY <2>1, <2>2, ItemTypes
    <2>4. PICK r \in Nat : IsAt(c, File(a), r)
      BY <2>1, <2>2 DEF Ordered, OnPath
    <2>5. a = OutOf(c, L(c))
      BY <2>4, NamesDiffer DEF IsAt
    <2> QED
      BY <2>3, <2>5, PathIs
  <1> QED
    BY <1>1, <1>2 DEF InOrder

LEMMA OnlyOnPathShown ==
  ASSUME Types, OnPath
  PROVE  OnlyOnPath
  <1> SUFFICES ASSUME NEW a \in InAdaptors, NEW p \in ToSet(inpHand[a])
               PROVE  a \in ToSet(Path[ClassOf[p]])
    BY DEF OnlyOnPath
  <1>1. /\ InpHand(a) \in Names /\ content[InpHand(a)] = inpHand[a]
        /\ inpHand[a] \in Seq(Packets)
    BY NamesAre, ContentPartsLemma DEF ContentParts, Types
  <1>2. PICK j \in 1 .. Len(content[InpHand(a)]) : content[InpHand(a)][j] = p
    BY <1>1 DEF ToSet
  <1>3. ClassOf[p] \in Classes
    BY <1>1, <1>2, ItemTypes
  <1>4. PICK r \in Nat : IsAt(ClassOf[p], InpHand(a), r)
    BY <1>1, <1>2 DEF OnPath
  <1>5. PICK k \in 1 .. L(ClassOf[p]) : a = Path[ClassOf[p]][k]
    BY <1>4, NamesDiffer DEF IsAt
  <1>6. k \in DOMAIN Path[ClassOf[p]]
    BY <1>3, <1>5, PathIs DEF L
  <1> QED
    BY <1>5, <1>6 DEF ToSet

(***************************************************************************)
(* That none is lost needs the configuration to be right.                  *)
(***************************************************************************)
LEMMA OrderInvariance ==
  ASSUME QueuesOffered
  PROVE  Spec => [](Inv /\ Ordered)
  <1>1. Init => Ordered
    BY OrderedInit
  <1>2. Inv /\ Ordered /\ [Next]_vars => Ordered'
    BY OrderedNext DEF Inv, Single
  <1>3. Spec => []Inv
    BY Invariance
  <1> QED
    BY <1>1, <1>2, <1>3, PTL DEF Spec

(***************************************************************************)
(* No packet is lost, duplicated or misdelivered on its way through the    *)
(* core, and none overtakes another of its class, whatever the threads of  *)
(* the adaptors do first: if the configuration gives every class a queue   *)
(* at each router of its path.                                             *)
(***************************************************************************)
THEOREM NoneLostOrOvertaken ==
  ASSUME QueuesOffered
  PROVE  Spec => []InOrder
  <1>1. Inv /\ Ordered => InOrder
    BY OrderShown DEF Inv, Single
  <1> QED
    BY <1>1, OrderInvariance, PTL

(***************************************************************************)
(* A packet comes to no input adaptor off the path of its class, whatever  *)
(* queues the ports offer and even if packets are lost on the way.  The -1 *)
(* of indexOf is therefore met only where a port of the class's own path   *)
(* does not offer its code.                                                *)
(***************************************************************************)
THEOREM PathsAreKept == Spec => []OnlyOnPath
  <1>1. Inv /\ OnPath => OnlyOnPath
    BY OnlyOnPathShown DEF Inv
  <1> QED
    BY <1>1, OnPathInvariance, PTL

=============================================================================
