---------------------------- MODULE InputAdaptor ----------------------------
(***************************************************************************)
(* An input adaptor of the border router from its trace file to the fabric *)
(* (inputadaptor.cpp): loadQueue cuts the file into packets, of a fixed    *)
(* size or each as long as its header says, and borderRun looks up each    *)
(* packet's destination and hands it to the fabric.                        *)
(*                                                                         *)
(* A file is its size and the headers that would be read at each offset;   *)
(* a packet is known by its offset.  Beyond the end of a file nothing is   *)
(* known, but no packet starts there.                                      *)
(***************************************************************************)
EXTENDS RoutingTable

CONSTANTS Inputs,     \* the tables, files and packet sizes considered
          MaxLoaded   \* bound: the packets loaded from one file

Header == [total_length : Nat, destination_addr : Address]

ASSUME InputsAssumption ==
  \A x \in Inputs : /\ x.table \in Tables
                    /\ x.size \in Nat
                    /\ DOMAIN x.header = 0 .. (x.size - 1)
                    /\ \A o \in DOMAIN x.header : x.header[o] \in Header
                    /\ x.pSize \in Int
ASSUME MaxLoadedAssumption == MaxLoaded \in Nat

VARIABLES input,                \* one of Inputs
          inpPc,                \* where the adaptor is
          offset,               \* how far the file is loaded
          inpQueue,
          num_input_packets, processedPackets,
          packet,               \* the packet in hand
          switched              \* history: the packets given to the fabric,
                                \* each with the entry found for it

adaptorVars == << input, inpPc, offset, inpQueue, num_input_packets,
                  processedPackets, packet, switched >>

vars == << tableVars, adaptorVars >>

FixedSize == input.pSize > 0

Init ==
  /\ input \in Inputs
  /\ routingTable = input.table
  /\ TableInit
  /\ inpPc = "load"
  /\ offset = 0
  /\ inpQueue = << >>
  /\ num_input_packets = IF FixedSize THEN input.size \div input.pSize ELSE 0
  /\ processedPackets = 0
  /\ packet = 0
  /\ switched = << >>

\* Mutant of FileGoesOn: only whole packets are loaded.
FileGoesOnWhole == offset + input.pSize <= input.size

FileGoesOn == offset < input.size

\* Mutant of PacketSize: the length is taken to count words of two bytes.
PacketSizeInWords == IF FixedSize THEN input.pSize
                     ELSE input.header[offset].total_length \div 2

PacketSize == IF FixedSize THEN input.pSize
              ELSE input.header[offset].total_length

LoadPacket ==
  /\ inpPc = "load"
  /\ FileGoesOn
  /\ Len(inpQueue) < MaxLoaded
  /\ inpQueue' = Append(inpQueue, offset)
  /\ offset' = offset + PacketSize
  /\ num_input_packets' = num_input_packets + IF FixedSize THEN 0 ELSE 1
  /\ UNCHANGED << tableVars, input, inpPc, processedPackets, packet,
                  switched >>

LoadEnd ==
  /\ inpPc = "load"
  /\ ~ FileGoesOn
  /\ inpPc' = "run"
  /\ UNCHANGED << tableVars, input, offset, inpQueue, num_input_packets,
                  processedPackets, packet, switched >>
-----------------------------------------------------------------------------
(***************************************************************************)
(* borderRun(): pop a packet, look it up, hand it over.                    *)
(***************************************************************************)
PopPacket ==
  /\ inpPc = "run"
  /\ inpQueue # << >>
  /\ packet' = Head(inpQueue)
  /\ inpQueue' = Tail(inpQueue)
  /\ Call(input.header[packet'].destination_addr)
  /\ inpPc' = "lookUp"
  /\ UNCHANGED << input, offset, num_input_packets, processedPackets,
                  switched >>

Fabric ==
  /\ inpPc = "lookUp"
  /\ pc = "done"
  /\ switched' = Append(switched, << packet, found >>)
  /\ processedPackets' = processedPackets + 1
  /\ inpPc' = "run"
  /\ UNCHANGED << tableVars, input, offset, inpQueue, num_input_packets,
                  packet >>

Notify ==
  /\ inpPc = "run"
  /\ inpQueue = << >>
  /\ inpPc' = "end"
  /\ UNCHANGED << tableVars, input, offset, inpQueue, num_input_packets,
                  processedPackets, packet, switched >>

Next ==
  \/ LoadPacket \/ LoadEnd
  \/ PopPacket \/ Fabric \/ Notify
  \/ LookUpStep /\ UNCHANGED adaptorVars

Spec == Init /\ [][Next]_vars /\ WF_vars(Next)
-----------------------------------------------------------------------------
(***************************************************************************)
(* The number reported to the router is that of the packets loaded, except *)
(* that the rest of a file that is no multiple of the packet size is       *)
(* loaded as one more packet and not counted.                              *)
(***************************************************************************)
Rest == IF FixedSize /\ input.size % input.pSize # 0 THEN 1 ELSE 0

CountsAllButTheRest ==
  inpPc # "load" =>
    processedPackets + Len(inpQueue) + (IF inpPc = "lookUp" THEN 1 ELSE 0)
      = num_input_packets + Rest

(***************************************************************************)
(* The packets given to the fabric follow one another in the file without  *)
(* gap or overlap, from its first byte, to its last when the router is     *)
(* notified, each with the entry that longest prefix match gives it.       *)
(***************************************************************************)
Size(o) == IF FixedSize THEN input.pSize ELSE input.header[o].total_length

SwitchesTheFile ==
  /\ \A k \in DOMAIN switched :
       LET start == switched[k][1]
       IN  /\ k = 1 => start = 0
           /\ k > 1 => start = switched[k - 1][1] + Size(switched[k - 1][1])
           /\ Longest(switched[k][2], input.header[start].destination_addr)
  /\ inpPc = "end" /\ input.size > 0 =>
       /\ switched # << >>
       /\ LET last == switched[Len(switched)][1]
          IN  last + Size(last) >= input.size

(***************************************************************************)
(* The adaptor notifies its router, unless a header says that its packet   *)
(* has no length: then loadQueue loads that packet again and again.        *)
(***************************************************************************)
NotifiesUnlessEmptyPacket ==
  (\A o \in DOMAIN input.header : Size(o) > 0) => <>(inpPc = "end")
=============================================================================
