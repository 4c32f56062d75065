---------------------------- MODULE RoutingTable ----------------------------
(***************************************************************************)
(* RoutingTable::lookUp: one pass over the entries of the forwarding table,*)
(* one octet of the mask after the other, keeping the first entry with the *)
(* longest match.                                                          *)
(*                                                                         *)
(* An address is a sequence of octets and an octet a sequence of bits, the *)
(* most significant one first; the code's have four octets of eight bits.  *)
(* The entry found determines port, queue and dscp, which are left out.    *)
(***************************************************************************)
EXTENDS Integers, Sequences, FiniteSets

CONSTANTS NumOctets, OctetBits,
          Tables        \* the forwarding tables considered

Bit     == 1 .. OctetBits
Octet   == [Bit -> {0, 1}]
Address == [1 .. NumOctets -> Octet]
Entry   == [destination_addr : Address, destination_mask : Address]

(***************************************************************************)
(* The number of leading ones of a mask; every mask in the tables under    *)
(* config/ is made of leading ones only.                                   *)
(***************************************************************************)
OctetOf(n) == ((n - 1) \div OctetBits) + 1
BitOf(n)   == ((n - 1) % OctetBits) + 1
At(a, n)   == a[OctetOf(n)][BitOf(n)]
Positions  == 1 .. (NumOctets * OctetBits)

PrefixLength(mask) == Cardinality({n \in Positions : At(mask, n) = 1})

IsPrefixMask(mask) ==
  \A n \in Positions : At(mask, n) = 1 <=> n <= PrefixLength(mask)

ASSUME WidthAssumption == NumOctets \in Nat \ {0} /\ OctetBits \in Nat \ {0}
ASSUME TablesAssumption ==
  \A t \in Tables : /\ t \in Seq(Entry) /\ t # << >>
                    /\ \A k \in DOMAIN t : IsPrefixMask(t[k].destination_mask)

VARIABLES routingTable, destinationAddr,
          pc, i, j,           \* the loops, both from 1 here
          matchCount, tBits, longestMatch, longestMatchEntry,
          found               \* the entry whose port is returned

tableVars == << routingTable, destinationAddr, pc, i, j, matchCount, tBits,
                longestMatch, longestMatchEntry, found >>

TableInit ==
  /\ destinationAddr = CHOOSE a \in Address : TRUE
  /\ pc = "done"
  /\ i = 1
  /\ j = 1
  /\ matchCount = 0
  /\ tBits = 0
  /\ longestMatch = 0
  /\ longestMatchEntry = 1
  /\ found = 0

(***************************************************************************)
(* lookUp(a) is called: longestMatch and longestMatchEntry start afresh.   *)
(***************************************************************************)
Call(a) ==
  /\ pc = "done"
  /\ pc' = "entry"
  /\ destinationAddr' = a
  /\ i' = 1
  /\ longestMatch' = 0
  /\ longestMatchEntry' = 1
  /\ UNCHANGED << routingTable, j, matchCount, tBits, found >>

Mask == routingTable[i].destination_mask[j]

(***************************************************************************)
(* countMaskBits, and the bits of the result of mask and XOR that are zero *)
(* before the first one, among the cBits most significant.                 *)
(***************************************************************************)
countMaskBits(mask) == Cardinality({b \in Bit : mask[b] = 1})

xor_result ==
  [b \in Bit |-> (destinationAddr[j][b] * Mask[b]
                    + routingTable[i].destination_addr[j][b]) % 2]

ZeroBits(cBits) ==
  Cardinality({b \in 1 .. cBits : \A a \in 1 .. b : xor_result[a] = 0})
-----------------------------------------------------------------------------
\* Mutant of FreshSums: the sums of the entry before are kept.
FreshSumsNot == UNCHANGED << matchCount, tBits >>

FreshSums == matchCount' = 0 /\ tBits' = 0

FirstOctet ==
  /\ pc = "entry"
  /\ i <= Len(routingTable)
  /\ FreshSums
  /\ j' = 1
  /\ pc' = "octet"
  /\ UNCHANGED << routingTable, destinationAddr, i, longestMatch,
                  longestMatchEntry, found >>

(***************************************************************************)
(* The loop over the octets ends with the mask or with the address.        *)
(***************************************************************************)
MaskGoesOn == j <= NumOctets /\ countMaskBits(Mask) > 0

MaskEnds ==
  /\ pc = "octet"
  /\ ~ MaskGoesOn
  /\ pc' = "compare"
  /\ UNCHANGED << routingTable, destinationAddr, i, j, matchCount, tBits,
                  longestMatch, longestMatchEntry, found >>

MatchOctet ==
  /\ pc = "octet"
  /\ MaskGoesOn
  /\ LET cBits == countMaskBits(Mask)
         match == matchCount + ZeroBits(cBits)
     IN  /\ tBits' = tBits + cBits
         /\ \/ /\ match = tBits + cBits
               /\ matchCount' = match
               /\ j' = j + 1
               /\ pc' = "octet"
            \/ /\ match # tBits + cBits
               /\ matchCount' = 0
               /\ j' = j
               /\ pc' = "compare"
  /\ UNCHANGED << routingTable, destinationAddr, i, longestMatch,
                  longestMatchEntry, found >>

KeepLongest ==
  /\ pc = "compare"
  /\ IF matchCount > longestMatch
     THEN longestMatch' = matchCount /\ longestMatchEntry' = i
     ELSE UNCHANGED << longestMatch, longestMatchEntry >>
  /\ i' = i + 1
  /\ pc' = "entry"
  /\ UNCHANGED << routingTable, destinationAddr, j, matchCount, tBits, found >>

Return ==
  /\ pc = "entry"
  /\ i > Len(routingTable)
  /\ found' = IF longestMatch = 0 THEN Len(routingTable) ELSE longestMatchEntry
  /\ pc' = "done"
  /\ UNCHANGED << routingTable, destinationAddr, i, j, matchCount, tBits,
                  longestMatch, longestMatchEntry >>

LookUpStep == FirstOctet \/ MaskEnds \/ MatchOctet \/ KeepLongest \/ Return
-----------------------------------------------------------------------------
(***************************************************************************)
(* The reference: an entry covers an address if they agree on the prefix.  *)
(***************************************************************************)
Length(e) == PrefixLength(e.destination_mask)

Covers(e, a) ==
  \A n \in 1 .. Length(e) : At(a, n) = At(e.destination_addr, n)

Covering(a) == {k \in DOMAIN routingTable :
                  Length(routingTable[k]) > 0 /\ Covers(routingTable[k], a)}

(***************************************************************************)
(* Entry k is the longest covering prefix, the first of several equal      *)
(* ones, and the last entry of the table if no prefix covers the address;  *)
(* an entry of length 0 counts as a default there and nowhere else.        *)
(***************************************************************************)
Longest(k, a) ==
  IF Covering(a) = {} THEN k = Len(routingTable)
  ELSE /\ k \in Covering(a)
       /\ \A m \in Covering(a) :
            \/ Length(routingTable[m]) < Length(routingTable[k])
            \/ Length(routingTable[m]) = Length(routingTable[k]) /\ k <= m
=============================================================================
