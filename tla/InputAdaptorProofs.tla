------------------------- MODULE InputAdaptorProofs -------------------------
(***************************************************************************)
(* lookUp is longest prefix match for every table whose masks are prefixes,*)
(* and an input adaptor switches the whole of every file by it.            *)
(***************************************************************************)
EXTENDS InputAdaptor, FiniteSetTheorems, TLAPS

(***************************************************************************)
(* Where the bits of an octet are in an address.                           *)
(***************************************************************************)
LEMMA PlaceOfBit ==
  ASSUME NEW o \in 1 .. NumOctets, NEW b \in Bit
  PROVE  /\ (o - 1) * OctetBits + b \in Positions
         /\ OctetOf((o - 1) * OctetBits + b) = o
         /\ BitOf((o - 1) * OctetBits + b) = b
  <1> DEFINE w == OctetBits
             x == (o - 1) * w + (b - 1)
  <1>1. w \in Nat \ {0} /\ NumOctets \in Nat \ {0} /\ b \in 1 .. w
    BY WidthAssumption DEF Bit
  <1>2. o - 1 \in Nat /\ b - 1 \in 0 .. (w - 1) /\ (o - 1) * w \in Nat
    BY <1>1
  <1> HIDE DEF w
  <1>3. x \div w = o - 1 /\ x % w = b - 1
    BY <1>1, <1>2
  <1>4. ((o - 1) * w + b) - 1 = x
    BY <1>1, <1>2
  <1>5. (o - 1) * w + b \in 1 .. (NumOctets * w)
    <2>1. (o - 1) * w + w <= NumOctets * w
      <3>1. o * w <= NumOctets * w
        BY <1>1
      <3> QED
        BY <1>1, <3>1
    <2>2. NumOctets * w \in Nat
      BY <1>1
    <2> QED
      BY <1>1, <1>2, <2>1, <2>2
  <1>6. ((x \div w) + 1 = o) /\ ((x % w) + 1 = b)
    BY <1>1, <1>3
  <1> HIDE DEF x
  <1> QED
    BY <1>4, <1>5, <1>6 DEF OctetOf, BitOf, Positions, w

LEMMA BitOfPlace ==
  ASSUME NEW n \in Positions
  PROVE  /\ OctetOf(n) \in 1 .. NumOctets /\ BitOf(n) \in Bit
         /\ n = (OctetOf(n) - 1) * OctetBits + BitOf(n)
  <1> DEFINE w == OctetBits
             N == NumOctets
             q == (n - 1) \div w
             r == (n - 1) % w
  <1>1. w \in Nat \ {0} /\ N \in Nat \ {0} /\ n \in 1 .. (N * w)
    BY WidthAssumption DEF Positions
  <1>2. n - 1 \in Nat
    BY <1>1
  <1> HIDE DEF w, N
  <1>3. q \in Nat /\ r \in 0 .. (w - 1) /\ n - 1 = w * q + r
    BY <1>1, <1>2
  <1> HIDE DEF q, r
  <1>4. q < N
    <2>1. ASSUME q >= N PROVE FALSE
      <3>1. w * q >= w * N
        BY <1>1, <1>3, <2>1
      <3>2. w * N = N * w
        BY <1>1
      <3>3. N * w \in Nat /\ w * q \in Nat
        BY <1>1, <1>3
      <3> QED
        BY <1>1, <1>3, <3>1, <3>2, <3>3
    <2> QED
      BY <1>1, <1>3, <2>1
  <1>5. OctetOf(n) = q + 1 /\ BitOf(n) = r + 1
    BY DEF OctetOf, BitOf, q, r, w
  <1>6. n = q * w + (r + 1)
    <2>1. w * q = q * w /\ q * w \in Nat
      BY <1>1, <1>3
    <2> QED
      BY <1>1, <1>3, <2>1
  <1>7. (q + 1) - 1 = q
    BY <1>3
  <1>8. q + 1 \in 1 .. N /\ r + 1 \in 1 .. w
    BY <1>1, <1>3, <1>4
  <1> QED
    BY <1>5, <1>6, <1>7, <1>8 DEF Bit, w, N

(***************************************************************************)
(* How many bits of a prefix mask are set in each octet.                   *)
(***************************************************************************)
Reach(len, o) ==
  IF len <= (o - 1) * OctetBits THEN 0
  ELSE IF len >= o * OctetBits THEN OctetBits
  ELSE len - (o - 1) * OctetBits

LEMMA CountInterval ==
  ASSUME NEW n \in Nat
  PROVE  IsFiniteSet(1 .. n) /\ Cardinality(1 .. n) = n
  <1>1. 1 \in Int /\ n \in Int
    OBVIOUS
  <1> QED
    BY <1>1, FS_Interval

LEMMA PrefixLengthType ==
  ASSUME NEW mask
  PROVE  PrefixLength(mask) \in 0 .. (NumOctets * OctetBits)
  <1> DEFINE w == NumOctets * OctetBits
             S == {n \in Positions : At(mask, n) = 1}
  <1>1. w \in Nat
    BY WidthAssumption
  <1>2. IsFiniteSet(Positions) /\ Cardinality(Positions) = w
    BY <1>1, CountInterval DEF Positions
  <1>3. S \subseteq Positions
    OBVIOUS
  <1> HIDE DEF w, S
  <1>4. Cardinality(S) <= w /\ IsFiniteSet(S)
    BY <1>2, <1>3, FS_Subset
  <1>5. Cardinality(S) \in Nat
    BY <1>4, FS_CardinalityType
  <1>6. Cardinality(S) \in 0 .. w
    BY <1>1, <1>4, <1>5
  <1> QED
    BY <1>6 DEF PrefixLength, S, w

LEMMA MaskOctet ==
  ASSUME NEW mask \in Address, IsPrefixMask(mask), NEW o \in 1 .. NumOctets
  PROVE  /\ countMaskBits(mask[o]) = Reach(PrefixLength(mask), o)
         /\ Reach(PrefixLength(mask), o) \in 0 .. OctetBits
         /\ \A b \in 1 .. Reach(PrefixLength(mask), o) : mask[o][b] = 1
  <1> DEFINE w == OctetBits
             len == PrefixLength(mask)
             base == (o - 1) * w
             r == Reach(len, o)
  <1>1. w \in Nat \ {0} /\ len \in Nat /\ base \in Nat /\ o * w = base + w
    BY WidthAssumption, PrefixLengthType
  <1>2. ASSUME NEW b \in Bit
        PROVE  mask[o][b] = 1 <=> base + b <= len
    <2>1. base + b \in Positions /\ OctetOf(base + b) = o /\ BitOf(base + b) = b
      BY PlaceOfBit
    <2>2. At(mask, base + b) = mask[o][b]
      BY <2>1 DEF At
    <2> QED
      BY <2>1, <2>2 DEF IsPrefixMask
  <1>3. r = IF len <= base THEN 0 ELSE IF len >= base + w THEN w ELSE len - base
    BY <1>1 DEF Reach
  <1> HIDE DEF w, len, base, r
  <1>4. r \in 0 .. w
    BY <1>1, <1>3
  <1>5. Bit = 1 .. w
    BY DEF Bit, w
  <1>6. {b \in Bit : mask[o][b] = 1} = 1 .. r
    <2>1. ASSUME NEW b \in Bit
          PROVE  base + b <= len <=> b <= r
      BY <1>1, <1>3, <1>5
    <2>2. 1 .. r = {b \in Bit : b <= r}
      BY <1>1, <1>4, <1>5
    <2> QED
      BY <1>2, <2>1, <2>2
  <1>7. countMaskBits(mask[o]) = r
    <2>1. r \in Nat
      BY <1>1, <1>4
    <2>2. Cardinality(1 .. r) = r
      BY <2>1, CountInterval
    <2>3. countMaskBits(mask[o]) = Cardinality(1 .. r)
      BY <1>6, Zenon DEF countMaskBits
    <2> QED
      BY <2>2, <2>3
  <1>8. \A b \in 1 .. r : mask[o][b] = 1
    BY <1>6
  <1> QED
    BY <1>4, <1>7, <1>8 DEF r, len, w

-----------------------------------------------------------------------------
(***************************************************************************)
(* In "octet" the masks of the octets before j matched; in "compare" the   *)
(* sum is the length of the entry if it covers the address and 0 if not.   *)
(***************************************************************************)
Agree(e, a, len) == \A n \in 1 .. len : At(a, n) = At(e.destination_addr, n)

SoFar(len, o) == IF len <= (o - 1) * OctetBits THEN len ELSE (o - 1) * OctetBits

SumsRight ==
  /\ pc \in {"octet", "compare"} => i \in DOMAIN routingTable
  /\ pc = "octet" =>
       /\ j \in 1 .. (NumOctets + 1)
       /\ tBits = SoFar(Length(routingTable[i]), j)
       /\ matchCount = tBits
       /\ Agree(routingTable[i], destinationAddr, tBits)
  /\ pc = "compare" =>
       matchCount = IF Covers(routingTable[i], destinationAddr)
                    THEN Length(routingTable[i]) ELSE 0

(***************************************************************************)
(* The entry kept is the longest of those looked at that cover the address.*)
(***************************************************************************)
Seen == {k \in Covering(destinationAddr) : k < i}

KeptRight ==
  pc # "done" =>
    /\ Seen = {} => longestMatch = 0
    /\ Seen # {} =>
         /\ longestMatchEntry \in Seen
         /\ longestMatch = Length(routingTable[longestMatchEntry])
         /\ \A m \in Seen :
              \/ Length(routingTable[m]) < longestMatch
              \/ /\ Length(routingTable[m]) = longestMatch
                 /\ longestMatchEntry <= m

TableTypes ==
  /\ routingTable \in Tables
  /\ pc \in {"done", "entry", "octet", "compare"}
  /\ pc # "done" => destinationAddr \in Address
  /\ i \in Nat \ {0}

LookUpInv == TableTypes /\ SumsRight /\ KeptRight

(***************************************************************************)
(* An entry of a table.                                                    *)
(***************************************************************************)
LEMMA EntryOfTable ==
  ASSUME NEW t \in Tables, NEW k \in DOMAIN t
  PROVE  /\ t[k] \in Entry
         /\ t[k].destination_addr \in Address
         /\ t[k].destination_mask \in Address
         /\ IsPrefixMask(t[k].destination_mask)
         /\ Length(t[k]) \in 0 .. (NumOctets * OctetBits)
         /\ t \in Seq(Entry) /\ DOMAIN t = 1 .. Len(t)
  <1>1. t \in Seq(Entry) /\ IsPrefixMask(t[k].destination_mask)
    BY TablesAssumption
  <1>2. DOMAIN t = 1 .. Len(t) /\ t[k] \in Entry
    BY <1>1
  <1>3. /\ t[k].destination_addr \in Address
        /\ t[k].destination_mask \in Address
    BY <1>2 DEF Entry
  <1>4. Length(t[k]) \in 0 .. (NumOctets * OctetBits)
    BY PrefixLengthType DEF Length
  <1> QED
    BY <1>1, <1>2, <1>3, <1>4

(***************************************************************************)
(* An octet of the mask: the zeros before the first bit that differs are   *)
(* as many as the bits of the mask if no bit differs, and fewer if one     *)
(* does.                                                                   *)
(***************************************************************************)
LEMMA ZeroBitsOfOctet ==
  ASSUME routingTable \in Tables, destinationAddr \in Address,
         i \in DOMAIN routingTable, j \in 1 .. NumOctets
  PROVE  LET c == countMaskBits(Mask)
         IN  /\ c = Reach(Length(routingTable[i]), j)
             /\ c \in 0 .. OctetBits
             /\ ZeroBits(c) \in 0 .. c
             /\ ZeroBits(c) = c <=>
                  \A b \in 1 .. c : destinationAddr[j][b]
                                      = routingTable[i].destination_addr[j][b]
  <1> DEFINE c == countMaskBits(Mask)
             e == routingTable[i]
             Z == {b \in 1 .. c : \A x \in 1 .. b : xor_result[x] = 0}
  <1>1. /\ e.destination_addr \in Address /\ e.destination_mask \in Address
        /\ IsPrefixMask(e.destination_mask)
    BY EntryOfTable
  <1>2. /\ c = Reach(Length(e), j) /\ c \in 0 .. OctetBits
        /\ \A b \in 1 .. c : Mask[b] = 1
    BY <1>1, MaskOctet DEF Mask, Length
  <1> HIDE DEF c
  <1>3. Bit = 1 .. OctetBits /\ OctetBits \in Nat \ {0}
    BY WidthAssumption DEF Bit
  <1>4. ASSUME NEW b \in 1 .. c
        PROVE  xor_result[b] = 0
                 <=> destinationAddr[j][b] = e.destination_addr[j][b]
    <2>1. b \in Bit /\ Mask[b] = 1
      BY <1>2, <1>3
    <2>2. /\ destinationAddr[j][b] \in {0, 1}
          /\ e.destination_addr[j][b] \in {0, 1}
      BY <1>1, <2>1 DEF Address, Octet
    <2>3. xor_result[b] = (destinationAddr[j][b] * 1
                             + e.destination_addr[j][b]) % 2
      BY <2>1 DEF xor_result
    <2> QED
      BY <2>2, <2>3
  <1>5. IsFiniteSet(1 .. c) /\ Cardinality(1 .. c) = c
    <2>1. c \in Nat
      BY <1>2, <1>3
    <2> QED
      BY <2>1, CountInterval
  <1>6. Z \subseteq 1 .. c
    OBVIOUS
  <1>7. Cardinality(Z) \in 0 .. c
    <2> HIDE DEF Z
    <2>1. IsFiniteSet(Z) /\ Cardinality(Z) <= c
      BY <1>5, <1>6, FS_Subset
    <2>2. Cardinality(Z) \in Nat
      BY <2>1, FS_CardinalityType
    <2> QED
      BY <1>2, <1>3, <2>1, <2>2
  <1>8. Cardinality(Z) = c => Z = 1 .. c
    <2> HIDE DEF Z
    <2> QED
      BY <1>5, <1>6, FS_Subset
  <1>9. Z = 1 .. c => Cardinality(Z) = c
    BY <1>5
  <1>10. Z = 1 .. c <=> \A b \in 1 .. c : xor_result[b] = 0
    <2>1. ASSUME Z = 1 .. c, NEW b \in 1 .. c PROVE xor_result[b] = 0
      <3>1. b \in Z
        BY <2>1
      <3>2. \A x \in 1 .. b : xor_result[x] = 0
        BY <3>1
      <3>3. b \in 1 .. b
        BY <1>2, <1>3
      <3> QED
        BY <3>2, <3>3
    <2>2. ASSUME \A b \in 1 .. c : xor_result[b] = 0 PROVE Z = 1 .. c
      <3>1. ASSUME NEW b \in 1 .. c PROVE \A x \in 1 .. b : xor_result[x] = 0
        <4>1. 1 .. b \subseteq 1 .. c
          BY <1>2, <1>3
        <4> QED
          BY <2>2, <4>1
      <3> QED
        BY <3>1
    <2> QED
      BY <2>1, <2>2
  <1>11. ZeroBits(c) = Cardinality(Z)
    BY DEF ZeroBits
  <1> HIDE DEF Z
  <1> QED
    BY <1>2, <1>4, <1>7, <1>8, <1>9, <1>10, <1>11 DEF c

(***************************************************************************)
(* One more octet of a mask that goes on.                                  *)
(***************************************************************************)
LEMMA OneMoreOctet ==
  ASSUME NEW len \in 0 .. (NumOctets * OctetBits), NEW o \in 1 .. NumOctets
  PROVE  /\ Reach(len, o) = 0 => SoFar(len, o) = len
         /\ Reach(len, o) # 0 =>
              /\ SoFar(len, o) = (o - 1) * OctetBits
              /\ SoFar(len, o + 1) = SoFar(len, o) + Reach(len, o)
              /\ SoFar(len, o) + Reach(len, o) <= len
         /\ SoFar(len, o) \in Nat /\ Reach(len, o) \in 0 .. OctetBits
  <1> DEFINE w == OctetBits
             base == (o - 1) * w
  <1>1. /\ w \in Nat \ {0} /\ base \in Nat /\ o * w = base + w
        /\ ((o + 1) - 1) * w = base + w /\ len \in Nat
    BY WidthAssumption
  <1>2. Reach(len, o) = IF len <= base THEN 0
                        ELSE IF len >= base + w THEN w ELSE len - base
    BY <1>1 DEF Reach
  <1>3. SoFar(len, o) = IF len <= base THEN len ELSE base
    BY DEF SoFar
  <1>4. SoFar(len, o + 1) = IF len <= base + w THEN len ELSE base + w
    BY <1>1 DEF SoFar
  <1> HIDE DEF w, base
  <1>5. /\ Reach(len, o) = 0 => SoFar(len, o) = len
        /\ Reach(len, o) # 0 =>
              /\ SoFar(len, o) = base
              /\ SoFar(len, o + 1) = SoFar(len, o) + Reach(len, o)
              /\ SoFar(len, o) + Reach(len, o) <= len
        /\ SoFar(len, o) \in Nat /\ Reach(len, o) \in 0 .. w
    BY <1>1, <1>2, <1>3, <1>4
  <1> QED
    BY <1>5 DEF base, w

LEMMA MaskIsDone ==
  ASSUME NEW len \in 0 .. (NumOctets * OctetBits)
  PROVE  SoFar(len, NumOctets + 1) = len
  <1> DEFINE N == NumOctets * OctetBits
  <1>1. N \in Nat /\ ((NumOctets + 1) - 1) * OctetBits = N
    BY WidthAssumption
  <1>2. len \in 0 .. N
    OBVIOUS
  <1>3. SoFar(len, NumOctets + 1) = IF len <= N THEN len ELSE N
    BY <1>1 DEF SoFar
  <1> HIDE DEF N
  <1> QED
    BY <1>1, <1>2, <1>3

LEMMA AgreeOnOctet ==
  ASSUME NEW e, NEW a, NEW o \in 1 .. NumOctets, NEW c \in 0 .. OctetBits,
         Agree(e, a, (o - 1) * OctetBits)
  PROVE  Agree(e, a, (o - 1) * OctetBits + c)
           <=> \A b \in 1 .. c : a[o][b] = e.destination_addr[o][b]
  <1> DEFINE base == (o - 1) * OctetBits
  <1>1. base \in Nat /\ c \in Nat /\ 1 .. c \subseteq Bit
    BY WidthAssumption DEF Bit
  <1>2. ASSUME NEW b \in 1 .. c
        PROVE  /\ At(a, base + b) = a[o][b]
               /\ At(e.destination_addr, base + b) = e.destination_addr[o][b]
    <2>1. OctetOf(base + b) = o /\ BitOf(base + b) = b
      BY <1>1, PlaceOfBit
    <2> QED
      BY <2>1 DEF At
  <1>3. Agree(e, a, base)
    OBVIOUS
  <1> HIDE DEF base
  <1>4. ASSUME Agree(e, a, base + c), NEW b \in 1 .. c
        PROVE  a[o][b] = e.destination_addr[o][b]
    <2>1. base + b \in 1 .. (base + c)
      BY <1>1
    <2> QED
      BY <1>2, <1>4, <2>1 DEF Agree
  <1>5. ASSUME \A b \in 1 .. c : a[o][b] = e.destination_addr[o][b]
        PROVE  Agree(e, a, base + c)
    <2> SUFFICES ASSUME NEW n \in 1 .. (base + c)
                 PROVE  At(a, n) = At(e.destination_addr, n)
      BY DEF Agree
    <2>1. CASE n <= base
      <3>1. n \in 1 .. base
        BY <1>1, <2>1
      <3> QED
        BY <1>3, <3>1 DEF Agree
    <2>2. CASE n > base
      <3>1. PICK b \in 1 .. c : n = base + b
        <4>1. n - base \in 1 .. c /\ n = base + (n - base)
          BY <1>1, <2>2
        <4> QED
          BY <4>1
      <3> QED
        BY <1>2, <1>5, <3>1
    <2> QED
      BY <1>1, <2>1, <2>2
  <1> QED
    BY <1>4, <1>5 DEF base

LEMMA AgreeLess ==
  ASSUME NEW e, NEW a, NEW m \in Nat, NEW n \in Nat, m <= n, Agree(e, a, n)
  PROVE  Agree(e, a, m)
  BY DEF Agree

LEMMA AgreeAll ==
  ASSUME NEW e, NEW a
  PROVE  Covers(e, a) <=> Agree(e, a, Length(e))
  BY DEF Covers, Agree

-----------------------------------------------------------------------------
(***************************************************************************)
(* Each step of lookUp preserves the invariant.                            *)
(***************************************************************************)
LEMMA FirstOctetStep == LookUpInv /\ FirstOctet => LookUpInv'
  <1> SUFFICES ASSUME LookUpInv, FirstOctet
               PROVE  LookUpInv'
    OBVIOUS
  <1>1. /\ pc = "entry" /\ i <= Len(routingTable) /\ matchCount' = 0
        /\ tBits' = 0 /\ j' = 1 /\ pc' = "octet"
        /\ routingTable' = routingTable /\ destinationAddr' = destinationAddr
        /\ i' = i /\ longestMatch' = longestMatch
        /\ longestMatchEntry' = longestMatchEntry
    BY DEF FirstOctet, FreshSums
  <1>2. TableTypes'
    BY <1>1 DEF LookUpInv, TableTypes
  <1>3. i \in DOMAIN routingTable
    <2>1. routingTable \in Tables /\ i \in Nat \ {0}
      BY DEF LookUpInv, TableTypes
    <2>2. routingTable \in Seq(Entry)
      BY <2>1, TablesAssumption
    <2> QED
      BY <1>1, <2>1, <2>2
  <1>4. SumsRight'
    <2> DEFINE e == routingTable[i]
    <2>1. Length(e) \in 0 .. (NumOctets * OctetBits)
      BY <1>3, EntryOfTable DEF LookUpInv, TableTypes
    <2>2. SoFar(Length(e), 1) = 0
      <3> HIDE DEF e
      <3>1. (1 - 1) * OctetBits = 0 /\ NumOctets * OctetBits \in Nat
        BY WidthAssumption
      <3> QED
        BY <2>1, <3>1 DEF SoFar
    <2>3. Agree(e, destinationAddr, 0)
      BY DEF Agree
    <2>4. 1 \in 1 .. (NumOctets + 1)
      BY WidthAssumption
    <2> QED
      BY <1>1, <1>3, <2>2, <2>3, <2>4 DEF SumsRight
  <1>5. KeptRight'
    BY <1>1 DEF LookUpInv, KeptRight, Seen, Covering
  <1> QED
    BY <1>2, <1>4, <1>5 DEF LookUpInv

LEMMA MaskEndsStep == LookUpInv /\ MaskEnds => LookUpInv'
  <1> SUFFICES ASSUME LookUpInv, MaskEnds
               PROVE  LookUpInv'
    OBVIOUS
  <1>1. /\ pc = "octet" /\ ~ MaskGoesOn /\ pc' = "compare"
        /\ routingTable' = routingTable /\ destinationAddr' = destinationAddr
        /\ i' = i /\ j' = j /\ tBits' = tBits /\ matchCount' = matchCount
        /\ longestMatch' = longestMatch
        /\ longestMatchEntry' = longestMatchEntry
    BY DEF MaskEnds
  <1>2. TableTypes'
    BY <1>1 DEF LookUpInv, TableTypes
  <1> DEFINE e == routingTable[i]
             len == Length(e)
  <1>3. /\ i \in DOMAIN routingTable /\ j \in 1 .. (NumOctets + 1)
        /\ tBits = SoFar(len, j) /\ matchCount = tBits
        /\ Agree(e, destinationAddr, tBits)
        /\ routingTable \in Tables /\ destinationAddr \in Address
    BY <1>1 DEF LookUpInv, SumsRight, TableTypes
  <1>4. len \in 0 .. (NumOctets * OctetBits)
    BY <1>3, EntryOfTable
  <1>5. SoFar(len, j) = len
    <2>1. CASE j = NumOctets + 1
      BY <1>4, <2>1, MaskIsDone
    <2>2. CASE j # NumOctets + 1
      <3>1. j \in 1 .. NumOctets
        BY <1>3, <2>2, WidthAssumption
      <3>2. ~ (countMaskBits(Mask) > 0)
        BY <1>1, <3>1 DEF MaskGoesOn
      <3>3. /\ countMaskBits(Mask) = Reach(len, j)
            /\ countMaskBits(Mask) \in 0 .. OctetBits
        BY <1>3, <3>1, ZeroBitsOfOctet
      <3>4. Reach(len, j) = 0
        BY <3>2, <3>3, WidthAssumption
      <3> HIDE DEF len
      <3> QED
        BY <1>4, <3>1, <3>4, OneMoreOctet
    <2> QED
      BY <2>1, <2>2
  <1>6. Covers(e, destinationAddr) /\ matchCount = len
    BY <1>3, <1>5, AgreeAll
  <1>7. SumsRight'
    BY <1>1, <1>3, <1>6 DEF SumsRight
  <1>8. KeptRight'
    BY <1>1 DEF LookUpInv, KeptRight, Seen, Covering
  <1> QED
    BY <1>2, <1>7, <1>8 DEF LookUpInv

LEMMA MatchOctetStep == LookUpInv /\ MatchOctet => LookUpInv'
  <1> SUFFICES ASSUME LookUpInv, MatchOctet
               PROVE  LookUpInv'
    OBVIOUS
  <1> DEFINE e == routingTable[i]
             len == Length(e)
             c == countMaskBits(Mask)
             z == ZeroBits(c)
             base == (j - 1) * OctetBits
  <1>1. /\ pc = "octet" /\ MaskGoesOn
        /\ routingTable' = routingTable /\ destinationAddr' = destinationAddr
        /\ i' = i /\ tBits' = tBits + c
        /\ longestMatch' = longestMatch
        /\ longestMatchEntry' = longestMatchEntry
        /\ \/ /\ matchCount + z = tBits + c /\ matchCount' = matchCount + z
              /\ j' = j + 1 /\ pc' = "octet"
           \/ /\ matchCount + z # tBits + c /\ matchCount' = 0
              /\ j' = j /\ pc' = "compare"
    BY DEF MatchOctet
  <1>2. TableTypes'
    BY <1>1 DEF LookUpInv, TableTypes
  <1>3. /\ i \in DOMAIN routingTable /\ j \in 1 .. (NumOctets + 1)
        /\ tBits = SoFar(len, j) /\ matchCount = tBits
        /\ Agree(e, destinationAddr, tBits)
        /\ routingTable \in Tables /\ destinationAddr \in Address
    BY <1>1 DEF LookUpInv, SumsRight, TableTypes
  <1>4. len \in 0 .. (NumOctets * OctetBits)
    BY <1>3, EntryOfTable
  <1>5. j \in 1 .. NumOctets /\ c > 0
    BY <1>1, <1>3, WidthAssumption DEF MaskGoesOn
  <1>6. /\ c = Reach(len, j) /\ c \in 0 .. OctetBits
        /\ z \in 0 .. c
        /\ z = c <=> \A b \in 1 .. c :
                       destinationAddr[j][b] = e.destination_addr[j][b]
    BY <1>3, <1>5, ZeroBitsOfOctet
  <1> HIDE DEF z, c
  <1>7. /\ SoFar(len, j) = base
        /\ SoFar(len, j + 1) = base + c
        /\ base + c <= len
        /\ base \in Nat
    <2> HIDE DEF len
    <2>1. Reach(len, j) # 0
      BY <1>5, <1>6, WidthAssumption
    <2> QED
      BY <1>4, <1>5, <1>6, <2>1, OneMoreOctet
  <1>8. Agree(e, destinationAddr, base + c)
          <=> \A b \in 1 .. c :
                destinationAddr[j][b] = e.destination_addr[j][b]
    <2>1. Agree(e, destinationAddr, base)
      BY <1>3, <1>7
    <2> QED
      BY <1>5, <1>6, <2>1, AgreeOnOctet
  <1>9. /\ c \in Nat /\ z \in Nat /\ tBits = base /\ matchCount = base
        /\ len \in Nat
    <2>1. OctetBits \in Nat /\ NumOctets * OctetBits \in Nat
      BY WidthAssumption
    <2> HIDE DEF len
    <2> QED
      BY <1>3, <1>4, <1>6, <1>7, <2>1
  <1>10. SumsRight'
    <2>1. CASE matchCount + z = tBits + c
      <3>1. z = c
        BY <1>7, <1>9, <2>1
      <3>2. /\ matchCount' = base + c /\ tBits' = base + c
            /\ j' = j + 1 /\ pc' = "octet"
        BY <1>1, <1>9, <2>1, <3>1
      <3>3. Agree(e, destinationAddr, base + c)
        BY <1>6, <1>8, <3>1
      <3>4. j + 1 \in 1 .. (NumOctets + 1)
        BY <1>5, WidthAssumption
      <3> QED
        BY <1>1, <1>3, <1>7, <3>2, <3>3, <3>4 DEF SumsRight
    <2>2. CASE matchCount + z # tBits + c
      <3>1. z # c
        BY <1>9, <2>2
      <3>2. ~ Agree(e, destinationAddr, base + c)
        BY <1>6, <1>8, <3>1
      <3>3. ~ Covers(e, destinationAddr)
        <4> SUFFICES ASSUME Agree(e, destinationAddr, len) PROVE FALSE
          BY AgreeAll
        <4>1. base + c \in Nat
          BY <1>7, <1>9
        <4> HIDE DEF len, base, e
        <4> QED
          BY <1>7, <1>9, <3>2, <4>1, AgreeLess
      <3>4. matchCount' = 0 /\ pc' = "compare"
        BY <1>1, <2>2
      <3> QED
        BY <1>1, <1>3, <3>3, <3>4 DEF SumsRight
    <2> QED
      BY <2>1, <2>2
  <1>11. KeptRight'
    BY <1>1 DEF LookUpInv, KeptRight, Seen, Covering
  <1> QED
    BY <1>2, <1>10, <1>11 DEF LookUpInv

LEMMA KeepLongestStep == LookUpInv /\ KeepLongest => LookUpInv'
  <1> SUFFICES ASSUME LookUpInv, KeepLongest
               PROVE  LookUpInv'
    OBVIOUS
  <1> DEFINE e == routingTable[i]
             len == Length(e)
             covering == Covering(destinationAddr)
  <1>1. /\ pc = "compare" /\ pc' = "entry" /\ i' = i + 1
        /\ routingTable' = routingTable /\ destinationAddr' = destinationAddr
        /\ \/ /\ matchCount > longestMatch
              /\ longestMatch' = matchCount /\ longestMatchEntry' = i
           \/ /\ ~ (matchCount > longestMatch)
              /\ longestMatch' = longestMatch
              /\ longestMatchEntry' = longestMatchEntry
    BY DEF KeepLongest
  <1>2. TableTypes'
    BY <1>1 DEF LookUpInv, TableTypes
  <1>3. SumsRight'
    BY <1>1 DEF SumsRight
  <1>4. /\ i \in DOMAIN routingTable /\ routingTable \in Tables
        /\ matchCount = IF Covers(e, destinationAddr) THEN len ELSE 0
        /\ i \in Nat \ {0}
    BY <1>1 DEF LookUpInv, SumsRight, TableTypes
  <1>5. \A k \in DOMAIN routingTable : Length(routingTable[k]) \in Nat
    <2> TAKE k \in DOMAIN routingTable
    <2>1. NumOctets * OctetBits \in Nat
      BY WidthAssumption
    <2>2. Length(routingTable[k]) \in 0 .. (NumOctets * OctetBits)
      BY <1>4, EntryOfTable
    <2> QED
      BY <2>1, <2>2
  <1>6. DOMAIN routingTable \subseteq Nat
    BY <1>4, TablesAssumption
  <1>7. covering = {k \in DOMAIN routingTable :
                      /\ Length(routingTable[k]) > 0
                      /\ Covers(routingTable[k], destinationAddr)}
    BY DEF Covering
  <1>8. Seen' = {k \in covering : k < i + 1}
    BY <1>1 DEF Seen, Covering
  <1>9. Seen = {k \in covering : k < i}
    BY DEF Seen
  <1>10. Seen' = IF matchCount > 0 THEN Seen \cup {i} ELSE Seen
    <2>1. covering \subseteq Nat
      BY <1>6, <1>7
    <2>2. i \in covering <=> matchCount > 0
      BY <1>4, <1>5, <1>7
    <2> HIDE DEF covering
    <2>3. \A k \in covering : k < i + 1 <=> k < i \/ k = i
      BY <1>4, <2>1
    <2>4. Seen' = {k \in covering : k < i \/ k = i}
      BY <1>8, <2>3
    <2>5. CASE matchCount > 0
      BY <1>9, <2>2, <2>4, <2>5
    <2>6. CASE ~ (matchCount > 0)
      BY <1>9, <2>2, <2>4, <2>6
    <2> QED
      BY <2>5, <2>6
  <1>11. i \in covering => matchCount = len
    BY <1>4, <1>7
  <1>12. matchCount > 0 => i \in covering
    BY <1>4, <1>5, <1>7
  <1>13. \A k \in Seen : k \in DOMAIN routingTable /\ k \in Nat /\ k < i
                         /\ Length(routingTable[k]) \in Nat
                         /\ Length(routingTable[k]) > 0
    BY <1>5, <1>6, <1>7, <1>9
  <1>14. /\ Seen = {} => longestMatch = 0
         /\ Seen # {} =>
              /\ longestMatchEntry \in Seen
              /\ longestMatch = Length(routingTable[longestMatchEntry])
              /\ \A m \in Seen :
                   \/ Length(routingTable[m]) < longestMatch
                   \/ /\ Length(routingTable[m]) = longestMatch
                      /\ longestMatchEntry <= m
    BY <1>1 DEF LookUpInv, KeptRight
  <1>15. longestMatch \in Nat /\ matchCount \in Nat /\ len \in Nat
    BY <1>4, <1>5, <1>13, <1>14
  <1> DEFINE S == Seen'
             lm == longestMatch'
             lme == longestMatchEntry'
  <1>16. /\ S = {} => lm = 0
         /\ S # {} =>
              /\ lme \in S
              /\ lm = Length(routingTable[lme])
              /\ \A m \in S : \/ Length(routingTable[m]) < lm
                              \/ Length(routingTable[m]) = lm /\ lme <= m
    <2>1. CASE matchCount > longestMatch
      <3>1. lm = matchCount /\ lme = i /\ S = Seen \cup {i} /\ matchCount = len
        BY <1>1, <1>10, <1>11, <1>12, <1>15, <2>1
      <3>2. \A m \in Seen : Length(routingTable[m]) <= longestMatch
        BY <1>13, <1>14, <1>15
      <3>3. \A m \in Seen : Length(routingTable[m]) < matchCount
        BY <1>13, <1>15, <2>1, <3>2
      <3> QED
        BY <1>4, <3>1, <3>3
    <2>2. CASE ~ (matchCount > longestMatch)
      <3>1. lm = longestMatch /\ lme = longestMatchEntry
        BY <1>1, <2>2
      <3>2. CASE matchCount > 0
        <4>1. S = Seen \cup {i} /\ matchCount = len
          BY <1>10, <1>11, <1>12, <3>2
        <4>2. longestMatch > 0
          BY <1>15, <2>2, <3>2
        <4>3. Seen # {}
          BY <1>14, <4>2
        <4>4. longestMatchEntry < i /\ longestMatchEntry \in Nat
          BY <1>13, <1>14, <4>3
        <4>5. len < longestMatch \/ (len = longestMatch /\ longestMatchEntry <= i)
          BY <1>4, <1>15, <2>2, <4>1, <4>4
        <4> QED
          BY <1>14, <3>1, <4>1, <4>3, <4>5
      <3>3. CASE ~ (matchCount > 0)
        <4>1. S = Seen
          BY <1>10, <3>3
        <4> HIDE DEF S, lm, lme
        <4> QED
          BY <1>14, <3>1, <4>1
      <3> QED
        BY <3>2, <3>3
    <2> QED
      BY <2>1, <2>2
  <1>17. KeptRight'
    BY <1>1, <1>16 DEF KeptRight
  <1> QED
    BY <1>2, <1>3, <1>17 DEF LookUpInv

(***************************************************************************)
(* What lookUp returns is the longest match.                               *)
(***************************************************************************)
LEMMA ReturnStep ==
  LookUpInv /\ Return => LookUpInv' /\ Longest(found, destinationAddr)'
  <1> SUFFICES ASSUME LookUpInv, Return
               PROVE  LookUpInv' /\ Longest(found, destinationAddr)'
    OBVIOUS
  <1>1. /\ pc = "entry" /\ pc' = "done" /\ i > Len(routingTable)
        /\ routingTable' = routingTable /\ destinationAddr' = destinationAddr
        /\ i' = i
        /\ found' = IF longestMatch = 0 THEN Len(routingTable)
                    ELSE longestMatchEntry
    BY DEF Return
  <1>2. LookUpInv'
    BY <1>1 DEF LookUpInv, TableTypes, SumsRight, KeptRight
  <1> DEFINE covering == Covering(destinationAddr)
  <1>3. routingTable \in Tables /\ i \in Nat
    BY DEF LookUpInv, TableTypes
  <1>4. DOMAIN routingTable = 1 .. Len(routingTable) /\ Len(routingTable) \in Nat
    BY <1>3, TablesAssumption
  <1>5. covering = {k \in DOMAIN routingTable :
                      /\ Length(routingTable[k]) > 0
                      /\ Covers(routingTable[k], destinationAddr)}
    BY DEF Covering
  <1>6. Seen = covering
    <2>1. \A k \in covering : k < i
      BY <1>1, <1>3, <1>4, <1>5
    <2> QED
      BY <2>1 DEF Seen
  <1>7. /\ covering = {} => longestMatch = 0
        /\ covering # {} =>
              /\ longestMatchEntry \in covering
              /\ longestMatch = Length(routingTable[longestMatchEntry])
              /\ \A m \in covering :
                   \/ Length(routingTable[m]) < longestMatch
                   \/ /\ Length(routingTable[m]) = longestMatch
                      /\ longestMatchEntry <= m
    BY <1>1, <1>6 DEF LookUpInv, KeptRight
  <1>8. covering # {} => longestMatch # 0
    BY <1>5, <1>7
  <1>9. Longest(found', destinationAddr)
    <2>1. CASE covering = {}
      BY <1>1, <1>7, <2>1 DEF Longest
    <2>2. CASE covering # {}
      <3>1. found' = longestMatchEntry
        BY <1>1, <1>8, <2>2
      <3> QED
        BY <1>7, <2>2, <3>1 DEF Longest
    <2> QED
      BY <2>1, <2>2
  <1>10. Longest(found, destinationAddr)'
    BY <1>1, <1>9 DEF Longest, Covering
  <1> QED
    BY <1>2, <1>10

LEMMA CallStep ==
  ASSUME NEW a \in Address, LookUpInv, Call(a)
  PROVE  LookUpInv'
  <1>1. /\ pc' = "entry" /\ destinationAddr' = a /\ i' = 1
        /\ longestMatch' = 0 /\ routingTable' = routingTable
    BY DEF Call
  <1>2. TableTypes' /\ SumsRight'
    BY <1>1 DEF LookUpInv, TableTypes, SumsRight
  <1>3. Seen' = {}
    <2>1. routingTable \in Tables
      BY DEF LookUpInv, TableTypes
    <2>2. DOMAIN routingTable = 1 .. Len(routingTable)
          /\ Len(routingTable) \in Nat
      BY <2>1, TablesAssumption
    <2> QED
      BY <1>1, <2>2 DEF Seen, Covering
  <1> QED
    BY <1>1, <1>2, <1>3 DEF LookUpInv, KeptRight

LEMMA NoLookUpStep == LookUpInv /\ UNCHANGED tableVars => LookUpInv'
  BY DEF LookUpInv, TableTypes, SumsRight, KeptRight, Seen, Covering, tableVars

-----------------------------------------------------------------------------
(***************************************************************************)
(* Size and Longest, of a given input and a given table.                   *)
(***************************************************************************)
SizeIn(x, o) == IF x.pSize > 0 THEN x.pSize ELSE x.header[o].total_length

LongestIn(t, k, a) ==
  LET covering == {m \in DOMAIN t : Length(t[m]) > 0 /\ Covers(t[m], a)}
  IN  IF covering = {} THEN k = Len(t)
      ELSE /\ k \in covering
           /\ \A m \in covering :
                \/ Length(t[m]) < Length(t[k])
                \/ Length(t[m]) = Length(t[k]) /\ k <= m

(***************************************************************************)
(* Where the packet after those given to the fabric starts, and where the  *)
(* first packet of the queue does.                                         *)
(***************************************************************************)
After(x, s) ==
  IF s = << >> THEN 0 ELSE s[Len(s)][1] + SizeIn(x, s[Len(s)][1])

QueueStart ==
  IF inpPc = "lookUp" THEN packet + SizeIn(input, packet)
  ELSE After(input, switched)

AdaptorTypes ==
  /\ input \in Inputs
  /\ routingTable = input.table
  /\ inpPc \in {"load", "run", "lookUp", "end"}
  /\ offset \in Nat
  /\ inpQueue \in Seq(Nat)
  /\ num_input_packets \in Nat
  /\ processedPackets \in Nat
  /\ packet \in Nat
  /\ switched \in Seq(Nat \X Nat)

(***************************************************************************)
(* While a packet is looked up, it is that packet's destination.           *)
(***************************************************************************)
OwnLookUp ==
  IF inpPc = "lookUp"
  THEN /\ packet \in DOMAIN input.header
       /\ destinationAddr = input.header[packet].destination_addr
       /\ pc = "done" => LongestIn(routingTable, found, destinationAddr)
  ELSE pc = "done"

(***************************************************************************)
(* The packets given to the fabric, the one in hand and those in the queue *)
(* follow one another, and the file goes on behind the last.               *)
(***************************************************************************)
SwitchedInOrder ==
  \A k \in 1 .. Len(switched) :
    LET start == switched[k][1]
    IN  /\ k = 1 => start = 0
        /\ k > 1 => start = switched[k - 1][1]
                              + SizeIn(input, switched[k - 1][1])
        /\ LongestIn(routingTable, switched[k][2],
                     input.header[start].destination_addr)

QueueInOrder ==
  \A k \in 1 .. Len(inpQueue) :
    /\ inpQueue[k] \in DOMAIN input.header
    /\ k > 1 => inpQueue[k] = inpQueue[k - 1] + SizeIn(input, inpQueue[k - 1])

PartsMeet ==
  /\ inpPc = "lookUp" => packet = After(input, switched)
  /\ inpQueue = << >> => offset = QueueStart
  /\ inpQueue # << >> =>
       /\ inpQueue[1] = QueueStart
       /\ offset = inpQueue[Len(inpQueue)]
                     + SizeIn(input, inpQueue[Len(inpQueue)])
  /\ inpPc = "load" => switched = << >>
  /\ inpPc # "load" => offset >= input.size
  /\ inpPc = "end" => inpQueue = << >>

(***************************************************************************)
(* While a file is cut by a fixed size, every packet but the last is whole.*)
(***************************************************************************)
Counts ==
  /\ inpPc = "load" => processedPackets = 0
  /\ FixedSize =>
       /\ num_input_packets = input.size \div input.pSize
       /\ inpPc = "load" =>
            /\ offset = Len(inpQueue) * input.pSize
            /\ inpQueue # << >> => offset < input.size + input.pSize
  /\ ~ FixedSize /\ inpPc = "load" => num_input_packets = Len(inpQueue)
  /\ CountsAllButTheRest

AdaptorInv ==
  /\ AdaptorTypes /\ LookUpInv /\ OwnLookUp
  /\ SwitchedInOrder /\ QueueInOrder /\ PartsMeet /\ Counts

-----------------------------------------------------------------------------
LEMMA InputFacts ==
  ASSUME NEW x \in Inputs
  PROVE  /\ x.table \in Tables /\ x.size \in Nat /\ x.pSize \in Int
         /\ DOMAIN x.header = 0 .. (x.size - 1)
         /\ DOMAIN x.header \subseteq Nat
         /\ \A o \in DOMAIN x.header :
              /\ SizeIn(x, o) \in Nat
              /\ x.header[o].destination_addr \in Address
  <1>1. /\ x.table \in Tables /\ x.size \in Nat /\ x.pSize \in Int
        /\ DOMAIN x.header = 0 .. (x.size - 1)
        /\ \A o \in DOMAIN x.header : x.header[o] \in Header
    BY InputsAssumption
  <1>2. \A o \in DOMAIN x.header :
          /\ x.header[o].total_length \in Nat
          /\ x.header[o].destination_addr \in Address
    BY <1>1 DEF Header
  <1> QED
    BY <1>1, <1>2 DEF SizeIn

LEMMA SizesAgree ==
  /\ \A o : Size(o) = SizeIn(input, o)
  /\ PacketSize = SizeIn(input, offset)
  /\ \A k, a : Longest(k, a) <=> LongestIn(routingTable, k, a)
  BY DEF Size, PacketSize, SizeIn, FixedSize, Longest, LongestIn, Covering

LEMMA LongestIsEntry ==
  ASSUME NEW t \in Tables, NEW k, NEW a, LongestIn(t, k, a)
  PROVE  k \in Nat
  <1>1. t \in Seq(Entry)
    BY TablesAssumption
  <1>2. DOMAIN t \subseteq Nat /\ Len(t) \in Nat
    BY <1>1
  <1> QED
    BY <1>2 DEF LongestIn

LEMMA AdaptorInvInit == Init => AdaptorInv
  <1> SUFFICES ASSUME Init PROVE AdaptorInv
    OBVIOUS
  <1>1. /\ input \in Inputs /\ routingTable = input.table /\ inpPc = "load"
        /\ offset = 0 /\ inpQueue = << >> /\ processedPackets = 0
        /\ packet = 0 /\ switched = << >> /\ pc = "done" /\ i = 1
        /\ num_input_packets = IF FixedSize THEN input.size \div input.pSize
                               ELSE 0
    BY DEF Init, TableInit
  <1>2. input.table \in Tables /\ input.size \in Nat /\ input.pSize \in Int
    BY <1>1, InputFacts
  <1>3. num_input_packets \in Nat
    <2>1. CASE FixedSize
      <3>1. input.pSize \in Nat \ {0}
        BY <1>2, <2>1 DEF FixedSize
      <3>2. input.size \div input.pSize \in Nat
        BY <1>2, <3>1
      <3> QED
        BY <1>1, <2>1, <3>2
    <2>2. CASE ~ FixedSize
      BY <1>1, <2>2
    <2> QED
      BY <2>1, <2>2
  <1>4. AdaptorTypes
    BY <1>1, <1>3 DEF AdaptorTypes
  <1>5. LookUpInv
    BY <1>1, <1>2 DEF LookUpInv, TableTypes, SumsRight, KeptRight
  <1>6. OwnLookUp /\ SwitchedInOrder /\ QueueInOrder /\ PartsMeet
    BY <1>1 DEF OwnLookUp, SwitchedInOrder, QueueInOrder, PartsMeet,
                QueueStart, After
  <1>7. Counts
    <2>1. FixedSize => 0 * input.pSize = 0
      BY <1>2
    <2> QED
      BY <1>1, <2>1 DEF Counts, CountsAllButTheRest
  <1> QED
    BY <1>4, <1>5, <1>6, <1>7 DEF AdaptorInv

(***************************************************************************)
(* loadQueue.                                                              *)
(***************************************************************************)
LEMMA LoadPacketStep == AdaptorInv /\ LoadPacket => AdaptorInv'
  <1> SUFFICES ASSUME AdaptorInv, LoadPacket
               PROVE  AdaptorInv'
    OBVIOUS
  <1> DEFINE q == inpQueue
             n == Len(inpQueue)
             size == SizeIn(input, offset)
  <1>1. /\ inpPc = "load" /\ offset < input.size
        /\ inpQueue' = Append(q, offset)
        /\ offset' = offset + size
        /\ num_input_packets' = num_input_packets
                                  + IF FixedSize THEN 0 ELSE 1
        /\ UNCHANGED << tableVars, input, inpPc, processedPackets, packet,
                        switched >>
    BY SizesAgree DEF LoadPacket, FileGoesOn
  <1>2. routingTable' = routingTable /\ pc' = pc
    BY <1>1 DEF tableVars
  <1>3. /\ input \in Inputs /\ offset \in Nat /\ q \in Seq(Nat) /\ n \in Nat
        /\ num_input_packets \in Nat
    BY DEF AdaptorInv, AdaptorTypes
  <1>4. offset \in DOMAIN input.header /\ size \in Nat /\ input.size \in Nat
    BY <1>1, <1>3, InputFacts
  <1>5. /\ inpQueue' \in Seq(Nat) /\ Len(inpQueue') = n + 1
        /\ inpQueue'[n + 1] = offset
        /\ \A k \in 1 .. n : inpQueue'[k] = q[k]
        /\ inpQueue' # << >>
    BY <1>1, <1>3
  <1> HIDE DEF n, size
  <1>6. AdaptorTypes'
    <2>1. num_input_packets' \in Nat /\ offset' \in Nat
      BY <1>1, <1>3, <1>4
    <2> QED
      BY <1>1, <1>2, <1>5, <2>1 DEF AdaptorInv, AdaptorTypes
  <1>7. LookUpInv'
    BY <1>1, NoLookUpStep DEF AdaptorInv
  <1>8. OwnLookUp'
    BY <1>1, <1>2 DEF AdaptorInv, OwnLookUp
  <1>9. SwitchedInOrder'
    BY <1>1, <1>2 DEF AdaptorInv, SwitchedInOrder
  <1>10. /\ q = << >> => offset = QueueStart
         /\ q # << >> => /\ q[1] = QueueStart
                         /\ offset = q[n] + SizeIn(input, q[n])
    BY DEF AdaptorInv, PartsMeet, n
  <1>11. QueueInOrder'
    <2> SUFFICES ASSUME NEW k \in 1 .. (n + 1)
                 PROVE  /\ inpQueue'[k] \in DOMAIN input.header
                        /\ k > 1 => inpQueue'[k]
                             = inpQueue'[k - 1] + SizeIn(input, inpQueue'[k - 1])
      BY <1>1, <1>5 DEF QueueInOrder
    <2>1. CASE k \in 1 .. n
      <3>1. /\ q[k] \in DOMAIN input.header
            /\ k > 1 => q[k] = q[k - 1] + SizeIn(input, q[k - 1])
        BY <2>1 DEF AdaptorInv, QueueInOrder, n
      <3>2. k > 1 => k - 1 \in 1 .. n
        BY <1>3, <2>1
      <3> QED
        BY <1>5, <2>1, <3>1, <3>2
    <2>2. CASE k = n + 1
      <3>1. k > 1 => n \in 1 .. n /\ q # << >> /\ k - 1 = n
        BY <1>3, <2>2 DEF n
      <3> QED
        BY <1>4, <1>5, <1>10, <2>2, <3>1
    <2> QED
      BY <1>3, <2>1, <2>2
  <1>12. PartsMeet'
    <2>1. QueueStart' = QueueStart
      BY <1>1 DEF QueueStart
    <2>2. inpQueue'[1] = QueueStart
      <3>1. CASE q = << >>
        <4>1. n = 0
          BY <3>1 DEF n
        <4> QED
          BY <1>5, <1>10, <3>1, <4>1
      <3>2. CASE q # << >>
        <4>1. 1 \in 1 .. n
          BY <1>3, <3>2 DEF n
        <4> QED
          BY <1>5, <1>10, <3>2, <4>1
      <3> QED
        BY <3>1, <3>2
    <2>3. offset' = inpQueue'[Len(inpQueue')]
                      + SizeIn(input, inpQueue'[Len(inpQueue')])
      BY <1>1, <1>5 DEF size
    <2> QED
      BY <1>1, <1>5, <2>1, <2>2, <2>3 DEF AdaptorInv, PartsMeet
  <1>13. Counts'
    <2>1. /\ inpPc' = "load" /\ input' = input
          /\ processedPackets' = processedPackets
          /\ FixedSize' = FixedSize
      BY <1>1 DEF FixedSize
    <2>2. CountsAllButTheRest'
      BY <2>1 DEF CountsAllButTheRest
    <2>3. CASE FixedSize
      <3>1. /\ num_input_packets' = num_input_packets
            /\ offset' = offset + input.pSize
            /\ input.pSize \in Int
        BY <1>1, <1>3, <1>4, <2>3, InputFacts DEF SizeIn, FixedSize, size
      <3>2. offset = n * input.pSize
        BY <1>1, <2>3 DEF AdaptorInv, Counts, n
      <3>3. (n + 1) * input.pSize = n * input.pSize + input.pSize
        <4> DEFINE p == input.pSize
        <4>1. p \in Int /\ n \in Nat
          BY <1>3, <3>1 DEF n
        <4> HIDE DEF p
        <4>2. (n + 1) * p = n * p + p
          BY ONLY <4>1
        <4> QED
          BY <4>2 DEF p
      <3>4. offset' = Len(inpQueue') * input.pSize
        BY <1>5, <3>1, <3>2, <3>3
      <3>5. offset' < input.size + input.pSize
        BY <1>1, <1>3, <1>4, <3>1
      <3> QED
        BY <1>1, <2>1, <2>2, <2>3, <3>1, <3>4, <3>5 DEF AdaptorInv, Counts
    <2>4. CASE ~ FixedSize
      <3>1. num_input_packets = n
        BY <1>1, <2>4 DEF AdaptorInv, Counts, n
      <3>2. num_input_packets' = Len(inpQueue')
        BY <1>1, <1>5, <2>4, <3>1
      <3> QED
        BY <1>1, <2>1, <2>2, <2>4, <3>2 DEF AdaptorInv, Counts
    <2> QED
      BY <2>3, <2>4
  <1> QED
    BY <1>6, <1>7, <1>8, <1>9, <1>11, <1>12, <1>13 DEF AdaptorInv

(***************************************************************************)
(* The packets a fixed size cuts a file into.                              *)
(***************************************************************************)
LEMMA WholeAndRest ==
  ASSUME NEW s \in Nat, NEW p \in Nat \ {0}, NEW n \in Nat,
         n * p >= s, n # 0 => n * p < s + p
  PROVE  n = (s \div p) + (IF s % p # 0 THEN 1 ELSE 0)
  <1> DEFINE d == s \div p
             r == s % p
  <1>1. d \in Nat /\ r \in 0 .. (p - 1) /\ s = p * d + r
    OBVIOUS
  <1> HIDE DEF d, r
  <1>2. p * d = d * p /\ d * p \in Nat /\ n * p \in Nat
    BY <1>1
  <1>3. CASE r = 0
    <2>1. n * p >= d * p /\ (n # 0 => n * p < d * p + p)
      BY <1>1, <1>2, <1>3
    <2>2. ~ (n < d)
      <3> SUFFICES ASSUME n < d PROVE FALSE
        OBVIOUS
      <3>1. (n + 1) * p <= d * p
        BY <1>1
      <3>2. (n + 1) * p = n * p + p
        OBVIOUS
      <3> QED
        BY <1>2, <2>1, <3>1, <3>2
    <2>3. ~ (n > d)
      <3> SUFFICES ASSUME n > d PROVE FALSE
        OBVIOUS
      <3>1. n # 0
        BY <1>1
      <3>2. (d + 1) * p <= n * p
        BY <1>1
      <3>3. (d + 1) * p = d * p + p
        BY <1>1
      <3> QED
        BY <1>2, <2>1, <3>1, <3>2, <3>3
    <2>4. n = d
      BY <1>1, <2>2, <2>3
    <2> QED
      BY <1>1, <1>3, <2>4 DEF d, r
  <1>4. CASE r # 0
    <2>1. n * p > d * p /\ (n # 0 => n * p < d * p + p + p)
      BY <1>1, <1>2, <1>4
    <2>2. ~ (n <= d)
      <3> SUFFICES ASSUME n <= d PROVE FALSE
        OBVIOUS
      <3>1. n * p <= d * p
        BY <1>1
      <3> QED
        BY <1>2, <2>1, <3>1
    <2>3. ~ (n > d + 1)
      <3> SUFFICES ASSUME n > d + 1 PROVE FALSE
        OBVIOUS
      <3>1. n # 0
        BY <1>1
      <3>2. (d + 2) * p <= n * p
        BY <1>1
      <3>3. (d + 2) * p = d * p + p + p
        BY <1>1
      <3> QED
        BY <1>2, <2>1, <3>1, <3>2, <3>3
    <2>4. n = d + 1
      BY <1>1, <2>2, <2>3
    <2> QED
      BY <1>1, <1>4, <2>4 DEF d, r
  <1> QED
    BY <1>3, <1>4

LEMMA LoadEndStep == AdaptorInv /\ LoadEnd => AdaptorInv'
  <1> SUFFICES ASSUME AdaptorInv, LoadEnd
               PROVE  AdaptorInv'
    OBVIOUS
  <1>1. /\ inpPc = "load" /\ ~ (offset < input.size) /\ inpPc' = "run"
        /\ UNCHANGED << tableVars, input, offset, inpQueue, num_input_packets,
                        processedPackets, packet, switched >>
    BY DEF LoadEnd, FileGoesOn
  <1>2. routingTable' = routingTable /\ pc' = pc
    BY <1>1 DEF tableVars
  <1>3. /\ input \in Inputs /\ offset \in Nat /\ Len(inpQueue) \in Nat
        /\ num_input_packets \in Nat
    BY DEF AdaptorInv, AdaptorTypes
  <1>4. input.size \in Nat /\ input.pSize \in Int
    BY <1>3, InputFacts
  <1>5. AdaptorTypes'
    BY <1>1, <1>2 DEF AdaptorInv, AdaptorTypes
  <1>6. LookUpInv'
    BY <1>1, NoLookUpStep DEF AdaptorInv
  <1>7. OwnLookUp' /\ SwitchedInOrder' /\ QueueInOrder'
    BY <1>1, <1>2
      DEF AdaptorInv, OwnLookUp, SwitchedInOrder, QueueInOrder
  <1>8. PartsMeet'
    <2>1. offset >= input.size
      BY <1>1, <1>3, <1>4
    <2> QED
      BY <1>1, <2>1 DEF AdaptorInv, PartsMeet, QueueStart
  <1>9. Counts'
    <2>1. FixedSize' = FixedSize /\ Rest' = Rest
      BY <1>1 DEF FixedSize, Rest
    <2>2. processedPackets = 0
      BY <1>1 DEF AdaptorInv, Counts
    <2>3. Len(inpQueue) = num_input_packets + Rest
      <3>1. CASE FixedSize
        <4> DEFINE n == Len(inpQueue)
                   s == input.size
                   p == input.pSize
        <4>1. p \in Nat \ {0} /\ s \in Nat /\ n \in Nat
          BY <1>3, <1>4, <3>1 DEF FixedSize
        <4>2. /\ offset = n * p
              /\ n # 0 => offset < s + p
              /\ num_input_packets = s \div p
          BY <1>1, <3>1 DEF AdaptorInv, Counts
        <4>3. offset >= s
          BY <1>1, <1>3, <1>4
        <4> HIDE DEF n, s, p
        <4>4. n = (s \div p) + (IF s % p # 0 THEN 1 ELSE 0)
          BY <4>1, <4>2, <4>3, WholeAndRest
        <4> QED
          BY <3>1, <4>2, <4>4 DEF Rest, n, s, p
      <3>2. CASE ~ FixedSize
        BY <1>1, <1>3, <3>2 DEF AdaptorInv, Counts, Rest
      <3> QED
        BY <3>1, <3>2
    <2>4. CountsAllButTheRest'
      <3>1. processedPackets + Len(inpQueue) + 0 = num_input_packets + Rest
        BY <1>3, <2>2, <2>3
      <3> QED
        BY <1>1, <2>1, <3>1 DEF CountsAllButTheRest
    <2>5. FixedSize => num_input_packets = input.size \div input.pSize
      BY DEF AdaptorInv, Counts
    <2> QED
      BY <1>1, <2>1, <2>4, <2>5 DEF Counts
  <1> QED
    BY <1>5, <1>6, <1>7, <1>8, <1>9 DEF AdaptorInv

(***************************************************************************)
(* borderRun.                                                              *)
(***************************************************************************)
LEMMA PopPacketStep == AdaptorInv /\ PopPacket => AdaptorInv'
  <1> SUFFICES ASSUME AdaptorInv, PopPacket
               PROVE  AdaptorInv'
    OBVIOUS
  <1> DEFINE q == inpQueue
             n == Len(inpQueue)
             a == input.header[packet'].destination_addr
  <1>1. /\ inpPc = "run" /\ inpPc' = "lookUp" /\ q # << >>
        /\ packet' = Head(q) /\ inpQueue' = Tail(q) /\ Call(a)
        /\ UNCHANGED << input, offset, num_input_packets, processedPackets,
                        switched >>
    BY DEF PopPacket
  <1>2. /\ routingTable' = routingTable /\ pc' = "entry"
        /\ destinationAddr' = a
    BY <1>1 DEF Call
  <1>3. /\ input \in Inputs /\ offset \in Nat /\ q \in Seq(Nat) /\ n \in Nat
        /\ num_input_packets \in Nat /\ processedPackets \in Nat
    BY DEF AdaptorInv, AdaptorTypes
  <1>4. /\ n # 0 /\ packet' = q[1] /\ packet' \in Nat
        /\ inpQueue' \in Seq(Nat) /\ Len(inpQueue') = n - 1
        /\ \A k \in 1 .. (n - 1) : inpQueue'[k] = q[k + 1]
    BY <1>1, <1>3
  <1>5. \A k \in 1 .. n :
          /\ q[k] \in DOMAIN input.header
          /\ k > 1 => q[k] = q[k - 1] + SizeIn(input, q[k - 1])
    BY DEF AdaptorInv, QueueInOrder
  <1>6. packet' \in DOMAIN input.header /\ a \in Address
    <2>1. packet' \in DOMAIN input.header
      BY <1>3, <1>4, <1>5
    <2> QED
      BY <1>3, <2>1, InputFacts
  <1> HIDE DEF a
  <1>7. AdaptorTypes'
    BY <1>1, <1>2, <1>4 DEF AdaptorInv, AdaptorTypes
  <1>8. LookUpInv'
    BY <1>1, <1>6, CallStep DEF AdaptorInv
  <1>9. OwnLookUp'
    BY <1>1, <1>2, <1>6 DEF OwnLookUp, a
  <1>10. SwitchedInOrder'
    BY <1>1, <1>2 DEF AdaptorInv, SwitchedInOrder
  <1> HIDE DEF n
  <1>11. /\ \A k \in 1 .. (n - 1) :
              inpQueue'[k] = q[k] + SizeIn(input, q[k])
         /\ \A k \in 1 .. (n - 1) : inpQueue'[k] \in DOMAIN input.header
    <2> SUFFICES ASSUME NEW k \in 1 .. (n - 1)
                 PROVE  /\ inpQueue'[k] = q[k] + SizeIn(input, q[k])
                        /\ inpQueue'[k] \in DOMAIN input.header
      OBVIOUS
    <2>1. /\ k + 1 \in 1 .. n /\ (k + 1) - 1 = k /\ k + 1 > 1
          /\ inpQueue'[k] = q[k + 1]
      BY <1>3, <1>4 DEF n
    <2> QED
      BY <1>5, <2>1
  <1>12. QueueInOrder'
    <2> SUFFICES ASSUME NEW k \in 1 .. (n - 1)
                 PROVE  /\ inpQueue'[k] \in DOMAIN input.header
                        /\ k > 1 => inpQueue'[k]
                             = inpQueue'[k - 1] + SizeIn(input, inpQueue'[k - 1])
      BY <1>1, <1>4 DEF QueueInOrder
    <2>1. k > 1 => k - 1 \in 1 .. (n - 1) /\ (k - 1) + 1 = k
      BY <1>3 DEF n
    <2> QED
      BY <1>4, <1>11, <2>1
  <1>13. PartsMeet'
    <2>1. /\ packet' = QueueStart /\ QueueStart = After(input, switched)
          /\ offset = q[n] + SizeIn(input, q[n])
          /\ offset >= input.size
      BY <1>1, <1>4 DEF AdaptorInv, PartsMeet, QueueStart, n
    <2>2. QueueStart' = packet' + SizeIn(input, packet')
      BY <1>1 DEF QueueStart
    <2>3. CASE n = 1
      <3>1. inpQueue' = << >>
        BY <1>4, <2>3
      <3>2. offset = QueueStart'
        BY <1>4, <2>1, <2>2, <2>3
      <3> QED
        BY <1>1, <2>1, <3>1, <3>2 DEF PartsMeet
    <2>4. CASE n # 1
      <3>1. 1 \in 1 .. (n - 1) /\ n - 1 \in 1 .. (n - 1) /\ (n - 1) + 1 = n
        BY <1>3, <1>4, <2>4 DEF n
      <3>2. inpQueue' # << >>
        BY <1>4, <3>1
      <3>3. inpQueue'[1] = QueueStart'
        BY <1>4, <1>11, <2>2, <3>1
      <3>4. inpQueue'[Len(inpQueue')] = q[n]
        BY <1>4, <3>1
      <3> QED
        BY <1>1, <2>1, <3>2, <3>3, <3>4 DEF PartsMeet
    <2> QED
      BY <2>3, <2>4
  <1>14. Counts'
    <2>1. FixedSize' = FixedSize /\ Rest' = Rest /\ Rest \in Nat
      BY <1>1 DEF FixedSize, Rest
    <2>2. processedPackets + n + 0 = num_input_packets + Rest
      BY <1>1 DEF AdaptorInv, Counts, CountsAllButTheRest, n
    <2>3. processedPackets' + Len(inpQueue') + 1 = num_input_packets + Rest
      <3>1. processedPackets' = processedPackets
        BY <1>1
      <3>2. n \in Nat
        BY <1>3 DEF n
      <3> QED
        BY <1>3, <1>4, <2>1, <2>2, <3>1, <3>2
    <2>4. CountsAllButTheRest'
      BY <1>1, <2>1, <2>3 DEF CountsAllButTheRest
    <2> QED
      BY <1>1, <2>1, <2>4 DEF AdaptorInv, Counts
  <1> QED
    BY <1>7, <1>8, <1>9, <1>10, <1>12, <1>13, <1>14 DEF AdaptorInv

LEMMA FabricStep == AdaptorInv /\ Fabric => AdaptorInv'
  <1> SUFFICES ASSUME AdaptorInv, Fabric
               PROVE  AdaptorInv'
    OBVIOUS
  <1> DEFINE n == Len(switched)
             new == << packet, found >>
  <1>1. /\ inpPc = "lookUp" /\ inpPc' = "run" /\ pc = "done"
        /\ switched' = Append(switched, new)
        /\ processedPackets' = processedPackets + 1
        /\ UNCHANGED << tableVars, input, offset, inpQueue, num_input_packets,
                        packet >>
    BY DEF Fabric
  <1>2. routingTable' = routingTable /\ pc' = pc
    BY <1>1 DEF tableVars
  <1>3. /\ input \in Inputs /\ packet \in Nat
        /\ switched \in Seq(Nat \X Nat) /\ n \in Nat
        /\ processedPackets \in Nat /\ num_input_packets \in Nat
        /\ Len(inpQueue) \in Nat /\ routingTable = input.table
    BY DEF AdaptorInv, AdaptorTypes
  <1>4. /\ packet \in DOMAIN input.header
        /\ LongestIn(routingTable, found,
                     input.header[packet].destination_addr)
    BY <1>1 DEF AdaptorInv, OwnLookUp
  <1>5. found \in Nat
    <2>1. input.table \in Tables
      BY <1>3, InputFacts
    <2> QED
      BY <1>3, <1>4, <2>1, LongestIsEntry
  <1>6. new \in Nat \X Nat /\ new[1] = packet /\ new[2] = found
    BY <1>3, <1>5
  <1> HIDE DEF new
  <1>7. /\ switched' \in Seq(Nat \X Nat) /\ Len(switched') = n + 1
        /\ switched' # << >> /\ switched'[n + 1] = new
        /\ \A k \in 1 .. n : switched'[k] = switched[k]
    <2> DEFINE S == Nat \X Nat
    <2>1. switched \in Seq(S) /\ new \in S /\ switched' = Append(switched, new)
      BY <1>1, <1>3, <1>6
    <2> HIDE DEF S
    <2>2. /\ switched' \in Seq(S) /\ Len(switched') = n + 1
          /\ switched'[n + 1] = new
          /\ \A k \in 1 .. n : switched'[k] = switched[k]
      BY ONLY <2>1
    <2>3. switched' # << >>
      BY <1>3, <2>2
    <2> QED
      BY <2>2, <2>3 DEF S
  <1>8. AdaptorTypes'
    BY <1>1, <1>2, <1>3, <1>7 DEF AdaptorInv, AdaptorTypes
  <1>9. LookUpInv'
    BY <1>1, NoLookUpStep DEF AdaptorInv
  <1>10. OwnLookUp'
    BY <1>1, <1>2 DEF OwnLookUp
  <1>11. QueueInOrder'
    BY <1>1 DEF AdaptorInv, QueueInOrder
  <1>12. packet = After(input, switched)
    BY <1>1 DEF AdaptorInv, PartsMeet
  <1>13. SwitchedInOrder'
    <2> HIDE DEF n
    <2> SUFFICES ASSUME NEW k \in 1 .. (n + 1)
                 PROVE  LET start == switched'[k][1]
                        IN  /\ k = 1 => start = 0
                            /\ k > 1 => start = switched'[k - 1][1]
                                          + SizeIn(input, switched'[k - 1][1])
                            /\ LongestIn(routingTable, switched'[k][2],
                                         input.header[start].destination_addr)
      BY <1>1, <1>2, <1>7 DEF SwitchedInOrder
    <2>1. CASE k \in 1 .. n
      <3>1. LET start == switched[k][1]
            IN  /\ k = 1 => start = 0
                /\ k > 1 => start = switched[k - 1][1]
                              + SizeIn(input, switched[k - 1][1])
                /\ LongestIn(routingTable, switched[k][2],
                             input.header[start].destination_addr)
        BY <2>1 DEF AdaptorInv, SwitchedInOrder, n
      <3>2. k > 1 => k - 1 \in 1 .. n
        BY <1>3, <2>1
      <3> QED
        BY <1>7, <2>1, <3>1, <3>2
    <2>2. CASE k = n + 1
      <3>1. k = 1 => n = 0
        BY <1>3, <2>2
      <3>2. k > 1 => n \in 1 .. n /\ k - 1 = n /\ n # 0
        BY <1>3, <2>2
      <3>3. n = 0 => packet = 0
        BY <1>3, <1>12 DEF After, n
      <3>4. n # 0 => packet = switched[n][1] + SizeIn(input, switched[n][1])
        BY <1>3, <1>12 DEF After, n
      <3>5. switched'[k][1] = packet /\ switched'[k][2] = found
        BY <1>6, <1>7, <2>2
      <3> QED
        BY <1>4, <1>7, <3>1, <3>2, <3>3, <3>4, <3>5
    <2> QED
      BY <1>3, <2>1, <2>2
  <1>14. PartsMeet'
    <2>1. After(input, switched)' = packet + SizeIn(input, packet)
      BY <1>1, <1>6, <1>7 DEF After
    <2>2. QueueStart' = QueueStart
      BY <1>1, <2>1 DEF QueueStart
    <2> QED
      BY <1>1, <2>2 DEF AdaptorInv, PartsMeet
  <1>15. Counts'
    <2>1. FixedSize' = FixedSize /\ Rest' = Rest /\ Rest \in Nat
      BY <1>1 DEF FixedSize, Rest
    <2>2. processedPackets + Len(inpQueue) + 1 = num_input_packets + Rest
      BY <1>1 DEF AdaptorInv, Counts, CountsAllButTheRest
    <2>3. processedPackets' + Len(inpQueue) + 0 = num_input_packets + Rest
      BY <1>1, <1>3, <2>1, <2>2
    <2>4. CountsAllButTheRest'
      BY <1>1, <2>1, <2>3 DEF CountsAllButTheRest
    <2> QED
      BY <1>1, <2>1, <2>4 DEF AdaptorInv, Counts
  <1> QED
    BY <1>8, <1>9, <1>10, <1>11, <1>13, <1>14, <1>15 DEF AdaptorInv

LEMMA NotifyStep == AdaptorInv /\ Notify => AdaptorInv'
  <1> SUFFICES ASSUME AdaptorInv, Notify
               PROVE  AdaptorInv'
    OBVIOUS
  <1>1. /\ inpPc = "run" /\ inpPc' = "end" /\ inpQueue = << >>
        /\ UNCHANGED << tableVars, input, offset, inpQueue, num_input_packets,
                        processedPackets, packet, switched >>
    BY DEF Notify
  <1>2. routingTable' = routingTable /\ pc' = pc
    BY <1>1 DEF tableVars
  <1>3. AdaptorTypes'
    BY <1>1, <1>2 DEF AdaptorInv, AdaptorTypes
  <1>4. LookUpInv'
    BY <1>1, NoLookUpStep DEF AdaptorInv
  <1>5. OwnLookUp' /\ SwitchedInOrder' /\ QueueInOrder'
    BY <1>1, <1>2
      DEF AdaptorInv, OwnLookUp, SwitchedInOrder, QueueInOrder
  <1>6. PartsMeet'
    BY <1>1 DEF AdaptorInv, PartsMeet, QueueStart
  <1>7. Counts'
    BY <1>1 DEF AdaptorInv, Counts, CountsAllButTheRest, FixedSize, Rest
  <1> QED
    BY <1>3, <1>4, <1>5, <1>6, <1>7 DEF AdaptorInv

LEMMA LookUpStepKeeps ==
  AdaptorInv /\ LookUpStep /\ UNCHANGED adaptorVars => AdaptorInv'
  <1> SUFFICES ASSUME AdaptorInv, LookUpStep, UNCHANGED adaptorVars
               PROVE  AdaptorInv'
    OBVIOUS
  <1>1. UNCHANGED << input, inpPc, offset, inpQueue, num_input_packets,
                     processedPackets, packet, switched >>
    BY DEF adaptorVars
  <1>2. routingTable' = routingTable /\ destinationAddr' = destinationAddr
    BY DEF LookUpStep, FirstOctet, MaskEnds, MatchOctet, KeepLongest, Return
  <1>3. LookUpInv'
    BY FirstOctetStep, MaskEndsStep, MatchOctetStep, KeepLongestStep,
       ReturnStep DEF AdaptorInv, LookUpStep
  <1>4. inpPc = "lookUp"
    <2>1. pc # "done"
      BY DEF LookUpStep, FirstOctet, MaskEnds, MatchOctet, KeepLongest, Return
    <2> QED
      BY <2>1 DEF AdaptorInv, OwnLookUp
  <1>5. pc' = "done" => LongestIn(routingTable', found', destinationAddr')
    <2> SUFFICES ASSUME pc' = "done"
                 PROVE  LongestIn(routingTable', found', destinationAddr')
      OBVIOUS
    <2>1. Return
      BY DEF LookUpStep, FirstOctet, MaskEnds, MatchOctet, KeepLongest
    <2>2. Longest(found, destinationAddr)'
      BY <2>1, ReturnStep DEF AdaptorInv
    <2> QED
      BY <2>2 DEF Longest, Covering, LongestIn
  <1>6. OwnLookUp'
    BY <1>1, <1>2, <1>4, <1>5 DEF AdaptorInv, OwnLookUp
  <1>7. AdaptorTypes' /\ SwitchedInOrder' /\ QueueInOrder'
    BY <1>1, <1>2 DEF AdaptorInv, AdaptorTypes, SwitchedInOrder, QueueInOrder
  <1>8. PartsMeet' /\ Counts'
    BY <1>1 DEF AdaptorInv, PartsMeet, QueueStart, Counts,
                CountsAllButTheRest, FixedSize, Rest
  <1> QED
    BY <1>3, <1>6, <1>7, <1>8 DEF AdaptorInv

LEMMA NothingStep == AdaptorInv /\ UNCHANGED vars => AdaptorInv'
  <1> SUFFICES ASSUME AdaptorInv, UNCHANGED vars
               PROVE  AdaptorInv'
    OBVIOUS
  <1>1. UNCHANGED tableVars /\ UNCHANGED << input, inpPc, offset, inpQueue,
          num_input_packets, processedPackets, packet, switched >>
    BY DEF vars, adaptorVars
  <1>2. LookUpInv'
    BY <1>1, NoLookUpStep DEF AdaptorInv
  <1>3. AdaptorTypes' /\ OwnLookUp' /\ SwitchedInOrder' /\ QueueInOrder'
    BY <1>1 DEF AdaptorInv, AdaptorTypes, OwnLookUp, SwitchedInOrder,
                QueueInOrder, tableVars
  <1>4. PartsMeet' /\ Counts'
    BY <1>1 DEF AdaptorInv, PartsMeet, QueueStart, Counts,
                CountsAllButTheRest, FixedSize, Rest
  <1> QED
    BY <1>2, <1>3, <1>4 DEF AdaptorInv

LEMMA AdaptorInvariant == Spec => []AdaptorInv
  <1>1. AdaptorInv /\ [Next]_vars => AdaptorInv'
    BY LoadPacketStep, LoadEndStep, PopPacketStep, FabricStep, NotifyStep,
       LookUpStepKeeps, NothingStep DEF Next
  <1> QED
    BY <1>1, AdaptorInvInit, PTL DEF Spec

-----------------------------------------------------------------------------
(***************************************************************************)
(* The number of packets an input adaptor reports counts every packet it   *)
(* loads but the rest of a file cut by a fixed size.                       *)
(***************************************************************************)
THEOREM OnlyTheRestIsUncounted == Spec => []CountsAllButTheRest
  <1>1. AdaptorInv => CountsAllButTheRest
    BY DEF AdaptorInv, Counts
  <1> QED
    BY <1>1, AdaptorInvariant, PTL

(***************************************************************************)
(* For every file, every packet size and every table of prefixes, borderRun*)
(* switches the packets of the file without gap or overlap, each by longest*)
(* prefix match: lookUp, octet by octet, finds what the reference          *)
(* definition does.                                                        *)
(***************************************************************************)
THEOREM WholeFileIsSwitched == Spec => []SwitchesTheFile
  <1>1. AdaptorInv => SwitchesTheFile
    <2> SUFFICES ASSUME AdaptorInv PROVE SwitchesTheFile
      OBVIOUS
    <2> DEFINE n == Len(switched)
    <2>1. switched \in Seq(Nat \X Nat) /\ n \in Nat /\ input \in Inputs
          /\ offset \in Nat
      BY DEF AdaptorInv, AdaptorTypes
    <2>2. DOMAIN switched = 1 .. n
      BY <2>1
    <2>3. ASSUME NEW k \in DOMAIN switched
          PROVE  LET start == switched[k][1]
                 IN  /\ k = 1 => start = 0
                     /\ k > 1 => start = switched[k - 1][1]
                                   + Size(switched[k - 1][1])
                     /\ Longest(switched[k][2],
                                input.header[start].destination_addr)
      BY <2>2, SizesAgree DEF AdaptorInv, SwitchedInOrder
    <2>4. ASSUME inpPc = "end", input.size > 0
          PROVE  /\ switched # << >>
                 /\ switched[n][1] + Size(switched[n][1]) >= input.size
      <3>1. offset = After(input, switched) /\ offset >= input.size
        BY <2>4 DEF AdaptorInv, PartsMeet, QueueStart
      <3>2. switched # << >>
        <4>1. input.size \in Nat
          BY <2>1, InputFacts
        <4> QED
          BY <2>4, <3>1, <4>1 DEF After
      <3> QED
        BY <3>1, <3>2, SizesAgree DEF After
    <2> QED
      BY <2>3, <2>4 DEF SwitchesTheFile
  <1> QED
    BY <1>1, AdaptorInvariant, PTL
=============================================================================
