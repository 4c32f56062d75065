--------------------------- MODULE MCInputAdaptor ---------------------------
EXTENDS InputAdaptor

(***************************************************************************)
(* Addresses of two octets of two bits.  The entries are prefixes of every *)
(* length on both sides of the octet boundary, nested, overlapping and     *)
(* disjoint ones, and a default.  One has bits set beyond its mask, as the *)
(* entry 212.18.32.0/17 of config/p2 has.                                  *)
(***************************************************************************)
MCAddress(a, b, c, d) == << << a, b >>, << c, d >> >>

MCMask(n) == [o \in 1 .. 2 |-> [b \in 1 .. 2 |->
               IF (o - 1) * 2 + b <= n THEN 1 ELSE 0]]

MCEntry(a, n) == [destination_addr |-> a, destination_mask |-> MCMask(n)]

MCEntries ==
  { MCEntry(MCAddress(0, 0, 0, 0), 0),
    MCEntry(MCAddress(1, 0, 0, 0), 1),
    MCEntry(MCAddress(0, 0, 0, 0), 1),
    MCEntry(MCAddress(1, 0, 0, 0), 2),
    MCEntry(MCAddress(1, 0, 1, 0), 3),
    MCEntry(MCAddress(1, 0, 1, 1), 2),
    MCEntry(MCAddress(1, 0, 1, 1), 4),
    MCEntry(MCAddress(1, 1, 0, 1), 4) }

MCTablesOf(n) == [1 .. n -> MCEntries]
MCTables == UNION {MCTablesOf(n) : n \in 1 .. 3}

(***************************************************************************)
(* Every table meets every destination in a file of one packet.  Two tables*)
(* also meet files of every size to 4, with destinations that alternate,   *)
(* cut by a fixed size to 3 or by any lengths 0 to 2 in the headers.       *)
(***************************************************************************)
MCInput(t, h, p) == [table |-> t, size |-> Cardinality(DOMAIN h),
                     header |-> h, pSize |-> p]

MCHeader(l, a) == [total_length |-> l, destination_addr |-> a]

MCSingle == {MCInput(t, [o \in {0} |-> MCHeader(1, a)], 1)
               : t \in MCTables, a \in Address}

MCHeaders == UNION {[0 .. (s - 1) -> 0 .. 2] : s \in 0 .. 4}

MCFile(l) == [o \in DOMAIN l |-> MCHeader(l[o], MCAddress(1, 0, o % 2, 1))]

MCShort == MCEntry(MCAddress(1, 0, 0, 0), 2)
MCLong  == MCEntry(MCAddress(1, 0, 1, 0), 3)

MCFiles == {MCInput(t, MCFile(l), p) : t \in {<< MCShort, MCLong >>,
                                               << MCLong, MCShort >>},
                                      l \in MCHeaders, p \in {-1, 1, 2, 3}}

MCInputs == MCSingle \cup MCFiles
=============================================================================
