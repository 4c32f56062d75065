--------------------------- MODULE PoissonArrivals ---------------------------
(***************************************************************************)
(* The arrival schedule EnQueueProcessor::poissonRun computes before it    *)
(* pushes anything: the numbers of packets it will push in successive      *)
(* seconds.  `n` stands for `numerator` (the packets in the buffer), `d`   *)
(* for `denominator` (the arrival rate).                                   *)
(***************************************************************************)
EXTENDS Integers, Sequences

\* Mutant of Accepted: the factor two of the upper bound is missing.
AcceptedNarrow(n, c, i) == c * i < n /\ n < c * i

(***************************************************************************)
(* The number of times the schedule is repeated: 1 for a small buffer,     *)
(* otherwise the first i the search loop accepts.  The set is empty when   *)
(* the loop accepts none and never ends.  An i the loop accepts is below   *)
(* n, so the search is over a finite range.                                *)
(***************************************************************************)
Accepted(n, c, i) == c * i < n /\ n < 2 * c * i

SplitFactors(n, d) ==
  LET c == d * d
  IN  IF n < 2 * c
        THEN {1}
        ELSE {i \in 1 .. n : /\ Accepted(n, c, i)
                             /\ \A j \in 1 .. (i - 1) : ~ Accepted(n, c, j)}

(***************************************************************************)
(* pArray, the schedule of one repetition, for n packets after the split.  *)
(* With m values wanted it climbs from the rate, then climbs back to it    *)
(* from below, so that the values average to the rate.  `f` in the code is *)
(* the parity of a parity: 0 in the even case, 1 in the odd one.           *)
(***************************************************************************)
EvenSchedule(d, m) ==
  LET h     == m \div 2
      below == [k \in 1 .. h |-> d - h + k]     \* one more than is pushed
  IN  << d >> \o [k \in 1 .. h |-> d + k] \o SubSeq(below, 1, h - 1)

\* Mutant of OddSchedule: neither e nor f is added.
OddScheduleUnshifted(d, m) ==
  LET h == (m - 1) \div 2
  IN  << d >> \o [k \in 1 .. h |-> d - 1 + k]
              \o [k \in 1 .. (h + 1) |-> d - h - 2 + k]

OddSchedule(d, m) ==
  LET h == (m - 1) \div 2
  IN  << d + 1 >> \o [k \in 1 .. h |-> d + 1 + k]
                  \o [k \in 1 .. (h + 1) |-> d - h - 1 + k]

OneRound(n, d) ==
  LET m == n \div d
  IN  IF (m \div d) % 2 = 0 THEN EvenSchedule(d, m) ELSE OddSchedule(d, m)

(***************************************************************************)
(* poissonArrivals: l repetitions of the round for n \div l packets.       *)
(***************************************************************************)
Schedule(n, d, l) ==
  LET round == OneRound(n \div l, d)
      len   == Len(round)
  IN  [k \in 1 .. (l * len) |-> round[((k - 1) % len) + 1]]
=============================================================================
