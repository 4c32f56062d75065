-------------------------- MODULE AdaptorTaskProofs --------------------------
(***************************************************************************)
(* Theorems about the two tasks of an output adaptor, each by itself.      *)
(*                                                                         *)
(* The push task (enqueueprocessor.cpp): the search loop of poissonRun     *)
(* computes SplitFactors, and the schedule it leads to is one of positive  *)
(* bursts of the right mean, for all loads, rates and bounds.              *)
(*                                                                         *)
(* The pop task (dequeueprocessor.cpp) against any pattern of arrivals:    *)
(* the weighted round robin bypasses no queue for long and stops promptly, *)
(* for any number of queues, any packets and any weights.                  *)
(***************************************************************************)
EXTENDS PoissonPlan, WeightedService, OperatorTheorems, SequenceTheorems

(***************************************************************************)
(* The search has rejected every candidate below i.                        *)
(***************************************************************************)
SearchInv ==
  /\ load \in Nat
  /\ denominator \in Nat \ {0}
  /\ i \in Nat
  /\ pc = "compare" => i = 0
  /\ pc = "search" => /\ load >= 2 * (denominator * denominator)
                      /\ \A j \in 1 .. (i - 1) :
                           ~ Accepted(load, denominator * denominator, j)
  /\ pc = "build" => SplitFactors(load, denominator) = {l}

LEMMA SearchInvInit == PlanInit => SearchInv
  BY LoadsAssumption, RatesAssumption DEF PlanInit, SearchInv

(***************************************************************************)
(* The first candidate the search accepts is the only factor.              *)
(***************************************************************************)
LEMMA FirstAcceptedIsFactor ==
  ASSUME NEW n \in Nat, NEW d \in Nat \ {0}, NEW k \in Nat,
         n >= 2 * (d * d), Accepted(n, d * d, k),
         \A j \in 1 .. (k - 1) : ~ Accepted(n, d * d, j)
  PROVE  SplitFactors(n, d) = {k}
  <1> DEFINE c == d * d
  <1>1. c \in Nat \ {0}
    OBVIOUS
  <1>2. SplitFactors(n, d) = {x \in 1 .. n :
                                /\ Accepted(n, c, x)
                                /\ \A j \in 1 .. (x - 1) : ~ Accepted(n, c, j)}
    BY DEF SplitFactors
  <1> HIDE DEF c
  <1>3. k # 0
    BY <1>1 DEF Accepted, c
  <1>4. k <= n
    <2>1. c * k >= k
      BY <1>1
    <2>2. c * k < n
      BY DEF Accepted, c
    <2> QED
      BY <2>1, <2>2, <1>1
  <1>5. k \in SplitFactors(n, d)
    BY <1>2, <1>3, <1>4 DEF c
  <1>6. ASSUME NEW x \in SplitFactors(n, d)
        PROVE  x = k
    <2>1. x \in 1 .. n /\ Accepted(n, c, x)
          /\ \A j \in 1 .. (x - 1) : ~ Accepted(n, c, j)
      BY <1>2
    <2>2. ~ (x < k)
      BY <2>1 DEF c
    <2>3. ~ (k < x)
      BY <2>1, <1>3 DEF c
    <2> QED
      BY <2>1, <2>2, <2>3
  <1> QED
    BY <1>5, <1>6

LEMMA SearchInvStep == SearchInv /\ [PlanNext]_planVars => SearchInv'
  <1> SUFFICES ASSUME SearchInv, [PlanNext]_planVars PROVE SearchInv'
    OBVIOUS
  <1> USE DEF SearchInv, cValue
  <1>1. CASE Small
    <2>1. load < 2 * (denominator * denominator)
      BY <1>1 DEF Small
    <2>2. SplitFactors(load, denominator) = {1}
      BY <2>1 DEF SplitFactors
    <2> QED
      BY <1>1, <2>2 DEF Small
  <1>2. CASE Large
    <2>1. i = 0 /\ load >= 2 * (denominator * denominator)
      BY <1>2 DEF Large
    <2>2. \A j \in 1 .. (i - 1) :
            ~ Accepted(load, denominator * denominator, j)
      BY <1>2, <2>1 DEF Large
    <2> QED
      BY <1>2, <2>1, <2>2 DEF Large
  <1>3. CASE Found
    <2>1. SplitFactors(load, denominator) = {i}
      BY <1>3, FirstAcceptedIsFactor DEF Found
    <2> QED
      BY <1>3, <2>1 DEF Found
  <1>4. CASE NextCandidate
    <2>1. \A j \in 1 .. i : ~ Accepted(load, denominator * denominator, j)
      BY <1>4 DEF NextCandidate
    <2>2. (i + 1) - 1 = i
      OBVIOUS
    <2> QED
      BY <1>4, <2>1, <2>2 DEF NextCandidate
  <1>5. CASE Build
    BY <1>5 DEF Build
  <1>6. CASE UNCHANGED planVars
    BY <1>6 DEF planVars
  <1> QED
    BY <1>1, <1>2, <1>3, <1>4, <1>5, <1>6 DEF PlanNext

(***************************************************************************)
(* The loop of poissonRun leaves l with the value SplitFactors describes.  *)
(***************************************************************************)
THEOREM SearchCorrect == PlanSpec => []SearchFindsFactor
  <1>1. SearchInv => SearchFindsFactor
    BY DEF SearchInv, SearchFindsFactor
  <1> QED
    BY <1>1, SearchInvInit, SearchInvStep, PTL DEF PlanSpec

-----------------------------------------------------------------------------
(***************************************************************************)
(* A round is a staircase: it climbs by one a second from just above its   *)
(* base, falls by the length of the round after the turn, and climbs back. *)
(***************************************************************************)
Staircase(base, turn, len) ==
  [k \in 1 .. len |-> IF k <= turn THEN base + k ELSE base + k - len]

LEMMA StaircaseSum ==
  ASSUME NEW base \in Int, NEW len \in Nat, NEW turn \in 1 .. len
  PROVE  2 * SumFunctionOnSet(Staircase(base, turn, len), 1 .. len)
           = 2 * len * base + len * (len + 1) - 2 * len * (len - turn)
  <1> DEFINE f == Staircase(base, turn, len)
             g == [n \in 0 .. len |->
                    2 * n * base + n * (n + 1)
                      - (IF n <= turn THEN 0 ELSE 2 * len * (n - turn))]
  <1>1. \A k \in 1 .. len : f[k] = IF k <= turn THEN base + k
                                                ELSE base + k - len
    BY DEF Staircase
  <1>2. \A k \in 1 .. len : f[k] \in Int
    BY <1>1
  <1>3. \A n \in 0 .. len : g[n] \in Int
    OBVIOUS
  <1>4. g[0] = 0
    OBVIOUS
  <1>5. ASSUME NEW n \in 1 .. len
        PROVE  g[n] = g[n - 1] + 2 * f[n]
    <2>1. n - 1 \in 0 .. len /\ n \in 0 .. len
      OBVIOUS
    <2>2. (n - 1) * ((n - 1) + 1) = n * (n + 1) - 2 * n
      OBVIOUS
    <2>3. CASE n <= turn
      <3>1. g[n] = 2 * n * base + n * (n + 1)
        BY <2>1, <2>3
      <3>2. g[n - 1] = 2 * (n - 1) * base + (n - 1) * ((n - 1) + 1)
        BY <2>1, <2>3
      <3>3. f[n] = base + n
        BY <1>1, <2>3
      <3> HIDE DEF f, g
      <3> QED
        BY <2>2, <3>1, <3>2, <3>3
    <2>4. CASE n > turn
      <3>1. g[n] = 2 * n * base + n * (n + 1) - 2 * len * (n - turn)
        BY <2>1, <2>4
      <3>2. g[n - 1] = 2 * (n - 1) * base + (n - 1) * ((n - 1) + 1)
                         - 2 * len * ((n - 1) - turn)
        <4>1. CASE n - 1 <= turn
          <5>1. (n - 1) - turn = 0
            BY <2>4, <4>1
          <5>2. 2 * len * ((n - 1) - turn) = 0
            BY <5>1
          <5> QED
            BY <2>1, <4>1, <5>2
        <4>2. CASE n - 1 > turn
          BY <2>1, <4>2
        <4> QED
          BY <4>1, <4>2
      <3>3. f[n] = base + n - len
        BY <1>1, <2>4
      <3>4. 2 * len * (n - turn) = 2 * len * ((n - 1) - turn) + 2 * len
        OBVIOUS
      <3> HIDE DEF f, g
      <3> QED
        BY <2>2, <3>1, <3>2, <3>3, <3>4
    <2> QED
      BY <2>3, <2>4
  <1> HIDE DEF f, g
  <1>6. Accumulates(g, 2, f, len)
    BY <1>2, <1>3, <1>4, <1>5 DEF Accumulates
  <1>7. 2 * SumFunctionOnSet(f, 1 .. len) = g[len]
    <2>1. 2 \in Int /\ len \in Nat
      OBVIOUS
    <2> QED
      BY <1>6, <2>1, SumOfPrefix
  <1>8. g[len] = 2 * len * base + len * (len + 1) - 2 * len * (len - turn)
    <2>1. len = turn => 2 * len * (len - turn) = 0
      OBVIOUS
    <2> QED
      BY <2>1 DEF g
  <1> QED
    BY <1>7, <1>8 DEF f

(***************************************************************************)
(* The sum of a sequence that repeats a round.                             *)
(***************************************************************************)
LEMMA DivModUnique ==
  ASSUME NEW a \in Nat, NEW b \in Nat \ {0}, NEW q \in Nat, NEW r \in 0 .. (b - 1),
         a = b * q + r
  PROVE  a \div b = q /\ a % b = r
  OBVIOUS

LEMMA RepeatedSum ==
  ASSUME NEW len \in Nat \ {0}, NEW times \in Nat, NEW round,
         \A k \in 1 .. len : round[k] \in Int
  PROVE  SumFunctionOnSet([k \in 1 .. (times * len) |->
                             round[((k - 1) % len) + 1]], 1 .. (times * len))
           = times * SumFunctionOnSet(round, 1 .. len)
  <1> DEFINE N == times * len
             f == [k \in 1 .. N |-> round[((k - 1) % len) + 1]]
             R(j) == SumFunctionOnSet(round, 1 .. j)
             whole == R(len)
             g == [n \in 0 .. N |-> (n \div len) * whole + R(n % len)]
  <1>1. N \in Nat
    OBVIOUS
  <1>2. \A j \in 1 .. len : /\ R(j) = R(j - 1) + round[j]
                            /\ R(j) \in Int /\ R(j - 1) \in Int
    BY SumNext
  <1>3. R(0) = 0 /\ whole \in Int
    BY <1>2, SumFirst
  <1> HIDE DEF R, whole, N
  <1>4. \A j \in 0 .. len : R(j) \in Int
    <2>1. \A j \in 0 .. len : j = 0 \/ j \in 1 .. len
      OBVIOUS
    <2> QED
      BY <1>2, <1>3, <2>1
  <1>5. \A n \in Nat : n % len \in 0 .. (len - 1) /\ n \div len \in Nat
    OBVIOUS
  <1>6. \A n \in 0 .. N : g[n] = (n \div len) * whole + R(n % len)
    OBVIOUS
  <1>7. \A k \in 1 .. N : f[k] = round[((k - 1) % len) + 1] /\ f[k] \in Int
    <2> TAKE k \in 1 .. N
    <2>1. k - 1 \in Nat
      BY <1>1
    <2>2. ((k - 1) % len) + 1 \in 1 .. len
      BY <1>5, <2>1
    <2> QED
      BY <2>2
  <1> HIDE DEF f, g
  <1>8. \A n \in 0 .. N : g[n] \in Int
    <2> TAKE n \in 0 .. N
    <2>1. n % len \in 0 .. len /\ n \div len \in Nat
      BY <1>1, <1>5
    <2>2. (n \div len) * whole \in Int /\ R(n % len) \in Int
      BY <1>3, <1>4, <2>1
    <2> QED
      BY <1>6, <2>2
  <1>9. g[0] = 0
    <2>1. 0 \div len = 0 /\ 0 % len = 0
      OBVIOUS
    <2> QED
      BY <1>1, <1>3, <1>6, <2>1
  <1>10. ASSUME NEW n \in 1 .. N
         PROVE  g[n] = g[n - 1] + f[n]
    <2> DEFINE q == (n - 1) \div len
               r == (n - 1) % len
    <2>1. /\ n - 1 \in Nat /\ n \in Nat /\ q \in Nat /\ r \in 0 .. (len - 1)
          /\ n - 1 = len * q + r /\ n - 1 \in 0 .. N /\ n \in 0 .. N
      BY <1>1
    <2>2. g[n - 1] = q * whole + R(r)
      BY <1>6, <2>1
    <2>3. f[n] = round[r + 1]
      BY <1>7
    <2> HIDE DEF q, r
    <2>4. R(r + 1) = R(r) + round[r + 1] /\ R(r) \in Int /\ round[r + 1] \in Int
      <3>1. r + 1 \in 1 .. len /\ (r + 1) - 1 = r
        BY <2>1
      <3>2. /\ R(r + 1) = R((r + 1) - 1) + round[r + 1]
            /\ round[r + 1] \in Int
        BY <1>2, <3>1
      <3>3. R(r) \in Int
        BY <1>4, <2>1
      <3> QED
        BY <3>1, <3>2, <3>3
    <2>5. CASE r + 1 < len
      <3>1. r + 1 \in 0 .. (len - 1) /\ n = len * q + (r + 1)
        BY <2>1, <2>5
      <3>2. n \div len = q /\ n % len = r + 1
        BY <2>1, <3>1, DivModUnique
      <3>3. g[n] = q * whole + R(r + 1)
        BY <1>6, <2>1, <3>2
      <3>4. q * whole \in Int
        BY <1>3, <2>1
      <3> QED
        BY <2>2, <2>3, <2>4, <3>3, <3>4
    <2>6. CASE ~ (r + 1 < len)
      <3>1. r + 1 = len /\ n = len * (q + 1) + 0
        BY <2>1, <2>6
      <3>2. n \div len = q + 1 /\ n % len = 0
        <4>1. q + 1 \in Nat /\ 0 \in 0 .. (len - 1)
          BY <2>1
        <4> QED
          BY <2>1, <3>1, <4>1, DivModUnique
      <3>3. g[n] = (q + 1) * whole + R(0)
        BY <1>6, <2>1, <3>2
      <3>4. whole = R(r) + round[r + 1]
        BY <2>4, <3>1 DEF whole
      <3>5. (q + 1) * whole = q * whole + whole /\ q * whole \in Int
        BY <1>3, <2>1
      <3> QED
        BY <1>3, <2>2, <2>3, <2>4, <3>3, <3>4, <3>5
    <2> QED
      BY <2>5, <2>6
  <1>11. \A n \in 1 .. N : g[n] = g[n - 1] + 1 * f[n]
    <2> TAKE n \in 1 .. N
    <2>1. f[n] \in Int
      BY <1>7
    <2> QED
      BY <1>10, <2>1
  <1>12. Accumulates(g, 1, f, N)
    BY <1>1, <1>7, <1>8, <1>9, <1>11 DEF Accumulates
  <1>13. SumFunctionOnSet(f, 1 .. N) = g[N]
    <2>1. 1 \in Int
      OBVIOUS
    <2>2. 1 * SumFunctionOnSet(f, 1 .. N) = g[N]
      BY <1>1, <1>12, <2>1, SumOfPrefix
    <2>3. SumFunctionOnSet(f, 1 .. N) \in Int
      <3>1. \A k \in 1 .. N : f[k] \in Int
        BY <1>7
      <3>2. N = 0 \/ N \in Nat \ {0}
        BY <1>1
      <3>3. SumFunctionOnSet(f, 1 .. 0) = 0
        BY SumFirst
      <3>4. CASE N = 0
        BY <3>3, <3>4
      <3>5. CASE N \in Nat \ {0}
        BY <3>1, <3>5, SumNext
      <3> QED
        BY <3>2, <3>4, <3>5
    <2> QED
      BY <2>2, <2>3
  <1>14. g[N] = times * whole
    <2>1. N \div len = times /\ N % len = 0
      <3>1. N = len * times + 0 /\ 0 \in 0 .. (len - 1)
        BY DEF N
      <3> QED
        BY <1>1, <3>1, DivModUnique
    <2> QED
      BY <1>1, <1>3, <1>6, <2>1
  <1> QED
    BY <1>13, <1>14 DEF f, N, whole, R

(***************************************************************************)
(* The two shapes of a round are staircases.                               *)
(***************************************************************************)
LEMMA ThreeParts ==
  ASSUME NEW first \in Int, NEW s \in Seq(Int), NEW t \in Seq(Int), NEW o,
         o = << first >> \o s \o t
  PROVE  /\ o \in Seq(Int) /\ Len(o) = 1 + Len(s) + Len(t)
         /\ o[1] = first
         /\ \A k \in 2 .. (Len(s) + 1) : o[k] = s[k - 1]
         /\ \A k \in (Len(s) + 2) .. (1 + Len(s) + Len(t)) :
              o[k] = t[k - 1 - Len(s)]
  <1> DEFINE a == << first >> \o s
  <1>1. << first >> \in Seq(Int) /\ Len(<< first >>) = 1 /\ << first >>[1] = first
    OBVIOUS
  <1>2. /\ a \in Seq(Int) /\ Len(a) = 1 + Len(s)
        /\ a[1] = first
        /\ \A k \in 2 .. (Len(s) + 1) : a[k] = s[k - 1]
    BY <1>1
  <1>3. o = a \o t
    OBVIOUS
  <1> HIDE DEF a
  <1>4. /\ o \in Seq(Int) /\ Len(o) = 1 + Len(s) + Len(t)
        /\ \A k \in 1 .. (Len(s) + 1) : o[k] = a[k]
        /\ \A k \in (Len(s) + 2) .. (1 + Len(s) + Len(t)) :
             o[k] = t[k - 1 - Len(s)]
    BY <1>2, <1>3
  <1> QED
    BY <1>2, <1>4

LEMMA EvenIsStaircase ==
  ASSUME NEW d \in Nat, NEW m \in Nat, m \div 2 # 0
  PROVE  EvenSchedule(d, m) = Staircase(d - 1, (m \div 2) + 1, 2 * (m \div 2))
  <1> DEFINE h == m \div 2
             up == [k \in 1 .. h |-> d + k]
             down == [k \in 1 .. h |-> d - h + k]
             below == SubSeq(down, 1, h - 1)
             o == EvenSchedule(d, m)
  <1>1. h \in Nat \ {0}
    OBVIOUS
  <1> HIDE DEF h
  <1>2. /\ up \in Seq(Int) /\ down \in Seq(Int)
        /\ Len(up) = h /\ Len(down) = h
    BY <1>1
  <1>3. /\ below \in Seq(Int) /\ Len(below) = h - 1
        /\ \A k \in 1 .. (h - 1) : below[k] = down[k]
    <2> HIDE DEF down, up
    <2> QED
      BY <1>1, <1>2
  <1>4. o = << d >> \o up \o below
    BY DEF EvenSchedule, h
  <1>5. /\ \A k \in 1 .. h : up[k] = d + k
        /\ \A k \in 1 .. h : down[k] = d - h + k
    OBVIOUS
  <1> HIDE DEF up, down, below, o
  <1>6. /\ o \in Seq(Int) /\ Len(o) = 1 + h + (h - 1)
        /\ o[1] = d
        /\ \A k \in 2 .. (h + 1) : o[k] = up[k - 1]
        /\ \A k \in (h + 2) .. (1 + h + (h - 1)) : o[k] = below[k - 1 - h]
    <2>1. d \in Int
      OBVIOUS
    <2>2. up \in Seq(Int) /\ below \in Seq(Int)
      BY <1>2, <1>3
    <2>3. /\ o \in Seq(Int) /\ Len(o) = 1 + Len(up) + Len(below)
          /\ o[1] = d
          /\ \A k \in 2 .. (Len(up) + 1) : o[k] = up[k - 1]
          /\ \A k \in (Len(up) + 2) .. (1 + Len(up) + Len(below)) :
               o[k] = below[k - 1 - Len(up)]
      BY ONLY <1>4, <2>1, <2>2, ThreeParts
    <2> QED
      BY <1>2, <1>3, <2>3
  <1>7. Len(o) = 2 * h
    BY <1>1, <1>6
  <1>8. \A k \in 1 .. (2 * h) :
          o[k] = IF k <= h + 1 THEN d - 1 + k ELSE d - 1 + k - 2 * h
    <2> TAKE k \in 1 .. (2 * h)
    <2>1. CASE k = 1
      BY <1>1, <1>6, <2>1
    <2>2. CASE k \in 2 .. (h + 1)
      <3>1. k - 1 \in 1 .. h
        BY <1>1, <2>2
      <3>2. o[k] = d + (k - 1)
        BY <1>5, <1>6, <2>2, <3>1
      <3> QED
        BY <2>2, <3>2
    <2>3. CASE k > h + 1
      <3>1. k - 1 - h \in 1 .. (h - 1) /\ k - 1 - h \in 1 .. h
            /\ k \in (h + 2) .. (1 + h + (h - 1))
        BY <1>1, <2>3
      <3>2. o[k] = d - h + (k - 1 - h)
        BY <1>3, <1>5, <1>6, <3>1
      <3> QED
        BY <1>1, <2>3, <3>2
    <2> QED
      BY <1>1, <2>1, <2>2, <2>3
  <1>9. o = [k \in 1 .. (2 * h) |->
               IF k <= h + 1 THEN d - 1 + k ELSE d - 1 + k - 2 * h]
    BY <1>1, <1>6, <1>7, <1>8
  <1> QED
    BY <1>9 DEF Staircase, o, h

LEMMA OddIsStaircase ==
  ASSUME NEW d \in Nat, NEW m \in Nat \ {0}
  PROVE  OddSchedule(d, m)
           = Staircase(d, ((m - 1) \div 2) + 1, 2 * ((m - 1) \div 2) + 2)
  <1> DEFINE h == (m - 1) \div 2
             up == [k \in 1 .. h |-> d + 1 + k]
             below == [k \in 1 .. (h + 1) |-> d - h - 1 + k]
             o == OddSchedule(d, m)
  <1>1. h \in Nat
    OBVIOUS
  <1> HIDE DEF h
  <1>2. /\ up \in Seq(Int) /\ below \in Seq(Int)
        /\ Len(up) = h /\ Len(below) = h + 1
    BY <1>1
  <1>4. o = << d + 1 >> \o up \o below
    BY DEF OddSchedule, h
  <1>5. /\ \A k \in 1 .. h : up[k] = d + 1 + k
        /\ \A k \in 1 .. (h + 1) : below[k] = d - h - 1 + k
    OBVIOUS
  <1> HIDE DEF up, below, o
  <1>6. /\ o \in Seq(Int) /\ Len(o) = 1 + h + (h + 1)
        /\ o[1] = d + 1
        /\ \A k \in 2 .. (h + 1) : o[k] = up[k - 1]
        /\ \A k \in (h + 2) .. (1 + h + (h + 1)) : o[k] = below[k - 1 - h]
    <2>1. d + 1 \in Int
      OBVIOUS
    <2>2. up \in Seq(Int) /\ below \in Seq(Int)
      BY <1>2
    <2>3. /\ o \in Seq(Int) /\ Len(o) = 1 + Len(up) + Len(below)
          /\ o[1] = d + 1
          /\ \A k \in 2 .. (Len(up) + 1) : o[k] = up[k - 1]
          /\ \A k \in (Len(up) + 2) .. (1 + Len(up) + Len(below)) :
               o[k] = below[k - 1 - Len(up)]
      BY ONLY <1>4, <2>1, <2>2, ThreeParts
    <2> QED
      BY <1>2, <2>3
  <1>7. Len(o) = 2 * h + 2
    BY <1>1, <1>6
  <1>8. \A k \in 1 .. (2 * h + 2) :
          o[k] = IF k <= h + 1 THEN d + k ELSE d + k - (2 * h + 2)
    <2> TAKE k \in 1 .. (2 * h + 2)
    <2>1. CASE k = 1
      BY <1>1, <1>6, <2>1
    <2>2. CASE k \in 2 .. (h + 1)
      <3>1. k - 1 \in 1 .. h
        BY <1>1, <2>2
      <3>2. o[k] = d + 1 + (k - 1)
        BY <1>5, <1>6, <2>2, <3>1
      <3> QED
        BY <2>2, <3>2
    <2>3. CASE k > h + 1
      <3>1. k - 1 - h \in 1 .. (h + 1) /\ k \in (h + 2) .. (1 + h + (h + 1))
        BY <1>1, <2>3
      <3>2. o[k] = d - h - 1 + (k - 1 - h)
        BY <1>5, <1>6, <3>1
      <3> QED
        BY <1>1, <2>3, <3>2
    <2> QED
      BY <1>1, <2>1, <2>2, <2>3
  <1>9. o = [k \in 1 .. (2 * h + 2) |->
               IF k <= h + 1 THEN d + k ELSE d + k - (2 * h + 2)]
    BY <1>1, <1>6, <1>7, <1>8
  <1> QED
    BY <1>9 DEF Staircase, o, h

(***************************************************************************)
(* What one round adds up to.  It averages to the rate, rounded down, and  *)
(* it leaves over fewer packets than arrive in two seconds.                *)
(***************************************************************************)
RoundIsFair(n, d) ==
  LET len == Len(OneRound(n, d))
      sum == SumFunctionOnSet(OneRound(n, d), 1 .. len)
  IN  /\ len \in Nat \ {0} /\ sum \in Int
      /\ d * len <= sum /\ sum < (d + 1) * len
      /\ n - sum < 2 * d

LEMMA RoundFairness ==
  ASSUME NEW n \in Nat, NEW d \in Nat \ {0}, n < 2 * (d * d)
  PROVE  RoundIsFair(n, d)
  <1> DEFINE m == n \div d
             o == OneRound(n, d)
             len == Len(o)
             sum == SumFunctionOnSet(o, 1 .. len)
  <1>1. m \in Nat /\ d * m <= n /\ n < d * m + d
    BY DivBounds
  <1>2. m < 2 * d
    <2>1. ASSUME m >= 2 * d PROVE FALSE
      <3>1. d * m >= d * (2 * d)
        BY <1>1, <2>1
      <3> QED
        BY <1>1, <3>1
    <2> QED
      BY <1>1, <2>1
  <1>3. o \in Seq(Nat \ {0}) /\ len \in Nat \ {0}
    BY OneRoundPositive
  <1>4. sum \in Int
    <2>1. \A k \in 1 .. len : o[k] \in Int
      BY <1>3
    <2> HIDE DEF o, len
    <2> QED
      BY <1>3, <2>1, SumNext
  <1>5. /\ (m \div d) % 2 = 0 => o = EvenSchedule(d, m)
        /\ (m \div d) % 2 # 0 => o = OddSchedule(d, m)
    BY DEF OneRound
  <1>6. (m \div d) % 2 # 0 => m # 0
    BY <1>1
  <1> HIDE DEF m, o
  <1>7. ASSUME o = << d >>, n < 2 * d
        PROVE  RoundIsFair(n, d)
    <2>1. len = 1 /\ o[1] = d
      BY <1>7
    <2>2. sum = d
      <3>1. 1 \in Nat \ {0} /\ (\A k \in 1 .. 1 : o[k] \in Int) /\ 1 - 1 = 0
        BY <2>1
      <3>2. SumFunctionOnSet(o, 1 .. 1) = SumFunctionOnSet(o, 1 .. 0) + o[1]
        BY <3>1, SumNext
      <3>3. SumFunctionOnSet(o, 1 .. 0) = 0
        BY SumFirst
      <3> QED
        BY <2>1, <3>2, <3>3
    <2> HIDE DEF sum, len
    <2> QED
      BY <1>7, <2>1, <2>2 DEF RoundIsFair, sum, len, o
  <1>8. CASE (m \div d) % 2 = 0 /\ m \div 2 = 0
    <2>1. o = << d >>
      <3> DEFINE up == [k \in 1 .. 0 |-> d + k]
                 down == [k \in 1 .. 0 |-> d - 0 + k]
      <3>1. up = << >> /\ SubSeq(down, 1, 0 - 1) = << >>
        OBVIOUS
      <3>2. o = << d >> \o up \o SubSeq(down, 1, 0 - 1)
        BY <1>5, <1>8 DEF EvenSchedule
      <3> HIDE DEF up, down
      <3>3. << d >> \o << >> = << d >>
        OBVIOUS
      <3> QED
        BY <3>1, <3>2, <3>3
    <2>2. m <= 1
      BY <1>1, <1>8
    <2>3. d * m <= d
      BY <1>1, <2>2
    <2> QED
      BY <1>1, <1>7, <2>1, <2>3
  <1>9. CASE (m \div d) % 2 = 0 /\ m \div 2 # 0
    <2> DEFINE h == m \div 2
    <2>1. h \in Nat \ {0} /\ m <= 2 * h + 1
      BY <1>1, <1>9
    <2>2. o = Staircase(d - 1, h + 1, 2 * h)
      BY <1>1, <1>5, <1>9, EvenIsStaircase
    <2> HIDE DEF h
    <2>3. len = 2 * h
      <3>1. o \in [1 .. (2 * h) -> Int]
        BY <2>1, <2>2 DEF Staircase
      <3> QED
        BY <2>1, <3>1, <1>3
    <2>4. 2 * sum = 4 * (h * d) + 2 * h
      <3>1. d - 1 \in Int /\ 2 * h \in Nat /\ h + 1 \in 1 .. (2 * h)
        BY <2>1
      <3>2. 2 * sum = 2 * (2 * h) * (d - 1) + (2 * h) * (2 * h + 1)
                        - 2 * (2 * h) * (2 * h - (h + 1))
        <4> DEFINE base == d - 1
                   turn == h + 1
                   size == 2 * h
        <4>1. base \in Int /\ size \in Nat /\ turn \in 1 .. size
          BY <3>1
        <4>2. o = Staircase(base, turn, size) /\ len = size
          BY <2>2, <2>3
        <4> HIDE DEF base, turn, size
        <4>3. 2 * SumFunctionOnSet(Staircase(base, turn, size), 1 .. size)
                = 2 * size * base + size * (size + 1)
                    - 2 * size * (size - turn)
          BY ONLY <4>1, StaircaseSum
        <4>4. 2 * sum = 2 * size * base + size * (size + 1)
                          - 2 * size * (size - turn)
          BY <4>2, <4>3
        <4> QED
          BY <4>4 DEF base, turn, size
      <3>3. 2 * (2 * h) * (d - 1) = 4 * (h * d) - 4 * h
        BY <2>1
      <3>4. (2 * h) * (2 * h + 1) = 4 * (h * h) + 2 * h
        BY <2>1
      <3>5. 2 * (2 * h) * (2 * h - (h + 1)) = 4 * (h * h) - 4 * h
        BY <2>1
      <3> QED
        BY <2>1, <3>2, <3>3, <3>4, <3>5
    <2> HIDE DEF sum, len
    <2>5. sum = 2 * (h * d) + h
      BY <1>4, <2>1, <2>4
    <2>6. d * len = 2 * (h * d) /\ (d + 1) * len = 2 * (h * d) + 2 * h
      BY <2>1, <2>3
    <2>7. d * m <= 2 * (h * d) + d
      <3>1. d * m <= d * (2 * h + 1)
        BY <1>1, <2>1
      <3> QED
        BY <2>1, <3>1
    <2>8. n - sum < 2 * d
      BY <1>1, <2>1, <2>5, <2>7
    <2> QED
      BY <1>3, <1>4, <2>1, <2>5, <2>6, <2>8 DEF RoundIsFair, sum, len, o
  <1>10. CASE (m \div d) % 2 # 0
    <2> DEFINE h == (m - 1) \div 2
    <2>1. h \in Nat /\ m <= 2 * h + 2
      BY <1>1, <1>6, <1>10
    <2>2. o = Staircase(d, h + 1, 2 * h + 2)
      BY <1>1, <1>5, <1>6, <1>10, OddIsStaircase
    <2> HIDE DEF h
    <2>3. len = 2 * h + 2
      <3>1. o \in [1 .. (2 * h + 2) -> Int]
        BY <2>1, <2>2 DEF Staircase
      <3> QED
        BY <2>1, <3>1, <1>3
    <2>4. 2 * sum = 4 * (h * d) + 4 * d + 2 * h + 2
      <3>1. d \in Int /\ 2 * h + 2 \in Nat /\ h + 1 \in 1 .. (2 * h + 2)
        BY <2>1
      <3>2. 2 * sum = 2 * (2 * h + 2) * d + (2 * h + 2) * ((2 * h + 2) + 1)
                        - 2 * (2 * h + 2) * ((2 * h + 2) - (h + 1))
        BY ONLY <2>2, <2>3, <3>1, StaircaseSum DEF sum
      <3>3. 2 * (2 * h + 2) * d = 4 * (h * d) + 4 * d
        BY <2>1
      <3>4. (2 * h + 2) * ((2 * h + 2) + 1) = 4 * (h * h) + 10 * h + 6
        BY <2>1
      <3>5. 2 * (2 * h + 2) * ((2 * h + 2) - (h + 1)) = 4 * (h * h) + 8 * h + 4
        BY <2>1
      <3> QED
        BY <2>1, <3>2, <3>3, <3>4, <3>5
    <2> HIDE DEF sum, len
    <2>5. sum = 2 * (h * d) + 2 * d + h + 1
      BY <1>4, <2>1, <2>4
    <2>6. /\ d * len = 2 * (h * d) + 2 * d
          /\ (d + 1) * len = 2 * (h * d) + 2 * d + 2 * h + 2
      BY <2>1, <2>3
    <2>7. d * m <= 2 * (h * d) + 2 * d
      <3>1. d * m <= d * (2 * h + 2)
        BY <1>1, <2>1
      <3> QED
        BY <2>1, <3>1
    <2>8. n - sum < 2 * d
      BY <1>1, <2>1, <2>5, <2>7
    <2> QED
      BY <1>3, <1>4, <2>1, <2>5, <2>6, <2>8 DEF RoundIsFair, sum, len, o
  <1> QED
    BY <1>8, <1>9, <1>10

(***************************************************************************)
(* What the whole schedule adds up to.                                     *)
(***************************************************************************)
LEMMA RepetitionIsSmall ==
  ASSUME NEW n \in Nat, NEW d \in Nat \ {0}, NEW k \in SplitFactors(n, d)
  PROVE  n \div k \in Nat /\ n \div k < 2 * (d * d)
  <1> DEFINE b == 2 * (d * d)
  <1>1. k \in Nat \ {0} /\ n < b * k /\ b \in Nat
    BY SplitFactorBounds
  <1> HIDE DEF b
  <1>2. n \div k \in Nat /\ k * (n \div k) <= n
    BY <1>1, DivBounds
  <1>3. ASSUME n \div k >= b PROVE FALSE
    <2>1. k * (n \div k) >= k * b
      BY <1>1, <1>2, <1>3
    <2> QED
      BY <1>1, <1>2, <2>1
  <1> QED
    BY <1>1, <1>2, <1>3 DEF b

LEMMA ScheduleSum ==
  ASSUME NEW n \in Nat, NEW d \in Nat \ {0}, NEW k \in SplitFactors(n, d)
  PROVE  LET s == Schedule(n, d, k)
         IN  /\ SumFunction(s) \div Len(s) = d
             /\ n - SumFunction(s) < 2 * d * k
  <1> DEFINE r == n \div k
             o == OneRound(r, d)
             len == Len(o)
             sum == SumFunctionOnSet(o, 1 .. len)
             s == Schedule(n, d, k)
             total == SumFunction(s)
  <1>1. k \in Nat \ {0}
    BY SplitFactorBounds
  <1>2. r \in Nat /\ r < 2 * (d * d)
    BY RepetitionIsSmall
  <1>3. n < k * r + k
    BY <1>1, DivBounds
  <1> HIDE DEF r
  <1>4. RoundIsFair(r, d)
    BY <1>2, RoundFairness
  <1>5. /\ len \in Nat \ {0} /\ sum \in Int
        /\ d * len <= sum /\ sum < (d + 1) * len
        /\ r - sum < 2 * d
    BY <1>4 DEF RoundIsFair
  <1>6. s = [x \in 1 .. (k * len) |-> o[((x - 1) % len) + 1]]
    BY DEF Schedule, r
  <1>7. \A x \in 1 .. len : o[x] \in Int
    <2>1. o \in Seq(Nat \ {0})
      BY <1>2, OneRoundPositive
    <2> HIDE DEF o
    <2> QED
      BY <2>1
  <1>8. k * len \in Nat \ {0}
    BY <1>1, <1>5
  <1> HIDE DEF o
  <1>9. total = k * sum
    <2>1. DOMAIN s = 1 .. (k * len)
      BY <1>6
    <2>2. SumFunctionOnSet(s, 1 .. (k * len)) = k * sum
      <3> HIDE DEF len
      <3> HIDE DEF s
      <3> QED
        BY <1>1, <1>5, <1>6, <1>7, RepeatedSum DEF sum
    <2> QED
      BY <2>1, <2>2 DEF SumFunction
  <1>10. Len(s) = k * len
    <2>1. s \in Seq(Nat \ {0})
      BY PlannedBurstsPositive
    <2> HIDE DEF len
    <2>2. DOMAIN s = 1 .. (k * len)
      BY <1>6
    <2> HIDE DEF s
    <2> QED
      BY <1>8, <2>1, <2>2
  <1> HIDE DEF s, sum, len, total
  <1>11. total \div Len(s) = d
    <2> DEFINE w == k * len
               z == total - d * w
    <2>1. d * w <= total /\ total < d * w + w
      <3>1. k * (d * len) <= k * sum
        BY <1>1, <1>5
      <3>2. k * sum < k * ((d + 1) * len)
        BY <1>1, <1>5
      <3>3. k * (d * len) = d * w
        BY <1>1, <1>5
      <3>4. k * ((d + 1) * len) = d * w + w
        BY <1>1, <1>5
      <3> QED
        BY <1>9, <3>1, <3>2, <3>3, <3>4
    <2>2. total \in Int
      BY <1>1, <1>5, <1>9
    <2>3. w \in Nat \ {0}
      BY <1>8
    <2>4. Len(s) = w
      BY <1>10
    <2> HIDE DEF w
    <2>5. d * w \in Nat
      BY <2>3
    <2>6. z \in 0 .. (w - 1) /\ total \in Nat /\ total = w * d + z
      BY <2>1, <2>2, <2>3, <2>5
    <2> HIDE DEF z
    <2> QED
      BY <2>3, <2>4, <2>6, DivModUnique
  <1>12. n - total < 2 * d * k
    <2>1. r + 1 <= sum + 2 * d
      BY <1>2, <1>5
    <2>2. k * (r + 1) <= k * (sum + 2 * d)
      BY <1>1, <1>2, <1>5, <2>1
    <2>3. k * (r + 1) = k * r + k /\ k * (sum + 2 * d) = k * sum + 2 * d * k
      BY <1>1, <1>2, <1>5
    <2> DEFINE a == k * sum
               b == 2 * d * k
               c == k * r
    <2>4. a \in Int /\ b \in Int /\ c \in Int
      BY <1>1, <1>2, <1>5
    <2>5. n < c + k /\ total = a /\ c + k <= a + b
      BY <1>3, <1>9, <2>2, <2>3
    <2> HIDE DEF a, b, c
    <2>6. n - total < b
      BY <1>1, <2>4, <2>5
    <2> QED
      BY <2>6 DEF b
  <1> QED
    BY <1>11, <1>12 DEF total, s

-----------------------------------------------------------------------------
(***************************************************************************)
(* A made plan is the schedule of a factor the search may end with.        *)
(***************************************************************************)
PlanIsSchedule ==
  pc = "planned" => /\ l \in SplitFactors(load, denominator)
                    /\ poissonArrivals = Schedule(load, denominator, l)

LEMMA PlanIsScheduleStep ==
  SearchInv /\ PlanIsSchedule /\ [PlanNext]_planVars => PlanIsSchedule'
  <1> SUFFICES ASSUME SearchInv, PlanIsSchedule, [PlanNext]_planVars
               PROVE  PlanIsSchedule'
    OBVIOUS
  <1> USE DEF PlanIsSchedule
  <1>1. CASE Small
    BY <1>1 DEF Small
  <1>2. CASE Large
    BY <1>2 DEF Large
  <1>3. CASE Found
    BY <1>3 DEF Found
  <1>4. CASE NextCandidate
    BY <1>4 DEF NextCandidate
  <1>5. CASE Build
    <2>1. l \in SplitFactors(load, denominator)
      BY <1>5 DEF Build, SearchInv
    <2> QED
      BY <1>5, <2>1 DEF Build
  <1>6. CASE UNCHANGED planVars
    BY <1>6 DEF planVars
  <1> QED
    BY <1>1, <1>2, <1>3, <1>4, <1>5, <1>6 DEF PlanNext

LEMMA PlanInvariant == PlanSpec => [](SearchInv /\ PlanIsSchedule)
  <1>1. PlanInit => PlanIsSchedule
    BY DEF PlanInit, PlanIsSchedule
  <1> QED
    BY <1>1, SearchInvInit, SearchInvStep, PlanIsScheduleStep, PTL DEF PlanSpec

(***************************************************************************)
(* Whatever the load and the rate, every burst poissonRun plans is         *)
(* positive and the bursts average, in integer division, to the arrival    *)
(* rate the user gave: the two figures it prints are equal.                *)
(***************************************************************************)
THEOREM PlanHasTheRate == PlanSpec => []MeanIsRate
  <1>1. SearchInv /\ PlanIsSchedule => MeanIsRate
    <2> SUFFICES ASSUME SearchInv, PlanIsSchedule, pc = "planned"
                 PROVE  /\ \A k \in DOMAIN poissonArrivals :
                             poissonArrivals[k] > 0
                        /\ SumFunction(poissonArrivals) \div Len(poissonArrivals)
                             = denominator
      BY DEF MeanIsRate
    <2>1. /\ load \in Nat /\ denominator \in Nat \ {0}
          /\ l \in SplitFactors(load, denominator)
          /\ poissonArrivals = Schedule(load, denominator, l)
      BY DEF SearchInv, PlanIsSchedule
    <2>2. poissonArrivals \in Seq(Nat \ {0})
      BY <2>1, PlannedBurstsPositive
    <2>3. \A k \in DOMAIN poissonArrivals : poissonArrivals[k] > 0
      BY <2>2
    <2>4. SumFunction(poissonArrivals) \div Len(poissonArrivals) = denominator
      BY <2>1, ScheduleSum
    <2> QED
      BY <2>3, <2>4
  <1> QED
    BY <1>1, PlanInvariant, PTL

(***************************************************************************)
(* The packets poissonRun has no burst for are fewer than arrive in two    *)
(* seconds of each repetition, whatever the load and the rate.             *)
(***************************************************************************)
THEOREM PlanFallsLittleShort == PlanSpec => []ShortfallBounded
  <1>1. SearchInv /\ PlanIsSchedule => ShortfallBounded
    BY ScheduleSum DEF SearchInv, PlanIsSchedule, ShortfallBounded
  <1> QED
    BY <1>1, PlanInvariant, PTL
-----------------------------------------------------------------------------
Turns == 0 .. (Visited - 1)

LEMMA TurnsAreThree == Turns = {0, 1, 2} /\ Turns \subseteq QIds
  BY VisitedAssumption, NumQueuesAssumption DEF Turns, Visited, QIds

LEMMA Weights == \A q \in Turns : qWeights[q] \in Nat
  BY TurnsAreThree, WeightsAssumption

(***************************************************************************)
(* The types the arguments below need.                                     *)
(***************************************************************************)
Types ==
  /\ deqPc \in DeqPcs
  /\ deqQ \in Turns
  /\ deqI \in Nat
  /\ deqStop \in BOOLEAN
  /\ bypass \in [QIds -> Nat]
  /\ afterStop \in Nat

(***************************************************************************)
(* A visit forwards at most the weight of its queue, and a packet is in    *)
(* hand only while it is being transferred.                                *)
(***************************************************************************)
WithinWeight ==
  /\ deqPc \in {"burst", "service"} => deqI <= qWeights[deqQ]
  /\ deqPc \in {"transfer", "count"} => deqI < qWeights[deqQ]
  /\ deqPc # "transfer" => hand = << >>

(***************************************************************************)
(* What the visit in progress, or the last one, may have sent.             *)
(***************************************************************************)
SentThisVisit ==
  CASE deqPc = "visit" -> 0
    [] deqPc \in {"burst", "transfer", "service"} -> deqI
    [] deqPc = "count" -> deqI + 1
    [] OTHER -> qWeights[deqQ]

(***************************************************************************)
(* What was sent after terminate() was sent by the visit during which it   *)
(* was called: no visit begins once it has been.                           *)
(***************************************************************************)
StopsSoon ==
  /\ ~ deqStop => afterStop = 0
  /\ afterStop <= SentThisVisit

(***************************************************************************)
(* A queue is bypassed by the visits since its own turn: of three queues,  *)
(* by the one after it, if that is not the current one, and by the current *)
(* one.  Its own visit ends the count.                                     *)
(***************************************************************************)
After(q) == (q + 1) % Visited

SinceTurn(q) == (IF deqQ = After(q) THEN 0 ELSE qWeights[After(q)])
                  + SentThisVisit

Others(q) == qWeights[After(q)] + qWeights[After(After(q))]

Bypassing ==
  \A q \in Turns :
    IF q # deqQ THEN bypass[q] <= SinceTurn(q)
    ELSE IF deqPc \in {"visit", "burst"} THEN bypass[q] <= Others(q)
    ELSE bypass[q] = 0

Ind == Types /\ WithinWeight /\ StopsSoon /\ Bypassing

LEMMA Rotation ==
  ASSUME NEW q \in Turns
  PROVE  /\ After(q) \in Turns /\ After(After(q)) \in Turns
         /\ After(q) # q /\ After(After(q)) # q /\ After(q) # After(After(q))
         /\ After(After(After(q))) = q
         /\ Turns = {q, After(q), After(After(q))}
  <1>1. After(0) = 1 /\ After(1) = 2 /\ After(2) = 0
    BY DEF After, Visited
  <1> QED
    BY <1>1, TurnsAreThree

-----------------------------------------------------------------------------
LEMMA IndInit == Init => Ind
  <1> SUFFICES ASSUME Init PROVE Ind
    OBVIOUS
  <1>1. Types
    <2>1. deqPc \in DeqPcs /\ deqI \in Nat /\ deqStop \in BOOLEAN
      BY DEF Init, DeqInit, DeqPcs
    <2>2. deqQ \in Turns
      BY DEF Init, DeqInit, Turns, Visited
    <2>3. bypass \in [QIds -> Nat] /\ afterStop \in Nat
      BY DEF Init
    <2> QED
      BY <2>1, <2>2, <2>3 DEF Types
  <1>2. WithinWeight
    BY DEF Init, DeqInit, WithinWeight
  <1>3. SentThisVisit = qWeights[deqQ] /\ qWeights[deqQ] \in Nat
    BY <1>1, Weights DEF Init, DeqInit, SentThisVisit, Types
  <1>4. StopsSoon
    BY <1>3 DEF Init, DeqInit, StopsSoon
  <1>5. \A q \in Turns : bypass[q] = 0 /\ SinceTurn(q) \in Nat
    BY <1>3, Rotation, Weights, TurnsAreThree DEF Init, SinceTurn
  <1>6. Bypassing
    BY <1>5 DEF Bypassing, Init, DeqInit
  <1> QED
    BY <1>1, <1>2, <1>4, <1>6 DEF Ind

(***************************************************************************)
(* Steps of the other threads: they touch neither the visit nor the counts.*)
(***************************************************************************)
LEMMA IndOthers ==
  ASSUME Ind,
         \/ Start \/ Stop \/ UNCHANGED vars
         \/ \E q \in QIds, p \in Packets : Arrive(q, p)
  PROVE  Ind'
  <1>1. CASE Start
    <2>1. /\ deqPc = "off" /\ deqPc' = "run"
          /\ UNCHANGED << deqQ, deqI, hand, deqStop, bypass, afterStop >>
      BY <1>1 DEF Start
    <2>2. Types' /\ WithinWeight'
      BY <2>1 DEF Ind, Types, WithinWeight, DeqPcs
    <2>3. SentThisVisit' = SentThisVisit
      BY <2>1 DEF SentThisVisit
    <2>4. StopsSoon' /\ Bypassing'
      BY <2>1, <2>3 DEF Ind, StopsSoon, Bypassing, SinceTurn
    <2> QED
      BY <2>2, <2>4 DEF Ind
  <1>2. ASSUME UNCHANGED << deqPc, deqQ, deqI, hand, bypass, afterStop >>,
               deqStop' = deqStop \/ deqStop' = TRUE
        PROVE  Ind'
    <2>1. SentThisVisit' = SentThisVisit
      BY <1>2 DEF SentThisVisit
    <2>2. StopsSoon' /\ Bypassing'
      BY <1>2, <2>1 DEF Ind, StopsSoon, Bypassing, SinceTurn
    <2>3. Types' /\ WithinWeight'
      BY <1>2 DEF Ind, Types, WithinWeight
    <2> QED
      BY <2>2, <2>3 DEF Ind
  <1>3. CASE Stop
    BY <1>2, <1>3 DEF Stop, DeqTerminate
  <1>4. CASE \E q \in QIds, p \in Packets : Arrive(q, p)
    BY <1>2, <1>4 DEF Arrive, deqVars
  <1>5. CASE UNCHANGED vars
    BY <1>2, <1>5 DEF vars, deqVars
  <1> QED
    BY <1>1, <1>3, <1>4, <1>5

(***************************************************************************)
(* A step of the task: what it does to the bypass counts.                  *)
(***************************************************************************)
LEMMA ServeCounts ==
  ASSUME Ind, Serve
  PROVE  /\ bypass' \in [QIds -> Nat]
         /\ \A q \in Turns :
              /\ deqPc # "transfer" => bypass'[q] <= bypass[q]
              /\ bypass'[q] <= bypass[q] + 1
              /\ bypass[q] = 0 /\ q = deqQ => bypass'[q] = 0
              /\ bypass[q] = 0 /\ deqPc # "transfer" => bypass'[q] = 0
              /\ q = deqQ /\ deqPc = "burst" => bypass'[q] = 0
              /\ QueueEmpty(q) => bypass'[q] = 0
              /\ bypass'[q] \in Nat
         /\ afterStop' = IF deqPc = "transfer" /\ deqStop THEN afterStop + 1
                         ELSE afterStop
  <1>1. /\ bypass \in [QIds -> Nat] /\ Turns \subseteq QIds
        /\ bypass' = [q \in QIds |->
                  IF (q = deqQ /\ deqPc = "burst") \/ QueueEmpty(q) THEN 0
                  ELSE IF deqPc = "transfer" /\ q # deqQ THEN bypass[q] + 1
                  ELSE bypass[q]]
    BY TurnsAreThree DEF Serve, Ind, Types
  <1>2. bypass' \in [QIds -> Nat]
    BY <1>1
  <1>3. ASSUME NEW q \in Turns
        PROVE  /\ q \in QIds /\ bypass[q] \in Nat
               /\ bypass'[q] =
                    IF (q = deqQ /\ deqPc = "burst") \/ QueueEmpty(q) THEN 0
                    ELSE IF deqPc = "transfer" /\ q # deqQ THEN bypass[q] + 1
                    ELSE bypass[q]
    BY <1>1
  <1> QED
    BY <1>2, <1>3 DEF Serve


(***************************************************************************)
(* What a step of the task does to the visit: it begins the next one, which*)
(* terminate() prevents, or it goes on with the current one.               *)
(***************************************************************************)
NextVisit ==
  /\ deqPc = "loop" /\ deqPc' = "visit" /\ ~ deqStop
  /\ deqQ' = After(deqQ)
  /\ SentThisVisit = qWeights[deqQ] /\ SentThisVisit' = 0

SameVisit ==
  /\ deqQ' = deqQ
  /\ IF deqPc = "transfer" THEN SentThisVisit' = SentThisVisit + 1
                           ELSE SentThisVisit' >= SentThisVisit
  /\ deqPc' \in {"visit", "burst"} => deqPc \in {"visit", "burst", "count"}
  /\ deqPc = "visit" => deqPc' = "burst" \/ QueueEmpty(deqQ)

LEMMA VisitStep ==
  ASSUME Ind, Serve
  PROVE  /\ Types' /\ WithinWeight' /\ deqStop' = deqStop
         /\ NextVisit \/ SameVisit
  <1>1. /\ deqPc \in DeqPcs /\ deqQ \in Turns /\ deqI \in Nat
        /\ deqStop \in BOOLEAN /\ qWeights[deqQ] \in Nat
    BY Weights DEF Ind, Types
  <1>2. bypass' \in [QIds -> Nat] /\ afterStop' \in Nat
    <2>1. afterStop \in Nat
      BY DEF Ind, Types
    <2> QED
      BY <2>1, ServeCounts
  <1>3. CASE DeqNextQueue
    <2>1. /\ deqPc = "loop" /\ deqPc' = "visit" /\ ~ deqStop
          /\ deqQ' = After(deqQ)
          /\ UNCHANGED << deqI, hand, deqStop >>
      BY <1>3 DEF DeqNextQueue, Stopped, NextQueue, After
    <2>2. NextVisit
      BY <2>1 DEF NextVisit, SentThisVisit
    <2>3. Types' /\ WithinWeight'
      BY <1>1, <1>2, <2>1, Rotation DEF Types, WithinWeight, Ind, DeqPcs
    <2> QED
      BY <2>1, <2>2, <2>3
  <1> USE DEF Types, WithinWeight, SentThisVisit, Ind, DeqPcs, SameVisit
  <1>4. CASE DeqRun
    BY <1>1, <1>2, <1>4 DEF DeqRun
  <1>5. CASE DeqExit
    BY <1>1, <1>2, <1>5 DEF DeqExit
  <1>6. CASE DeqSkip
    BY <1>1, <1>2, <1>6 DEF DeqSkip
  <1>7. CASE DeqVisit
    BY <1>1, <1>2, <1>7 DEF DeqVisit
  <1>8. CASE DeqPop
    BY <1>1, <1>2, <1>8 DEF DeqPop
  <1>9. CASE DeqTransfer
    BY <1>1, <1>2, <1>9 DEF DeqTransfer
  <1>10. CASE DeqCount
    BY <1>1, <1>2, <1>10 DEF DeqCount
  <1>11. CASE DeqEndBurst
    BY <1>1, <1>2, <1>11 DEF DeqEndBurst
  <1>12. CASE DeqService
    BY <1>1, <1>2, <1>12 DEF DeqService
  <1> QED
    BY <1>3, <1>4, <1>5, <1>6, <1>7, <1>8, <1>9, <1>10, <1>11, <1>12
    DEF Serve, DeqStep

LEMMA SentNat == Ind => SentThisVisit \in Nat /\ deqQ \in Turns
  BY Weights DEF Ind, Types, SentThisVisit

(***************************************************************************)
(* terminate(): the packet of a transfer is one of the current visit.      *)
(***************************************************************************)
LEMMA StopsSoonServe ==
  ASSUME Ind, Serve
  PROVE  StopsSoon'
  <1>1. /\ afterStop \in Nat /\ deqStop \in BOOLEAN /\ SentThisVisit \in Nat
        /\ SentThisVisit' \in Nat
    BY VisitStep, SentNat, Weights DEF Ind, Types, SentThisVisit
  <1>2. CASE NextVisit
    BY <1>1, <1>2, VisitStep, ServeCounts DEF NextVisit, Ind, StopsSoon
  <1>3. CASE SameVisit
    BY <1>1, <1>3, VisitStep, ServeCounts DEF SameVisit, Ind, StopsSoon
  <1> QED
    BY <1>2, <1>3, VisitStep

LEMMA BypassingServe ==
  ASSUME Ind, Serve
  PROVE  Bypassing'
  <1>1. /\ deqQ \in Turns /\ SentThisVisit \in Nat /\ SentThisVisit' \in Nat
        /\ \A q \in Turns : bypass[q] \in Nat /\ bypass'[q] \in Nat
    BY VisitStep, SentNat, Weights, TurnsAreThree, ServeCounts
    DEF Ind, Types, SentThisVisit
  <1> SUFFICES ASSUME NEW q \in Turns
               PROVE  IF q # deqQ' THEN bypass'[q] <= SinceTurn(q)'
                      ELSE IF deqPc' \in {"visit", "burst"}
                           THEN bypass'[q] <= Others(q)
                      ELSE bypass'[q] = 0
    BY DEF Bypassing, Others
  <1> DEFINE a == After(q)
             b == After(After(q))
  <1>2. /\ a \in Turns /\ b \in Turns /\ a # q /\ b # q /\ a # b
        /\ After(b) = q /\ Turns = {q, a, b}
        /\ qWeights[a] \in Nat /\ qWeights[b] \in Nat
    BY Rotation, Weights
  <1>3. /\ SinceTurn(q) = (IF deqQ = a THEN 0 ELSE qWeights[a]) + SentThisVisit
        /\ SinceTurn(q)' =
             (IF deqQ' = a THEN 0 ELSE qWeights[a]) + SentThisVisit'
        /\ Others(q) = qWeights[a] + qWeights[b]
    BY DEF SinceTurn, Others
  <1>4. IF q # deqQ THEN bypass[q] <= SinceTurn(q)
        ELSE IF deqPc \in {"visit", "burst"} THEN bypass[q] <= Others(q)
        ELSE bypass[q] = 0
    BY DEF Ind, Bypassing
  <1>5. CASE NextVisit
    <2>1. bypass'[q] <= bypass[q] /\ (bypass[q] = 0 => bypass'[q] = 0)
      BY <1>5, ServeCounts DEF NextVisit
    <2>2. CASE deqQ = q
      BY <1>1, <1>2, <1>3, <1>4, <1>5, <2>1, <2>2 DEF NextVisit
    <2>3. CASE deqQ = a
      <3>1. deqQ' = b /\ SentThisVisit' = 0
        BY <1>5, <2>3 DEF NextVisit
      <3>2. bypass[q] <= qWeights[a]
        BY <1>2, <1>3, <1>4, <1>5, <2>3 DEF NextVisit
      <3> HIDE DEF a, b
      <3> QED
        BY <1>1, <1>2, <1>3, <2>1, <3>1, <3>2
    <2>4. CASE deqQ = b
      <3>1. deqQ' = q /\ deqPc' = "visit"
        BY <1>2, <1>5, <2>4 DEF NextVisit
      <3>2. bypass[q] <= qWeights[a] + qWeights[b]
        BY <1>2, <1>3, <1>4, <1>5, <2>4 DEF NextVisit
      <3> HIDE DEF a, b
      <3> QED
        BY <1>1, <1>2, <1>3, <2>1, <3>1, <3>2
    <2> QED
      BY <1>1, <1>2, <2>2, <2>3, <2>4
  <1>6. CASE SameVisit
    <2> HIDE DEF a, b
    <2>1. CASE q # deqQ
      <3>1. bypass'[q] <= bypass[q] \/ /\ deqPc = "transfer"
                                       /\ bypass'[q] <= bypass[q] + 1
        BY ServeCounts
      <3>2. /\ deqQ' = deqQ /\ SentThisVisit' >= SentThisVisit
            /\ deqPc = "transfer" => SentThisVisit' = SentThisVisit + 1
        BY <1>1, <1>6 DEF SameVisit
      <3>3. bypass'[q] <= SinceTurn(q)'
        BY <1>1, <1>2, <1>3, <1>4, <2>1, <3>1, <3>2
      <3> QED
        BY <2>1, <3>2, <3>3
    <2>2. CASE q = deqQ /\ deqPc' \in {"visit", "burst"}
      <3>1. bypass'[q] <= bypass[q] \/ bypass'[q] = 0
        BY <1>6, <2>2, ServeCounts DEF SameVisit
      <3>2. bypass[q] <= Others(q)
        BY <1>1, <1>2, <1>3, <1>4, <1>6, <2>2 DEF SameVisit
      <3> QED
        BY <1>1, <1>2, <1>3, <1>6, <2>2, <3>1, <3>2 DEF SameVisit
    <2>3. CASE q = deqQ /\ deqPc' \notin {"visit", "burst"}
      <3>1. \/ QueueEmpty(deqQ) \/ deqPc = "burst" \/ bypass[q] = 0
        BY <1>4, <1>6, <2>3 DEF SameVisit
      <3>2. bypass'[q] = 0
        BY <2>3, <3>1, ServeCounts
      <3> QED
        BY <1>6, <2>3, <3>2 DEF SameVisit
    <2> QED
      BY <2>1, <2>2, <2>3
  <1> QED
    BY <1>5, <1>6, VisitStep

LEMMA IndInvariant == Spec => []Ind
  <1>1. Ind /\ [Next]_vars => Ind'
    <2> SUFFICES ASSUME Ind, [Next]_vars PROVE Ind'
      OBVIOUS
    <2>1. CASE Serve
      BY <2>1, VisitStep, StopsSoonServe, BypassingServe DEF Ind
    <2> QED
      BY <2>1, IndOthers DEF Next
  <1> QED
    BY <1>1, IndInit, PTL DEF Spec

-----------------------------------------------------------------------------
(***************************************************************************)
(* The sum of the other queues' weights, written out.                      *)
(***************************************************************************)
LEMMA OthersIsSum ==
  ASSUME NEW q \in Turns
  PROVE  SumFunctionOnSet(qWeights, (0 .. (Visited - 1)) \ {q}) = Others(q)
  <1> DEFINE a == After(q)
             b == After(After(q))
  <1>1. /\ Turns \ {q} = {a, b} /\ a # b
        /\ qWeights[a] \in Nat /\ qWeights[b] \in Nat
    BY Rotation, Weights
  <1> HIDE DEF a, b
  <1>2. IsFiniteSet({a, b}) /\ IsFiniteSet({b})
    <2>1. IsFiniteSet({b}) /\ {a, b} = {b} \cup {a}
      BY FS_Singleton
    <2> QED
      BY <2>1, FS_AddElement
  <1>3. {a, b} \ {a} = {b} /\ {b} \ {b} = {}
    BY <1>1
  <1>4. SumFunctionOnSet(qWeights, {a, b}) =
          qWeights[a] + SumFunctionOnSet(qWeights, {b})
    BY <1>1, <1>2, <1>3, SumTake
  <1>5. SumFunctionOnSet(qWeights, {b}) = qWeights[b] + 0
    BY <1>1, <1>2, <1>3, SumTake, SumEmpty
  <1>6. SumFunctionOnSet(qWeights, Turns \ {q}) = qWeights[a] + qWeights[b]
    <2>1. SumFunctionOnSet(qWeights, Turns \ {q}) =
            SumFunctionOnSet(qWeights, {a, b})
      BY <1>1, Zenon
    <2>2. SumFunctionOnSet(qWeights, {a, b}) = qWeights[a] + qWeights[b]
      BY <1>1, <1>4, <1>5
    <2> QED
      BY <2>1, <2>2
  <1> QED
    BY <1>6 DEF Turns, Others, a, b

(***************************************************************************)
(* Weighted fairness, for any arrivals: between two visits to a waiting    *)
(* queue the others send at most their weights, once.                      *)
(***************************************************************************)
THEOREM BypassIsBounded == Spec => []BoundedBypass
  <1>1. Ind => BoundedBypass
    <2> SUFFICES ASSUME Ind, NEW q \in Turns
                 PROVE  bypass[q] <= Others(q)
      BY OthersIsSum DEF BoundedBypass, Turns
    <2> DEFINE a == After(q)
               b == After(After(q))
    <2>1. /\ a \in Turns /\ b \in Turns /\ Turns = {q, a, b} /\ a # q /\ a # b
          /\ b # q /\ qWeights[a] \in Nat /\ qWeights[b] \in Nat
          /\ q \in QIds /\ bypass[q] \in Nat /\ deqQ \in Turns
      BY Rotation, Weights, TurnsAreThree DEF Ind, Types
    <2>2. SentThisVisit \in Nat /\ SentThisVisit <= qWeights[deqQ]
      BY SentNat, Weights DEF Ind, Types, WithinWeight, SentThisVisit
    <2>3. Others(q) = qWeights[a] + qWeights[b]
      BY DEF Others
    <2>4. SinceTurn(q) = (IF deqQ = a THEN 0 ELSE qWeights[a]) + SentThisVisit
      BY DEF SinceTurn
    <2>5. IF q # deqQ THEN bypass[q] <= SinceTurn(q)
          ELSE bypass[q] <= Others(q) \/ bypass[q] = 0
      BY DEF Ind, Bypassing
    <2> HIDE DEF a, b
    <2> QED
      BY <2>1, <2>2, <2>3, <2>4, <2>5
  <1> QED
    BY <1>1, IndInvariant, PTL

(***************************************************************************)
(* terminate() is obeyed within the visit it falls in, and leaves no packet*)
(* in hand.                                                                *)
(***************************************************************************)
THEOREM StopIsPrompt == Spec => []PromptStop
  <1>1. Ind => PromptStop
    <2> SUFFICES ASSUME Ind PROVE PromptStop
      OBVIOUS
    <2>1. SentThisVisit \in Nat /\ SentThisVisit <= qWeights[deqQ]
          /\ qWeights[deqQ] \in Nat /\ afterStop \in Nat
      BY SentNat, Weights DEF Ind, Types, WithinWeight, SentThisVisit
    <2> QED
      BY <2>1 DEF Ind, StopsSoon, WithinWeight, PromptStop
  <1> QED
    BY <1>1, IndInvariant, PTL
=============================================================================
