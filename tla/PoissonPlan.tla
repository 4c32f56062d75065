----------------------------- MODULE PoissonPlan -----------------------------
(***************************************************************************)
(* EnQueueProcessor::poissonRun up to its first push, step by step: the    *)
(* search for the number of repetitions l, one candidate i a step, and then*)
(* the schedule.  The other modules take the result from the operators of  *)
(* PoissonArrivals; here the loop is shown to compute them, and the        *)
(* schedule to have the mean it is built for.                              *)
(***************************************************************************)
EXTENDS PoissonArrivals, Functions

CONSTANTS Loads,        \* buffer sizes
          Rates,        \* arrival rates
          MaxI          \* bound on the search; the code's is the int range

ASSUME LoadsAssumption == Loads \subseteq Nat
ASSUME RatesAssumption == Rates \subseteq Nat \ {0}
ASSUME MaxIAssumption == MaxI \in Nat

VARIABLES pc, load, denominator, i, l, poissonArrivals

planVars == << pc, load, denominator, i, l, poissonArrivals >>

PlanInit ==
  /\ pc = "compare"
  /\ load \in Loads
  /\ denominator \in Rates
  /\ i = 0
  /\ l = 0
  /\ poissonArrivals = << >>

cValue == denominator * denominator

Small ==
  /\ pc = "compare"
  /\ load < cValue * 2
  /\ l' = 1
  /\ pc' = "build"
  /\ UNCHANGED << load, denominator, i, poissonArrivals >>

Large ==
  /\ pc = "compare"
  /\ load >= cValue * 2
  /\ pc' = "search"
  /\ UNCHANGED << load, denominator, i, l, poissonArrivals >>

\* Mutant of Found: the candidate is counted before it is taken.
FoundNext ==
  /\ pc = "search"
  /\ Accepted(load, cValue, i)
  /\ l' = i + 1
  /\ pc' = "build"
  /\ UNCHANGED << load, denominator, i, poissonArrivals >>

Found ==
  /\ pc = "search"
  /\ Accepted(load, cValue, i)
  /\ l' = i
  /\ pc' = "build"
  /\ UNCHANGED << load, denominator, i, poissonArrivals >>

NextCandidate ==
  /\ pc = "search"
  /\ ~ Accepted(load, cValue, i)
  /\ i < MaxI
  /\ i' = i + 1
  /\ UNCHANGED << pc, load, denominator, l, poissonArrivals >>

Build ==
  /\ pc = "build"
  /\ poissonArrivals' = Schedule(load, denominator, l)
  /\ pc' = "planned"
  /\ UNCHANGED << load, denominator, i, l >>

PlanNext == Small \/ Large \/ Found \/ NextCandidate \/ Build

PlanSpec == PlanInit /\ [][PlanNext]_planVars /\ WF_planVars(PlanNext)
-----------------------------------------------------------------------------
(***************************************************************************)
(* The loop finds the factor SplitFactors describes.                       *)
(***************************************************************************)
SearchFindsFactor == pc = "build" => SplitFactors(load, denominator) = {l}

(***************************************************************************)
(* The planned bursts are all positive and average to the arrival rate: the*)
(* "Measured" figure the code prints equals the "Actual" one.              *)
(***************************************************************************)
MeanIsRate ==
  pc = "planned" =>
    /\ \A k \in DOMAIN poissonArrivals : poissonArrivals[k] > 0
    /\ SumFunction(poissonArrivals) \div Len(poissonArrivals) = denominator

(***************************************************************************)
(* The schedule is made in the end, except for a load of exactly twice the *)
(* squared rate.                                                           *)
(***************************************************************************)
PlanMade == (load # 2 * cValue) ~> (pc = "planned")

(***************************************************************************)
(* The integer divisions drop packets, and poissonRun has no burst for     *)
(* them: it goes on past the end of the schedule.  It does so for fewer    *)
(* packets than two seconds of arrivals for each repetition.               *)
(***************************************************************************)
ShortfallBounded ==
  pc = "planned" =>
    load - SumFunction(poissonArrivals) < 2 * denominator * l
=============================================================================
