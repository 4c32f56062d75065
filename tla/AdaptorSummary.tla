--------------------------- MODULE AdaptorSummary ---------------------------
(***************************************************************************)
(* What the border router sees of one of its output adaptors: it is filled,*)
(* started, counts the packets it sends, copies that count for the router  *)
(* now and then, and finishes once everything has been sent.  When its     *)
(* notify calls race nothing is promised about the copy or the end.        *)
(***************************************************************************)
EXTENDS Integers

VARIABLES offered,      \* the packets it was filled with
          counted,      \* the packets it has sent and counted
          copied,       \* the count it last copied
          phase,        \* "idle", "running" or "done"
          raced         \* notify calls overlapped

vars == << offered, counted, copied, phase, raced >>

Init ==
  /\ offered = 0
  /\ counted = 0
  /\ copied = 0
  /\ phase = "idle"
  /\ raced = FALSE

Fill ==
  /\ phase = "idle"
  /\ offered' = offered + 1
  /\ UNCHANGED << counted, copied, phase, raced >>

Begin ==
  /\ phase = "idle"
  /\ phase' = "running"
  /\ UNCHANGED << offered, counted, copied, raced >>

Count ==
  /\ phase # "idle"
  /\ counted < offered
  /\ counted' = counted + 1
  /\ UNCHANGED << offered, copied, phase, raced >>

Copy ==
  /\ phase = "running"
  /\ copied' = counted
  /\ UNCHANGED << offered, counted, phase, raced >>

Finish ==
  /\ phase = "running"
  /\ counted = offered
  /\ phase' = "done"
  /\ UNCHANGED << offered, counted, copied, raced >>

Race ==
  /\ phase # "idle"
  /\ raced'
  /\ copied' \in Int
  /\ phase' \in {phase, "done"}
  /\ counted' \in {counted, counted + 1}
  /\ UNCHANGED offered

Next == Fill \/ Begin \/ Count \/ Copy \/ Finish \/ Race

Spec == Init /\ [][Next]_vars
=============================================================================
