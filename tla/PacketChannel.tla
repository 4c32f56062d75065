---------------------------- MODULE PacketChannel ----------------------------
(***************************************************************************)
(* What an output adaptor promises, with no thread, buffer or burst in     *)
(* sight: each of its queues is a lossless FIFO channel.  Packets are      *)
(* accepted until the channel is closed to new ones, and each queue        *)
(* delivers what it accepted, one packet at a time and in order.           *)
(***************************************************************************)
EXTENDS Naturals, Sequences

CONSTANTS Packets, QIds

VARIABLES accepted,     \* the packets each queue has accepted
          delivered,    \* the packets each queue has delivered
          closed        \* no more packets are accepted

vars == << accepted, delivered, closed >>

Init ==
  /\ accepted = [q \in QIds |-> << >>]
  /\ delivered = [q \in QIds |-> << >>]
  /\ closed = FALSE

Accept(q, p) ==
  /\ ~ closed
  /\ accepted' = [accepted EXCEPT ![q] = Append(@, p)]
  /\ UNCHANGED << delivered, closed >>

Close ==
  /\ ~ closed
  /\ closed' = TRUE
  /\ UNCHANGED << accepted, delivered >>

Deliver(q) ==
  /\ closed
  /\ Len(delivered[q]) < Len(accepted[q])
  /\ delivered' = [delivered EXCEPT
                     ![q] = Append(@, accepted[q][Len(@) + 1])]
  /\ UNCHANGED << accepted, closed >>

Next ==
  \/ \E q \in QIds, p \in Packets : Accept(q, p)
  \/ Close
  \/ \E q \in QIds : Deliver(q)

Spec == Init /\ [][Next]_vars
=============================================================================
