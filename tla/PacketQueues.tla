---------------------------- MODULE PacketQueues ----------------------------
(***************************************************************************)
(* The output queues of one output adaptor: an array of `numQueues` FIFO   *)
(* queues shared by the threads that push packets and the thread that pops *)
(* them (Network/Router/Queue/queue.cpp).  The queue is boost's lock-free  *)
(* queue; here push and pop take effect in one step, which is what         *)
(* LockFreeQueue is about.                                                 *)
(***************************************************************************)
EXTENDS Naturals, Sequences

CONSTANTS Packets,      \* the packets of a run, each a distinct value
          NumQueues     \* OutputAdaptor::numQueues

ASSUME NumQueuesAssumption == NumQueues \in Nat \ {0}

VARIABLE queues         \* queues[q] is the content of queue q, head first

QIds == 0 .. (NumQueues - 1)

QueuesInit == queues = [q \in QIds |-> << >>]

QueueEmpty(q) == queues[q] = << >>

\* Mutant of QueuePush: a stack instead of a queue.
QueuePushFront(q, p) == queues' = [queues EXCEPT ![q] = << p >> \o @]

QueuePush(q, p) == queues' = [queues EXCEPT ![q] = Append(@, p)]

QueuePop(q) == queues' = [queues EXCEPT ![q] = Tail(@)]

QueuesTypeOK == queues \in [QIds -> Seq(Packets)]
=============================================================================
