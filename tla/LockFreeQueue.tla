---------------------------- MODULE LockFreeQueue ----------------------------
(***************************************************************************)
(* The queue under every Queue object (include/queue.hpp): Michael and     *)
(* Scott's linked list with a dummy node, tagged pointers and a free list, *)
(* to which this repository has added the counter qSize.  push and pop are *)
(* modelled load by load and compare-and-swap by compare-and-swap, so that *)
(* PacketQueues may treat each as one step.                                *)
(*                                                                         *)
(* A thread calls the queue the way the adaptors do: a producer pushes; a  *)
(* consumer asks empty() and, when told that it is not, pops once or, in a *)
(* burst, again and again.  QThread::terminate may stop a thread anywhere. *)
(*                                                                         *)
(* The free list is Boost's: a stack of nodes whose operations are atomic. *)
(* Memory is sequentially consistent and a weak compare-and-swap fails     *)
(* only for cause, as on the x86 the program is built for.                 *)
(***************************************************************************)
EXTENDS Integers, Sequences, FiniteSets

CONSTANTS Producers, Consumers,
          NumNodes,     \* bound: the nodes there are
          Pushes,       \* bound: how often each producer pushes
          Mortal        \* the threads that may be killed

ASSUME ThreadsAssumption == /\ Producers \cap Consumers = {}
                            /\ Mortal \subseteq Producers \cup Consumers
ASSUME NumNodesAssumption == NumNodes \in Nat \ {0}
ASSUME PushesAssumption == Pushes \in [Producers -> Nat]

Threads == Producers \cup Consumers
Node    == 1 .. NumNodes
Null    == 0

\* The k-th packet that producer p pushes.
Packet == UNION {{p} \X (1 .. Pushes[p]) : p \in Producers}

\* A tagged pointer, and the one that takes the place of `old`.
Tagged(ptr, tag) == [ptr |-> ptr, tag |-> tag]
Successor(ptr, old) == Tagged(ptr, old.tag + 1)

VARIABLES next, data,     \* the nodes
          pool,           \* the free nodes, the one freed last first
          head_, tail_,   \* the ends of the list
          qSize

VARIABLES pc,             \* what each thread does next
          local,          \* its local variables
          pushed          \* how often each producer has pushed

VARIABLES tested,         \* history: consumers that empty() has told that
                          \* there is a packet, or that began to pop when
                          \* there was one, and nobody else emptied the queue
          spoiled         \* history: how many stores to qSize are lost

nodes   == << next, data, pool >>
ends    == << head_, tail_ >>
size    == << qSize, spoiled >>
threads == << pushed, tested >>

vars == << nodes, ends, size, threads, pc, local >>

Locals == [node |-> Null, head |-> Tagged(Null, 0), tail |-> Tagged(Null, 0),
           next |-> Tagged(Null, 0), ret |-> << >>, n |-> 0]

Init ==
  /\ next = [n \in Node |-> Tagged(Null, 0)]
  /\ data = [n \in Node |-> << >>]
  /\ pool = [k \in 1 .. (NumNodes - 1) |-> k + 1]
  /\ head_ = Tagged(1, 0)
  /\ tail_ = Tagged(1, 0)
  /\ qSize = 0
  /\ pc = [t \in Threads |-> "idle"]
  /\ local = [t \in Threads |-> Locals]
  /\ pushed = [p \in Producers |-> 0]
  /\ tested = {}
  /\ spoiled = 0

(***************************************************************************)
(* Thread t goes on and keeps `l` in its local variables, which nobody     *)
(* looks at once it is idle.                                               *)
(***************************************************************************)
Step(t, from, to, l) ==
  /\ pc[t] = from
  /\ pc' = [pc EXCEPT ![t] = to]
  /\ local' = [local EXCEPT ![t] = IF to = "idle" THEN Locals ELSE l]

(***************************************************************************)
(* The packets in the queue: those of the nodes behind the dummy.          *)
(***************************************************************************)
Follow[k \in 0 .. NumNodes] ==
  IF k = 0 THEN head_.ptr
  ELSE LET before == Follow[k - 1]
       IN  IF before = Null THEN Null ELSE next[before].ptr

Contents ==
  [k \in {j \in Node : Follow[j] # Null} |-> data[Follow[k]]]
-----------------------------------------------------------------------------
(***************************************************************************)
(* Loads that push and pop share: an end, and where a node points to.      *)
(***************************************************************************)
LoadTail(t) ==
  /\ Step(t, "load tail", "load next", [local[t] EXCEPT !.tail = tail_])
  /\ UNCHANGED << nodes, ends, size, threads >>

LoadNext(t) ==
  LET from == IF t \in Producers THEN local[t].tail ELSE local[t].head
  IN  /\ Step(t, "load next", "check",
              [local[t] EXCEPT !.next = next[from.ptr]])
      /\ UNCHANGED << nodes, ends, size, threads >>

(***************************************************************************)
(* Move tail_ on from where thread t saw it, unless somebody else has.     *)
(***************************************************************************)
SwingTail(t, from, to, ptr) ==
  /\ Step(t, from, to, local[t])
  /\ tail_' = IF tail_ = local[t].tail THEN Successor(ptr, tail_) ELSE tail_
  /\ UNCHANGED << nodes, head_, size, threads >>
-----------------------------------------------------------------------------
\* Mutant of Construct: a node starts a new life with a new tag.
Untagged(n) == next' = [next EXCEPT ![n] = Tagged(Null, 0)]

(***************************************************************************)
(* The constructor of a node sets its pointer, with a new tag.             *)
(***************************************************************************)
NullNext(n) == next' = [next EXCEPT ![n] = Successor(Null, @)]

(***************************************************************************)
(* push(): take a node and construct it.                                   *)
(***************************************************************************)
Construct(p) ==
  /\ pushed[p] < Pushes[p]
  /\ pool # << >>
  /\ Step(p, "idle", "load tail", [Locals EXCEPT !.node = Head(pool)])
  /\ NullNext(Head(pool))
  /\ data' = [data EXCEPT ![Head(pool)] = << p, pushed[p] + 1 >>]
  /\ pool' = Tail(pool)
  /\ pushed' = [pushed EXCEPT ![p] = @ + 1]
  /\ UNCHANGED << ends, size, tested >>

(***************************************************************************)
(* If tail_ has not moved since, the next pointer is that of the last node.*)
(***************************************************************************)
CheckTail(p) ==
  /\ Step(p, "check", IF tail_ # local[p].tail THEN "load tail"
                      ELSE IF local[p].next.ptr = Null THEN "link"
                      ELSE "help", local[p])
  /\ UNCHANGED << nodes, ends, size, threads >>

(***************************************************************************)
(* The compare-and-swap that makes the packet part of the queue.           *)
(***************************************************************************)
Link(p) ==
  LET last == local[p].tail.ptr
      won  == next[last] = local[p].next
  IN  /\ Step(p, "link", IF won THEN "swing" ELSE "load tail", local[p])
      /\ next' = IF won
                 THEN [next EXCEPT ![last] = Successor(local[p].node, @)]
                 ELSE next
      /\ UNCHANGED << data, pool, ends, size, threads >>

Swing(p) == SwingTail(p, "swing", "load size", local[p].node)

HelpPush(p) == SwingTail(p, "help", "load tail", local[p].next.ptr)
-----------------------------------------------------------------------------
(***************************************************************************)
(* empty(): compare the handles of both ends, one load each.               *)
(***************************************************************************)
EmptyLoad(c) ==
  /\ Step(c, "idle", "ask", [Locals EXCEPT !.head = head_])
  /\ tested' = tested \cup {c}
  /\ UNCHANGED << nodes, ends, size, pushed >>

EmptyAnswer(c) ==
  LET isEmpty == local[c].head.ptr = tail_.ptr
  IN  /\ Step(c, "ask", IF isEmpty THEN "idle" ELSE "load head", Locals)
      /\ tested' = IF isEmpty THEN tested \ {c} ELSE tested
      /\ UNCHANGED << nodes, ends, size, pushed >>

(***************************************************************************)
(* pop(): load both ends and the dummy's next pointer, and look whether    *)
(* the dummy is still the dummy.                                           *)
(***************************************************************************)
LoadHead(c) ==
  /\ Step(c, "load head", "load tail", [local[c] EXCEPT !.head = head_])
  /\ UNCHANGED << nodes, ends, size, threads >>

\* Mutant of Fails: a packet that tail_ has not caught up with is missed.
FailsEarly(c) == /\ head_ = local[c].head
                 /\ local[c].head.ptr = local[c].tail.ptr

Fails(c) == /\ head_ = local[c].head
            /\ local[c].head.ptr = local[c].tail.ptr
            /\ local[c].next.ptr = Null

Lags(c) == /\ head_ = local[c].head
           /\ local[c].head.ptr = local[c].tail.ptr
           /\ local[c].next.ptr # Null

SeeEmpty(c) ==
  /\ Fails(c)
  /\ Step(c, "check", "idle", Locals)
  /\ tested' = tested \ {c}
  /\ UNCHANGED << nodes, ends, size, pushed >>

SeeLag(c) ==
  /\ Lags(c)
  /\ Step(c, "check", "help", local[c])
  /\ UNCHANGED << nodes, ends, size, threads >>

CopyPacket(c) ==
  LET to == local[c].next.ptr
  IN  /\ ~ Fails(c) /\ ~ Lags(c)
      /\ IF head_ # local[c].head \/ to = Null
         THEN Step(c, "check", "load head", local[c])
         ELSE Step(c, "check", "unlink", [local[c] EXCEPT !.ret = data[to]])
      /\ UNCHANGED << nodes, ends, size, threads >>

\* Mutant of HelpPop: it leaves the producer to move tail_.
HelpPopNot(c) == /\ Step(c, "help", "load head", local[c])
                 /\ UNCHANGED << nodes, ends, size, threads >>

HelpPop(c) == SwingTail(c, "help", "load head", local[c].next.ptr)

(***************************************************************************)
(* The compare-and-swap that takes the packet out: its node is the dummy   *)
(* now, and the old one is given back.                                     *)
(***************************************************************************)
Unlink(c) ==
  LET won == head_ = local[c].head
  IN  /\ Step(c, "unlink", IF won THEN "free" ELSE "load head", local[c])
      /\ head_' = IF won THEN Successor(local[c].next.ptr, head_) ELSE head_
      /\ tested' = IF won /\ Len(Contents) = 1 THEN {} ELSE tested
      /\ UNCHANGED << nodes, tail_, size, pushed >>

(***************************************************************************)
(* The free list keeps its own pointer in the node, under the old tag.     *)
(***************************************************************************)
Free(c) ==
  LET n == local[c].head.ptr
  IN  /\ Step(c, "free", "load size", local[c])
      /\ next' = [next EXCEPT ![n].ptr = IF pool = << >> THEN Null
                                         ELSE Head(pool)]
      /\ pool' = << n >> \o pool
      /\ UNCHANGED << data, ends, size, threads >>
-----------------------------------------------------------------------------
(***************************************************************************)
(* ++qSize and --qSize are a load and a store.  What a thread stores is    *)
(* lost when another one has loaded before and stores after it.            *)
(***************************************************************************)
LoadSize(t) ==
  /\ Step(t, "load size", "store size", [local[t] EXCEPT !.n = qSize])
  /\ UNCHANGED << nodes, ends, size, threads >>

StoreSize(t, to, by) ==
  /\ Step(t, "store size", to, Locals)
  /\ qSize' = local[t].n + by
  /\ spoiled' = spoiled +
       IF \E u \in Threads \ {t} : pc[u] = "store size"
       THEN 1 ELSE 0
  /\ UNCHANGED << nodes, ends, pushed >>

BurstGoesOn(c, by) ==
  /\ \E to \in {"idle", "load head"} :
       /\ StoreSize(c, to, by)
       /\ tested' = IF to = "idle" \/ Contents = << >> THEN tested \ {c}
                    ELSE tested \cup {c}

PushCount(p) == StoreSize(p, "idle", 1) /\ UNCHANGED tested

\* Mutant of PopCount: what is popped is not counted.
PopCountNot(c) == BurstGoesOn(c, 0)

PopCount(c) == BurstGoesOn(c, -1)
-----------------------------------------------------------------------------
PushStep(p) == \/ LoadTail(p) \/ LoadNext(p) \/ CheckTail(p) \/ Link(p)
               \/ Swing(p) \/ HelpPush(p) \/ LoadSize(p) \/ PushCount(p)

PopStep(c) == \/ EmptyAnswer(c) \/ LoadHead(c) \/ LoadTail(c) \/ LoadNext(c)
              \/ SeeEmpty(c) \/ SeeLag(c) \/ CopyPacket(c) \/ HelpPop(c)
              \/ Unlink(c) \/ Free(c) \/ LoadSize(c)
              \/ PopCount(c)

Next ==
  \/ \E p \in Producers : Construct(p) \/ PushStep(p)
  \/ \E c \in Consumers : EmptyLoad(c) \/ PopStep(c)

(***************************************************************************)
(* A thread in a call goes on, except that one that is killed does not; it *)
(* may stop anywhere.  Nobody owes a call.                                 *)
(***************************************************************************)
Fairness == /\ \A p \in Producers \ Mortal : WF_vars(PushStep(p))
            /\ \A c \in Consumers \ Mortal : WF_vars(PopStep(c))

Spec == Init /\ [][Next]_vars /\ Fairness
-----------------------------------------------------------------------------
(***************************************************************************)
(* The queue implements a queue of PacketQueues: a push takes effect when  *)
(* its node is linked and a pop when its node is unlinked, and a pop       *)
(* returns the packet that is first then.                                  *)
(***************************************************************************)
Fifo == INSTANCE PacketQueues WITH Packets <- Packet, NumQueues <- 1,
                                   queues <- [q \in {0} |-> Contents]

Pops(c) == /\ pc[c] = "unlink" /\ pc'[c] = "free"
           /\ Fifo!QueuePop(0)
           /\ local[c].ret = Head(Contents)

FifoSpec ==
  /\ Fifo!QueuesInit
  /\ [][\/ \E v \in Packet : Fifo!QueuePush(0, v)
        \/ \E c \in Consumers : Pops(c)]_Contents

(***************************************************************************)
(* pop() returns false only if the queue was empty at some time since it   *)
(* was called.  Hence, where one thread pops, as everywhere in the program,*)
(* a pop after empty() returned false succeeds: coreRun of an input        *)
(* adaptor, which ends for good when a pop fails, relies on that.          *)
(***************************************************************************)
FailsOnlyWhenEmpty ==
  \A c \in Consumers : pc[c] = "check" /\ Fails(c) => c \notin tested

(***************************************************************************)
(* qSize, which logQDepth records as the depth of the queue, is off by the *)
(* calls that have not counted yet and by no more than the stores that     *)
(* were lost to another thread's.                                          *)
(***************************************************************************)
Uncounted(S, places) == Cardinality({t \in S : pc[t] \in places})

SizeDrift ==
  LET drift == qSize - Len(Contents)
                + Uncounted(Producers, {"swing", "load size", "store size"})
                - Uncounted(Consumers, {"free", "load size", "store size"})
  IN  drift \in (- spoiled) .. spoiled

(***************************************************************************)
(* No call waits for another thread: whoever is killed, and wherever, the  *)
(* calls of the others return.                                             *)
(***************************************************************************)
CallsReturn ==
  \A t \in Threads \ Mortal : (pc[t] # "idle") ~> (pc[t] = "idle")
=============================================================================
