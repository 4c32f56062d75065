------------------------ MODULE LockFreeQueueProofs ------------------------
(***************************************************************************)
(* Theorems about the lock-free queue (include/queue.hpp), for any number  *)
(* of threads, nodes and packets and for every interleaving of their loads *)
(* and compare-and-swaps, threads that stop anywhere included.             *)
(***************************************************************************)
EXTENDS LockFreeQueue, OperatorTheorems, SequenceTheorems

(***************************************************************************)
(* Types.                                                                  *)
(***************************************************************************)
Pointer == [ptr : Node \cup {Null}, tag : Nat]
NodePtr == [ptr : Node, tag : Nat]

Local == [node : Node \cup {Null}, head : Pointer, tail : Pointer,
          next : Pointer, ret : Packet \cup {<< >>}, n : Int]

Pcs == {"idle", "ask", "load head", "load tail", "load next", "check", "help",
        "link", "swing", "unlink", "free", "load size", "store size"}

Types ==
  /\ next \in [Node -> Pointer]
  /\ data \in [Node -> Packet \cup {<< >>}]
  /\ pool \in Seq(Node)
  /\ head_ \in NodePtr /\ tail_ \in NodePtr
  /\ qSize \in Int /\ spoiled \in Nat
  /\ pc \in [Threads -> Pcs]
  /\ local \in [Threads -> Local]
  /\ pushed \in [Producers -> Nat]
  /\ tested \subseteq Consumers

(***************************************************************************)
(* L is the list: m nodes, all different, each pointing to the next, the   *)
(* dummy first.  tail_ is on one of them.                                  *)
(***************************************************************************)
List(L, m) ==
  /\ m \in Nat \ {0}
  /\ L \in [1 .. m -> Node]
  /\ \A j, k \in 1 .. m : L[j] = L[k] => j = k
  /\ L[1] = head_.ptr
  /\ \A k \in 1 .. (m - 1) : next[L[k]].ptr = L[k + 1]
  /\ next[L[m]].ptr = Null
  /\ \E k \in 1 .. m : L[k] = tail_.ptr

(***************************************************************************)
(* A node that is in nobody else's reach: it has been taken from the pool  *)
(* and not been linked, or unlinked and not been given back.               *)
(***************************************************************************)
Building == {"load tail", "load next", "check", "help", "link"}

Holds(t, n) ==
  \/ t \in Producers /\ pc[t] \in Building /\ local[t].node = n
  \/ t \in Consumers /\ pc[t] = "free" /\ local[t].head.ptr = n

InPool(n) == \E k \in 1 .. Len(pool) : pool[k] = n

(***************************************************************************)
(* A node is in the list, in the pool, or held by one thread.              *)
(***************************************************************************)
OnePlace(L, m) ==
  /\ \A j, k \in 1 .. Len(pool) : pool[j] = pool[k] => j = k
  /\ \A k \in 1 .. m : ~ InPool(L[k])
  /\ \A t \in Threads : \A n : Holds(t, n) =>
       /\ n \in Node /\ ~ InPool(n)
       /\ \A k \in 1 .. m : L[k] # n
       /\ \A u \in Threads : Holds(u, n) => u = t

(***************************************************************************)
(* What a thread has loaded from an end is old or still true: the tag of an*)
(* end grows with every change.                                            *)
(***************************************************************************)
Old(seen, end) == seen.tag <= end.tag /\ (seen.tag = end.tag => seen = end)

SeenEnds(t) ==
  /\ pc[t] \in {"load next", "check", "help", "link", "swing"} =>
       Old(local[t].tail, tail_)
  /\ t \in Consumers /\ pc[t] \in {"ask", "load tail", "load next", "check",
                                   "help", "unlink"} =>
       Old(local[t].head, head_) /\ local[t].head.ptr \in Node

(***************************************************************************)
(* What a producer knows.  Its node is built.  As long as tail_ is where it*)
(* was seen, what was loaded from that node is still there, or was Null and*)
(* has been linked since.  Before the compare-and-swap of Link tail_ may   *)
(* have moved and the node may even be in its next life; then its tag has  *)
(* grown.                                                                  *)
(***************************************************************************)
ProducerSees(p, L, m) ==
  LET l    == local[p]
      seen == l.tail.ptr
  IN  /\ pc[p] \in Building =>
           /\ l.node \in Node
           /\ data[l.node] \in Packet
           /\ next[l.node].ptr = Null
      /\ pc[p] \in {"load next", "check", "help", "link", "swing"} =>
           seen \in Node
      /\ pc[p] = "check" /\ tail_ = l.tail =>
           \/ next[seen] = l.next
           \/ l.next.ptr = Null /\ next[seen].tag > l.next.tag
      /\ pc[p] = "help" =>
           /\ l.next.ptr \in Node
           /\ tail_ = l.tail => next[seen].ptr = l.next.ptr
      /\ pc[p] = "link" =>
           /\ l.next.ptr = Null
           /\ \/ next[seen] = l.next /\ seen = L[m]
              \/ next[seen].tag > l.next.tag
      /\ pc[p] = "swing" =>
           /\ l.node \in Node
           /\ tail_ = l.tail => next[seen].ptr = l.node

(***************************************************************************)
(* What a consumer knows as long as the dummy it saw is the dummy: if tail_*)
(* was past it, it still is; the dummy's successor is the one it loaded,   *)
(* unless it loaded Null.                                                  *)
(***************************************************************************)
ConsumerSees(c) ==
  LET l == local[c]
  IN  /\ pc[c] \in {"load next", "check"} /\ head_ = l.head =>
           l.head.ptr = l.tail.ptr \/ tail_.ptr # head_.ptr
      /\ pc[c] = "check" /\ head_ = l.head /\ l.next.ptr # Null =>
           next[head_.ptr].ptr = l.next.ptr
      /\ pc[c] = "help" =>
           /\ l.next.ptr \in Node
           /\ tail_ = l.tail => next[tail_.ptr].ptr = l.next.ptr
      /\ pc[c] = "unlink" =>
           /\ l.next.ptr \in Node
           /\ head_ = l.head => /\ tail_.ptr # head_.ptr
                                /\ next[head_.ptr].ptr = l.next.ptr
                                /\ l.ret = data[l.next.ptr]

(***************************************************************************)
(* What a consumer that was told of a packet knows: there is one, or it has*)
(* not compared the ends yet.  A pointer that it loads from the dummy is   *)
(* then not Null.                                                          *)
(***************************************************************************)
Tested(c, m) ==
  c \in tested =>
    /\ m > 1 \/ (pc[c] = "ask" /\ head_ = local[c].head)
    /\ pc[c] = "check" /\ head_ = local[c].head => local[c].next.ptr # Null

Knows(t, L, m) ==
  /\ SeenEnds(t)
  /\ t \in Producers => ProducerSees(t, L, m)
  /\ t \in Consumers => ConsumerSees(t) /\ Tested(t, m)

Inv(L, m) ==
  /\ Types
  /\ List(L, m)
  /\ OnePlace(L, m)
  /\ \A t \in Threads : Knows(t, L, m)

Ind == \E m \in Nat \ {0} : \E L \in [1 .. m -> Node] : Inv(L, m)
-----------------------------------------------------------------------------
(***************************************************************************)
(* Contents is what the list's nodes behind the dummy hold.                *)
(***************************************************************************)
LEMMA NodesFinite == /\ Node \subseteq Nat \ {0} /\ Null \notin Node
                     /\ IsFiniteSet(Node) /\ Cardinality(Node) = NumNodes
  BY NumNodesAssumption, FS_Interval DEF Node, Null

LEMMA ListLength ==
  ASSUME NEW m, NEW L, List(L, m)
  PROVE  m <= NumNodes
  <1>1. m \in Nat \ {0} /\ L \in Injection(1 .. m, Node)
    BY DEF List, Injection, IsInjective
  <1>2. Cardinality(1 .. m) = m
    BY <1>1, FS_Interval
  <1> QED
    BY <1>1, <1>2, NodesFinite, FS_Injection

FollowsFrom(g) == g = [k \in 0 .. NumNodes |->
                         IF k = 0 THEN head_.ptr
                         ELSE IF g[k - 1] = Null THEN Null
                              ELSE next[g[k - 1]].ptr]

LEMMA FollowUnfold ==
  ASSUME NEW g, FollowsFrom(g)
  PROVE  FollowsFrom(Follow)
  BY DEF Follow, FollowsFrom

LEMMA FollowList ==
  ASSUME NEW m, NEW L, List(L, m)
  PROVE  \A k \in 0 .. NumNodes :
           Follow[k] = IF k < m THEN L[k + 1] ELSE Null
  <1> DEFINE g == [k \in 0 .. NumNodes |-> IF k < m THEN L[k + 1] ELSE Null]
             wrong == {k \in 0 .. NumNodes : Follow[k] # g[k]}
  <1>1. m \in Nat \ {0} /\ NumNodes \in Nat /\ m <= NumNodes
    BY ListLength, NumNodesAssumption DEF List
  <1>2. ASSUME NEW k \in 0 .. NumNodes
        PROVE  g[k] = IF k = 0 THEN head_.ptr
                      ELSE IF g[k - 1] = Null THEN Null
                           ELSE next[g[k - 1]].ptr
    <2>1. CASE k = 0
      BY <1>1, <2>1 DEF List
    <2>2. CASE k # 0 /\ k < m
      <3>1. /\ g[k] = L[k + 1] /\ g[k - 1] = L[k] /\ k \in 1 .. (m - 1)
        BY <1>1, <2>2
      <3>2. L[k] # Null
        BY <1>1, <3>1, NodesFinite DEF List
      <3> QED
        BY <2>2, <3>1, <3>2 DEF List
    <2>3. CASE k = m
      <3>1. g[k] = Null /\ g[k - 1] = L[m] /\ k # 0
        BY <1>1, <2>3
      <3> QED
        BY <1>1, <3>1, NodesFinite DEF List
    <2>4. CASE k # 0 /\ k > m
      BY <1>1, <2>4
    <2> QED
      BY <1>1, <2>1, <2>2, <2>3, <2>4
  <1>3. g = [k \in 0 .. NumNodes |-> IF k = 0 THEN head_.ptr
                                     ELSE IF g[k - 1] = Null THEN Null
                                          ELSE next[g[k - 1]].ptr]
    BY <1>2
  <1>4. FollowsFrom(Follow)
    <2>1. FollowsFrom(g)
      BY ONLY <1>3 DEF FollowsFrom
    <2> HIDE DEF g
    <2> QED
      BY <2>1, FollowUnfold
  <1>5. wrong = {}
    <2>1. SUFFICES ASSUME wrong # {} PROVE FALSE
      OBVIOUS
    <2>2. wrong \subseteq Nat
      OBVIOUS
    <2>3. PICK k \in wrong : \A j \in wrong : k <= j
      <3> HIDE DEF wrong
      <3> QED
        BY <2>1, <2>2, LeastNatural
    <2>4. k \in 0 .. NumNodes /\ Follow[k] # g[k]
      OBVIOUS
    <2>5. k # 0 => k - 1 \in 0 .. NumNodes /\ k - 1 \notin wrong
      BY <1>1, <2>3, <2>4
    <2>6. k # 0 => Follow[k - 1] = g[k - 1]
      BY <2>5
    <2> HIDE DEF g, wrong
    <2>7. Follow[k] = IF k = 0 THEN head_.ptr
                      ELSE IF Follow[k - 1] = Null THEN Null
                           ELSE next[Follow[k - 1]].ptr
      BY <1>4, <2>4 DEF FollowsFrom
    <2> QED
      BY <1>2, <2>4, <2>6, <2>7
  <1> QED
    BY <1>5

LEMMA ContentsOfList ==
  ASSUME NEW m, NEW L, List(L, m)
  PROVE  Contents = [k \in 1 .. (m - 1) |-> data[L[k + 1]]]
  <1>1. m \in Nat \ {0} /\ NumNodes \in Nat /\ m <= NumNodes
    BY ListLength, NumNodesAssumption DEF List
  <1>2. \A k \in 1 .. (m - 1) : Follow[k] = L[k + 1] /\ Follow[k] # Null
    <2>1. \A k \in 1 .. (m - 1) : L[k + 1] \in Node
      BY <1>1 DEF List
    <2>2. \A k \in 1 .. (m - 1) : k \in 0 .. NumNodes /\ k < m
      BY <1>1
    <2> QED
      BY <2>1, <2>2, FollowList, NodesFinite
  <1>3. \A k \in m .. NumNodes : Follow[k] = Null
    BY <1>1, FollowList
  <1>4. {j \in Node : Follow[j] # Null} = 1 .. (m - 1)
    BY <1>1, <1>2, <1>3 DEF Node
  <1> QED
    BY <1>2, <1>4 DEF Contents

-----------------------------------------------------------------------------
(***************************************************************************)
(* A step of thread t changes the place and the local variables of t alone.*)
(***************************************************************************)
LEMMA StepOf ==
  ASSUME Types, NEW t \in Threads, NEW from, NEW to, NEW l, Step(t, from, to, l)
  PROVE  /\ pc[t] = from /\ pc'[t] = to
         /\ local'[t] = IF to = "idle" THEN Locals ELSE l
         /\ \A u \in Threads : u # t => pc'[u] = pc[u] /\ local'[u] = local[u]
  BY DEF Types, Step

LEMMA LocalsType == Locals \in Local
  BY DEF Locals, Local, Tagged, Pointer

LEMMA StepTypes ==
  ASSUME Types, NEW t \in Threads, NEW from, NEW to \in Pcs, NEW l \in Local,
         Step(t, from, to, l)
  PROVE  pc' \in [Threads -> Pcs] /\ local' \in [Threads -> Local]
  BY LocalsType DEF Types, Step

LEMMA LocalFields ==
  ASSUME NEW l \in Local
  PROVE  /\ l.node \in Node \cup {Null} /\ l.n \in Int
         /\ l.head \in Pointer /\ l.tail \in Pointer /\ l.next \in Pointer
         /\ l.ret \in Packet \cup {<< >>}
         /\ \A v \in Node \cup {Null} : [l EXCEPT !.node = v] \in Local
         /\ \A v \in Pointer : [l EXCEPT !.head = v] \in Local
         /\ \A v \in Pointer : [l EXCEPT !.tail = v] \in Local
         /\ \A v \in Pointer : [l EXCEPT !.next = v] \in Local
         /\ \A v \in Packet \cup {<< >>} : [l EXCEPT !.ret = v] \in Local
         /\ \A v \in Int : [l EXCEPT !.n = v] \in Local
  <1> HIDE DEF Pointer
  <1> QED
    BY DEF Local

LEMMA PointerFields ==
  ASSUME NEW p \in Pointer
  PROVE  p.ptr \in Node \cup {Null} /\ p.tag \in Nat
  BY DEF Pointer

LEMMA SuccessorType ==
  ASSUME NEW p \in Pointer
  PROVE  /\ \A n \in Node : Successor(n, p) \in NodePtr
         /\ \A n \in Node \cup {Null} : Successor(n, p) \in Pointer
         /\ \A n : Successor(n, p).ptr = n /\ Successor(n, p).tag = p.tag + 1
  BY DEF Successor, Tagged, NodePtr, Pointer

LEMMA NodePtrs == NodePtr \subseteq Pointer
  BY DEF NodePtr, Pointer

LEMMA StoredSize ==
  ASSUME Types, NEW t \in Threads, NEW to \in Pcs, NEW by \in Int,
         StoreSize(t, to, by)
  PROVE  /\ pc' \in [Threads -> Pcs] /\ local' \in [Threads -> Local]
         /\ qSize' \in Int /\ qSize' = local[t].n + by /\ local[t].n \in Int
         /\ spoiled' \in Nat /\ (spoiled' = spoiled \/ spoiled' = spoiled + 1)
         /\ (\E u \in Threads \ {t} : pc[u] = "store size") =>
              spoiled' = spoiled + 1
  <1> DEFINE lost == IF \E u \in Threads \ {t} : pc[u] = "store size"
                     THEN 1 ELSE 0
  <1>1. spoiled' = spoiled + lost /\ spoiled \in Nat
    BY DEF StoreSize, Types
  <1>2. lost \in {0, 1}
    OBVIOUS
  <1>3. (\E u \in Threads \ {t} : pc[u] = "store size") => lost = 1
    OBVIOUS
  <1>4. pc' \in [Threads -> Pcs] /\ local' \in [Threads -> Local]
    BY LocalsType, StepTypes DEF StoreSize
  <1>5. local[t].n \in Int
    BY LocalFields DEF Types
  <1>6. qSize' = local[t].n + by
    BY DEF StoreSize
  <1> HIDE DEF lost
  <1>7. spoiled' \in Nat /\ (spoiled' = spoiled \/ spoiled' = spoiled + 1)
    BY <1>1, <1>2
  <1>8. qSize' \in Int
    BY <1>5, <1>6
  <1>9. lost = 1 => spoiled' = spoiled + 1
    BY <1>1
  <1> QED
    BY <1>3, <1>4, <1>5, <1>6, <1>7, <1>8, <1>9

LEMMA TypesProducer ==
  ASSUME NEW m, NEW L, Inv(L, m), NEW p \in Producers,
         Construct(p) \/ PushStep(p)
  PROVE  Types'
  <1>1. p \in Threads /\ Types /\ local[p] \in Local /\ Locals \in Local
    BY LocalsType DEF Inv, Types, Threads
  <1>2. SeenEnds(p) /\ ProducerSees(p, L, m)
    BY <1>1 DEF Inv, Knows
  <1> USE DEF nodes, ends, size, threads
  <1>3. ASSUME UNCHANGED << nodes, ends, size, pushed, tested >>,
               NEW from, NEW to \in Pcs, NEW l \in Local, Step(p, from, to, l)
        PROVE  Types'
    <2>1. pc' \in [Threads -> Pcs] /\ local' \in [Threads -> Local]
      BY <1>1, <1>3, StepTypes
    <2> QED
      BY <1>1, <1>3, <2>1 DEF Types
  <1>4. CASE Construct(p)
    <2> DEFINE n == Head(pool)
    <2>1. pool \in Seq(Node) /\ pool # << >> /\ n \in Node /\ Tail(pool) \in Seq(Node)
      BY <1>1, <1>4, HeadTailProperties DEF Construct, Types
    <2> HIDE DEF n
    <2>2. Step(p, "idle", "load tail", [Locals EXCEPT !.node = n])
      BY <1>4 DEF Construct, n
    <2>3. pc' \in [Threads -> Pcs] /\ local' \in [Threads -> Local]
      <3>1. [Locals EXCEPT !.node = n] \in Local
        BY <1>1, <2>1, LocalFields
      <3> QED
        BY <1>1, <2>2, <3>1, StepTypes DEF Pcs
    <2>4. next' \in [Node -> Pointer]
      <3>1. next[n] \in Pointer /\ Successor(Null, next[n]) \in Pointer
        BY <1>1, <2>1, SuccessorType DEF Types
      <3> QED
        BY <1>1, <1>4, <3>1 DEF Construct, NullNext, Types, n
    <2>5. data' \in [Node -> Packet \cup {<< >>}]
      <3>1. << p, pushed[p] + 1 >> \in Packet
        <4>1. pushed[p] \in Nat /\ Pushes[p] \in Nat /\ pushed[p] < Pushes[p]
          BY <1>1, <1>4, PushesAssumption DEF Construct, Types
        <4>2. pushed[p] + 1 \in 1 .. Pushes[p]
          BY <4>1
        <4> QED
          BY <4>2 DEF Packet
      <3> QED
        BY <1>1, <1>4, <3>1 DEF Construct, Types
    <2>6. pushed' \in [Producers -> Nat]
      <3>1. pushed \in [Producers -> Nat] /\ pushed[p] + 1 \in Nat
        BY <1>1 DEF Types
      <3>2. pushed' = [pushed EXCEPT ![p] = pushed[p] + 1]
        BY <1>4 DEF Construct
      <3> QED
        BY <3>1, <3>2
    <2> QED
      BY <1>1, <1>4, <2>1, <2>3, <2>4, <2>5, <2>6 DEF Construct, Types
  <1>5. CASE LoadTail(p)
    <2>1. [local[p] EXCEPT !.tail = tail_] \in Local
      BY <1>1, LocalFields, NodePtrs DEF Types
    <2> QED
      BY <1>3, <1>5, <2>1 DEF LoadTail, Pcs
  <1>6. CASE LoadNext(p)
    <2>1. pc[p] = "load next"
      BY <1>1, <1>6, StepOf DEF LoadNext
    <2>2. next[local[p].tail.ptr] \in Pointer
      BY <1>1, <1>2, <2>1 DEF ProducerSees, Types
    <2>3. [local[p] EXCEPT !.next = next[local[p].tail.ptr]] \in Local
      BY <1>1, <2>2, LocalFields
    <2> QED
      BY <1>3, <1>6, <2>3 DEF LoadNext, Pcs
  <1>7. CASE CheckTail(p)
    BY <1>1, <1>3, <1>7 DEF CheckTail, Pcs
  <1>8. CASE Link(p)
    <2>1. pc[p] = "link"
      BY <1>1, <1>8, StepOf DEF Link
    <2>2. local[p].tail.ptr \in Node /\ local[p].node \in Node
      BY <1>2, <2>1 DEF ProducerSees, Building
    <2>3. next[local[p].tail.ptr] \in Pointer
      BY <1>1, <2>2 DEF Types
    <2>4. Successor(local[p].node, next[local[p].tail.ptr]) \in Pointer
      BY <2>2, <2>3, SuccessorType
    <2>5. next' \in [Node -> Pointer]
      BY <1>1, <1>8, <2>2, <2>4 DEF Link, Types
    <2>6. pc' \in [Threads -> Pcs] /\ local' \in [Threads -> Local]
      <3> DEFINE to == IF next[local[p].tail.ptr] = local[p].next THEN "swing"
                       ELSE "load tail"
      <3>1. to \in Pcs /\ Step(p, "link", to, local[p])
        BY <1>8 DEF Link, Pcs
      <3> HIDE DEF to
      <3> QED
        BY <1>1, <3>1, StepTypes
    <2> QED
      BY <1>1, <1>8, <2>5, <2>6 DEF Link, Types
  <1>9. ASSUME NEW from \in {"swing", "help"}, NEW to \in Pcs, NEW n,
               pc[p] = from => n \in Node, SwingTail(p, from, to, n)
        PROVE  Types'
    <2>1. n \in Node
      BY <1>1, <1>9, StepOf DEF SwingTail
    <2>2. Successor(n, tail_) \in NodePtr
      BY <1>1, <2>1, SuccessorType, NodePtrs DEF Types
    <2>3. tail_' \in NodePtr
      BY <1>1, <1>9, <2>2 DEF SwingTail, Types
    <2>4. pc' \in [Threads -> Pcs] /\ local' \in [Threads -> Local]
      BY <1>1, <1>9, StepTypes DEF SwingTail
    <2> QED
      BY <1>1, <1>9, <2>3, <2>4 DEF SwingTail, Types
  <1>10. CASE Swing(p)
    <2>1. pc[p] = "swing" => local[p].node \in Node
      BY <1>2 DEF ProducerSees
    <2> QED
      BY <1>9, <1>10, <2>1 DEF Swing, Pcs
  <1>11. CASE HelpPush(p)
    <2>1. pc[p] = "help" => local[p].next.ptr \in Node
      BY <1>2 DEF ProducerSees
    <2> QED
      BY <1>9, <1>11, <2>1 DEF HelpPush, Pcs
  <1>12. CASE LoadSize(p)
    <2>1. [local[p] EXCEPT !.n = qSize] \in Local
      BY <1>1, LocalFields DEF Types
    <2> QED
      BY <1>3, <1>12, <2>1 DEF LoadSize, Pcs
  <1>13. CASE PushCount(p)
    <2>1. StoreSize(p, "idle", 1) /\ UNCHANGED << nodes, ends, pushed, tested >>
      BY <1>13 DEF PushCount, StoreSize
    <2>2. "idle" \in Pcs /\ 1 \in Int
      BY DEF Pcs
    <2> QED
      BY <1>1, <2>1, <2>2, StoredSize DEF Types
  <1> QED
    BY <1>4, <1>5, <1>6, <1>7, <1>8, <1>10, <1>11, <1>12, <1>13 DEF PushStep

LEMMA PlusMinusOne == 1 \in Int /\ -1 \in Int
  OBVIOUS

LEMMA TypesConsumer ==
  ASSUME NEW m, NEW L, Inv(L, m), NEW c \in Consumers,
         EmptyLoad(c) \/ PopStep(c)
  PROVE  Types'
  <1>1. /\ c \in Threads /\ Types /\ local[c] \in Local /\ Locals \in Local
        /\ c \notin Producers
    BY LocalsType, ThreadsAssumption DEF Inv, Types, Threads
  <1>2. SeenEnds(c) /\ ConsumerSees(c)
    BY <1>1 DEF Inv, Knows
  <1> USE DEF nodes, ends, size, threads
  <1>3. ASSUME UNCHANGED << nodes, ends, size, pushed >>,
               tested' \subseteq tested \cup {c},
               NEW from, NEW to \in Pcs, NEW l \in Local, Step(c, from, to, l)
        PROVE  Types'
    <2>1. pc' \in [Threads -> Pcs] /\ local' \in [Threads -> Local]
      BY <1>1, <1>3, StepTypes
    <2> QED
      BY <1>1, <1>3, <2>1 DEF Types
  <1>4. CASE EmptyLoad(c)
    <2>1. [Locals EXCEPT !.head = head_] \in Local
      BY <1>1, LocalFields, NodePtrs DEF Types
    <2> QED
      BY <1>3, <1>4, <2>1 DEF EmptyLoad, Pcs
  <1>5. CASE EmptyAnswer(c)
    <2> DEFINE to == IF local[c].head.ptr = tail_.ptr THEN "idle" ELSE "load head"
    <2>1. Step(c, "ask", to, Locals) /\ to \in Pcs
      BY <1>5 DEF EmptyAnswer, Pcs
    <2>2. tested' \subseteq tested \cup {c}
      BY <1>5 DEF EmptyAnswer
    <2> HIDE DEF to
    <2> QED
      BY <1>1, <1>3, <1>5, <2>1, <2>2 DEF EmptyAnswer
  <1>6. CASE LoadHead(c)
    <2>1. [local[c] EXCEPT !.head = head_] \in Local
      BY <1>1, LocalFields, NodePtrs DEF Types
    <2> QED
      BY <1>3, <1>6, <2>1 DEF LoadHead, Pcs
  <1>7. CASE LoadTail(c)
    <2>1. [local[c] EXCEPT !.tail = tail_] \in Local
      BY <1>1, LocalFields, NodePtrs DEF Types
    <2> QED
      BY <1>3, <1>7, <2>1 DEF LoadTail, Pcs
  <1>8. CASE LoadNext(c)
    <2>1. pc[c] = "load next"
      BY <1>1, <1>8, StepOf DEF LoadNext
    <2>2. next[local[c].head.ptr] \in Pointer
      BY <1>1, <1>2, <2>1 DEF SeenEnds, Types
    <2>3. [local[c] EXCEPT !.next = next[local[c].head.ptr]] \in Local
      BY <1>1, <2>2, LocalFields
    <2> QED
      BY <1>1, <1>3, <1>8, <2>3 DEF LoadNext, Pcs
  <1>9. CASE SeeEmpty(c)
    BY <1>1, <1>3, <1>9 DEF SeeEmpty, Pcs
  <1>10. CASE SeeLag(c)
    BY <1>1, <1>3, <1>10 DEF SeeLag, Pcs
  <1>11. CASE CopyPacket(c)
    <2> DEFINE to == local[c].next.ptr
    <2>1. CASE Step(c, "check", "load head", local[c])
      BY <1>1, <1>3, <1>11, <2>1 DEF CopyPacket, Pcs
    <2>2. CASE /\ to # Null
               /\ Step(c, "check", "unlink", [local[c] EXCEPT !.ret = data[to]])
      <3>1. to \in Node
        BY <1>1, <2>2, LocalFields, PointerFields
      <3>2. data[to] \in Packet \cup {<< >>}
        BY <1>1, <3>1 DEF Types
      <3>3. [local[c] EXCEPT !.ret = data[to]] \in Local
        BY <1>1, <3>2, LocalFields
      <3> QED
        BY <1>1, <1>3, <1>11, <2>2, <3>3 DEF CopyPacket, Pcs
    <2> QED
      BY <1>11, <2>1, <2>2 DEF CopyPacket
  <1>12. CASE HelpPop(c)
    <2>1. SwingTail(c, "help", "load head", local[c].next.ptr)
      BY <1>12 DEF HelpPop
    <2>2. local[c].next.ptr \in Node
      BY <1>1, <1>2, <2>1, StepOf DEF SwingTail, ConsumerSees
    <2>3. Successor(local[c].next.ptr, tail_) \in NodePtr
      BY <1>1, <2>2, SuccessorType, NodePtrs DEF Types
    <2>4. tail_' \in NodePtr
      BY <1>1, <2>1, <2>3 DEF SwingTail, Types
    <2>5. pc' \in [Threads -> Pcs] /\ local' \in [Threads -> Local]
      BY <1>1, <2>1, StepTypes DEF SwingTail, Pcs
    <2> QED
      BY <1>1, <2>1, <2>4, <2>5 DEF SwingTail, Types
  <1>13. CASE Unlink(c)
    <2>1. pc[c] = "unlink"
      BY <1>1, <1>13, StepOf DEF Unlink
    <2>2. Successor(local[c].next.ptr, head_) \in NodePtr
      BY <1>1, <1>2, <2>1, SuccessorType, NodePtrs DEF ConsumerSees, Types
    <2>3. head_' \in NodePtr
      BY <1>1, <1>13, <2>2 DEF Unlink, Types
    <2>4. tested' \subseteq Consumers
      BY <1>1, <1>13 DEF Unlink, Types
    <2>5. pc' \in [Threads -> Pcs] /\ local' \in [Threads -> Local]
      <3> DEFINE to == IF head_ = local[c].head THEN "free" ELSE "load head"
      <3>1. to \in Pcs /\ Step(c, "unlink", to, local[c])
        BY <1>13 DEF Unlink, Pcs
      <3> HIDE DEF to
      <3> QED
        BY <1>1, <3>1, StepTypes
    <2> QED
      BY <1>1, <1>13, <2>3, <2>4, <2>5 DEF Unlink, Types
  <1>14. CASE Free(c)
    <2> DEFINE n == local[c].head.ptr
               first == IF pool = << >> THEN Null ELSE Head(pool)
    <2>1. Holds(c, n)
      BY <1>1, <1>14, StepOf DEF Free, Holds
    <2>2. n \in Node
      BY <1>1, <2>1 DEF Inv, OnePlace
    <2>3. pool \in Seq(Node) /\ first \in Node \cup {Null}
      BY <1>1, HeadTailProperties DEF Types
    <2> HIDE DEF n, first
    <2>4. pool' = << n >> \o pool /\ next' = [next EXCEPT ![n].ptr = first]
      BY <1>14 DEF Free, n, first
    <2>5. next' \in [Node -> Pointer]
      <3>1. next[n] \in Pointer /\ [next[n] EXCEPT !.ptr = first] \in Pointer
        BY <1>1, <2>2, <2>3 DEF Types, Pointer
      <3>2. next' = [next EXCEPT ![n] = [next[n] EXCEPT !.ptr = first]]
        BY <2>4
      <3> QED
        BY <1>1, <3>1, <3>2 DEF Types
    <2>6. pool' \in Seq(Node)
      BY <2>2, <2>3, <2>4
    <2>7. pc' \in [Threads -> Pcs] /\ local' \in [Threads -> Local]
      BY <1>1, <1>14, StepTypes DEF Free, Pcs
    <2> QED
      BY <1>1, <1>14, <2>5, <2>6, <2>7 DEF Free, Types
  <1>15. CASE LoadSize(c)
    <2>1. [local[c] EXCEPT !.n = qSize] \in Local
      BY <1>1, LocalFields DEF Types
    <2> QED
      BY <1>3, <1>15, <2>1 DEF LoadSize, Pcs
  <1>16. CASE PopCount(c)
    <2>1. PICK to \in {"idle", "load head"} :
            /\ StoreSize(c, to, -1) /\ tested' \subseteq tested \cup {c}
      BY <1>16 DEF PopCount, BurstGoesOn
    <2>2. to \in Pcs
      BY <2>1 DEF Pcs
    <2>3. -1 \in Int
      BY PlusMinusOne
    <2> QED
      BY <1>1, <2>1, <2>2, <2>3, StoredSize DEF StoreSize, Types
  <1> QED
    BY <1>4, <1>5, <1>6, <1>7, <1>8, <1>9, <1>10, <1>11, <1>12, <1>13, <1>14,
       <1>15, <1>16 DEF PopStep

LEMMA TypesStep ==
  ASSUME NEW m, NEW L, Inv(L, m), Next
  PROVE  Types'
  BY TypesProducer, TypesConsumer DEF Next

-----------------------------------------------------------------------------
(***************************************************************************)
(* A step that leaves the list, the pool and the ends alone: what other    *)
(* threads know stays true.                                                *)
(***************************************************************************)
LEMMA OthersKnow ==
  ASSUME NEW m, NEW L, NEW u \in Threads, Knows(u, L, m),
         pc'[u] = pc[u], local'[u] = local[u],
         UNCHANGED << next, data, head_, tail_ >>,
         u \in tested' => u \in tested
  PROVE  Knows(u, L, m)'
  <1>1. SeenEnds(u)'
    BY DEF Knows, SeenEnds, Old
  <1>2. u \in Producers => ProducerSees(u, L, m)'
    BY DEF Knows, ProducerSees
  <1>3. u \in Consumers => ConsumerSees(u)'
    BY DEF Knows, ConsumerSees
  <1>4. u \in Consumers => Tested(u, m)'
    BY DEF Knows, Tested
  <1> QED
    BY <1>1, <1>2, <1>3, <1>4 DEF Knows

LEMMA QuietStep ==
  ASSUME NEW m, NEW L, Inv(L, m), Types', NEW t \in Threads,
         UNCHANGED << nodes, ends >>, tested' \subseteq tested \cup {t},
         NEW from, NEW to, NEW l, Step(t, from, to, l),
         \A n : Holds(t, n)' => Holds(t, n), Knows(t, L, m)'
  PROVE  Inv(L, m)'
  <1>1. \A u \in Threads : u # t => pc'[u] = pc[u] /\ local'[u] = local[u]
    BY StepOf DEF Inv
  <1>2. List(L, m)'
    BY DEF Inv, List, nodes, ends
  <1>3. \A u \in Threads : \A n : Holds(u, n)' => Holds(u, n)
    BY <1>1 DEF Holds
  <1>4. OnePlace(L, m)'
    BY <1>3 DEF Inv, OnePlace, InPool, nodes
  <1>5. ASSUME NEW u \in Threads, u # t PROVE Knows(u, L, m)'
    BY <1>1, <1>5, OthersKnow DEF Inv, nodes, ends
  <1> QED
    BY <1>2, <1>4, <1>5 DEF Inv

(***************************************************************************)
(* The quiet steps of a producer: the loads, the check, and the counting.  *)
(***************************************************************************)
LEMMA ProducerFacts ==
  ASSUME NEW m, NEW L, Inv(L, m), NEW p \in Producers
  PROVE  /\ p \in Threads /\ p \notin Consumers /\ Types
         /\ SeenEnds(p) /\ ProducerSees(p, L, m)
  BY ThreadsAssumption DEF Inv, Knows, Threads

LEMMA ProducerLoadTail ==
  ASSUME NEW m, NEW L, Inv(L, m), Types', NEW p \in Producers, LoadTail(p)
  PROVE  Inv(L, m)'
  <1> DEFINE l == [local[p] EXCEPT !.tail = tail_]
  <1>1. /\ p \in Threads /\ p \notin Consumers /\ Types
        /\ SeenEnds(p) /\ ProducerSees(p, L, m)
    BY ProducerFacts
  <1>2. /\ Step(p, "load tail", "load next", l)
        /\ UNCHANGED << nodes, ends, tested >>
    BY DEF LoadTail, threads
  <1>4. l.tail = tail_ /\ l.node = local[p].node
    BY <1>1 DEF Types, Local
  <1> HIDE DEF l
  <1>3. pc[p] = "load tail" /\ pc'[p] = "load next" /\ local'[p] = l
    BY <1>1, <1>2 DEF Step, Types
  <1>5. \A n : Holds(p, n)' => Holds(p, n)
    BY <1>1, <1>3, <1>4 DEF Holds, Building
  <1>6. tail_.tag \in Nat /\ tail_.ptr \in Node
    BY <1>1 DEF Types, NodePtr
  <1>7. SeenEnds(p)'
    <2>1. tail_' = tail_
      BY <1>2 DEF ends
    <2>2. local'[p].tail = tail_
      BY <1>3, <1>4
    <2>3. tail_.tag <= tail_.tag
      BY <1>6
    <2>4. Old(local'[p].tail, tail_)
      BY <2>2, <2>3 DEF Old
    <2> QED
      BY <1>1, <2>1, <2>4 DEF SeenEnds, Old
  <1>8. ProducerSees(p, L, m)'
    BY <1>1, <1>2, <1>3, <1>4, <1>6 DEF ProducerSees, Building, nodes, ends
  <1>9. Knows(p, L, m)'
    BY <1>1, <1>7, <1>8 DEF Knows
  <1> QED
    BY <1>1, <1>2, <1>5, <1>9, QuietStep

LEMMA ProducerLoadNext ==
  ASSUME NEW m, NEW L, Inv(L, m), Types', NEW p \in Producers, LoadNext(p)
  PROVE  Inv(L, m)'
  <1> DEFINE l == [local[p] EXCEPT !.next = next[local[p].tail.ptr]]
  <1>1. /\ p \in Threads /\ p \notin Consumers /\ Types
        /\ SeenEnds(p) /\ ProducerSees(p, L, m)
    BY ProducerFacts
  <1>2. /\ Step(p, "load next", "check", l)
        /\ UNCHANGED << nodes, ends, tested >>
    BY DEF LoadNext, threads
  <1>4. /\ l.tail = local[p].tail /\ l.node = local[p].node
        /\ l.next = next[local[p].tail.ptr]
    BY <1>1 DEF Types, Local
  <1> HIDE DEF l
  <1>3. pc[p] = "load next" /\ pc'[p] = "check" /\ local'[p] = l
    BY <1>1, <1>2 DEF Step, Types
  <1>5. \A n : Holds(p, n)' => Holds(p, n)
    BY <1>1, <1>3, <1>4 DEF Holds, Building
  <1>7. SeenEnds(p)'
    BY <1>1, <1>2, <1>3, <1>4 DEF SeenEnds, Old, ends
  <1>8. ProducerSees(p, L, m)'
    BY <1>1, <1>2, <1>3, <1>4 DEF ProducerSees, Building, nodes, ends
  <1>9. Knows(p, L, m)'
    BY <1>1, <1>7, <1>8 DEF Knows
  <1> QED
    BY <1>1, <1>2, <1>5, <1>9, QuietStep

LEMMA ProducerCheck ==
  ASSUME NEW m, NEW L, Inv(L, m), Types', NEW p \in Producers, CheckTail(p)
  PROVE  Inv(L, m)'
  <1> DEFINE l  == local[p]
             to == IF tail_ # l.tail THEN "load tail"
                   ELSE IF l.next.ptr = Null THEN "link" ELSE "help"
  <1>1. /\ p \in Threads /\ p \notin Consumers /\ Types
        /\ SeenEnds(p) /\ ProducerSees(p, L, m)
    BY ProducerFacts
  <1>2. /\ Step(p, "check", to, l)
        /\ UNCHANGED << nodes, ends, tested >>
    BY DEF CheckTail, threads
  <1>3. pc[p] = "check" /\ pc'[p] = to /\ local'[p] = l
    BY <1>1, <1>2 DEF Step, Types
  <1>4. l \in Local /\ l.next \in Pointer
    BY <1>1, LocalFields DEF Types
  <1>5. l.tail.ptr \in Node /\ next[l.tail.ptr] \in Pointer
    BY <1>1, <1>3 DEF ProducerSees, Types
  <1>6. UNCHANGED << next, data, head_, tail_ >>
    BY <1>2 DEF nodes, ends
  <1>7. \A n : Holds(p, n)' => Holds(p, n)
    BY <1>1, <1>3 DEF Holds, Building
  <1>8. SeenEnds(p)'
    BY <1>1, <1>3, <1>6 DEF SeenEnds
  <1>9. ProducerSees(p, L, m)'
    <2>1. CASE tail_ # l.tail
      BY <1>1, <1>3, <1>6, <2>1 DEF ProducerSees, Building
    <2>2. CASE tail_ = l.tail /\ l.next.ptr = Null
      <3>1. next[l.tail.ptr] = l.next => l.tail.ptr = L[m]
        <4>1. PICK k \in 1 .. m : L[k] = l.tail.ptr
          BY <2>2 DEF Inv, List
        <4>2. m \in Nat \ {0} /\ (k # m => next[L[k]].ptr = L[k + 1])
          BY <4>1 DEF Inv, List
        <4>3. k # m => L[k + 1] # Null
          BY <4>1, <4>2, NodesFinite DEF Inv, List
        <4> QED
          BY <2>2, <4>1, <4>2, <4>3
      <3> QED
        BY <1>1, <1>3, <1>6, <2>2, <3>1 DEF ProducerSees, Building
    <2>3. CASE tail_ = l.tail /\ l.next.ptr # Null
      <3>1. l.next.ptr \in Node
        BY <1>4, <2>3, PointerFields
      <3> QED
        BY <1>1, <1>3, <1>6, <2>3, <3>1 DEF ProducerSees, Building
    <2> QED
      BY <2>1, <2>2, <2>3
  <1>10. Knows(p, L, m)'
    BY <1>1, <1>8, <1>9 DEF Knows
  <1> HIDE DEF to, l
  <1> QED
    BY <1>1, <1>2, <1>7, <1>10, QuietStep

LEMMA ProducerSize ==
  ASSUME NEW m, NEW L, Inv(L, m), Types', NEW p \in Producers,
         LoadSize(p) \/ PushCount(p)
  PROVE  Inv(L, m)'
  <1>1. /\ p \in Threads /\ p \notin Consumers /\ Types
        /\ SeenEnds(p) /\ ProducerSees(p, L, m)
    BY ProducerFacts
  <1>2. PICK from \in {"load size", "store size"}, to \in {"store size", "idle"} :
          \E l : /\ Step(p, from, to, l)
                 /\ UNCHANGED << nodes, ends, tested >>
    BY DEF LoadSize, PushCount, StoreSize, threads
  <1>3. pc[p] = from /\ pc'[p] = to
    BY <1>1, <1>2 DEF Step, Types
  <1>4. \A n : Holds(p, n)' => Holds(p, n)
    BY <1>1, <1>3 DEF Holds, Building
  <1>5. SeenEnds(p)' /\ ProducerSees(p, L, m)'
    BY <1>1, <1>3 DEF SeenEnds, ProducerSees, Building
  <1>6. Knows(p, L, m)'
    BY <1>1, <1>5 DEF Knows
  <1> QED
    BY <1>1, <1>2, <1>4, <1>6, QuietStep

(***************************************************************************)
(* The quiet steps of a consumer.                                          *)
(***************************************************************************)
LEMMA ConsumerFacts ==
  ASSUME NEW m, NEW L, Inv(L, m), NEW c \in Consumers
  PROVE  /\ c \in Threads /\ c \notin Producers /\ Types /\ local[c] \in Local
         /\ SeenEnds(c) /\ ConsumerSees(c) /\ Tested(c, m)
         /\ head_.tag \in Nat /\ head_.ptr \in Node
         /\ tail_.tag \in Nat /\ tail_.ptr \in Node
         /\ m \in Nat \ {0} /\ head_.ptr = L[1]
  <1>1. /\ c \in Threads /\ c \notin Producers /\ Types /\ local[c] \in Local
    BY ThreadsAssumption DEF Inv, Threads, Types
  <1>2. SeenEnds(c) /\ ConsumerSees(c) /\ Tested(c, m)
    BY <1>1 DEF Inv, Knows
  <1>3. head_.tag \in Nat /\ head_.ptr \in Node
        /\ tail_.tag \in Nat /\ tail_.ptr \in Node
    BY <1>1 DEF Types, NodePtr
  <1>4. m \in Nat \ {0} /\ head_.ptr = L[1]
    BY DEF Inv, List
  <1> QED
    BY <1>1, <1>2, <1>3, <1>4

(***************************************************************************)
(* The dummy points somewhere unless it is all there is.                   *)
(***************************************************************************)
LEMMA DummyPoints ==
  ASSUME NEW m, NEW L, List(L, m)
  PROVE  /\ m > 1 => next[head_.ptr].ptr = L[2] /\ L[2] # Null /\ L[2] \in Node
         /\ m = 1 => next[head_.ptr].ptr = Null
         /\ tail_.ptr # head_.ptr => m > 1
  <1>1. m \in Nat \ {0} /\ L[1] = head_.ptr
    BY DEF List
  <1>2. m > 1 => 2 \in 1 .. m /\ 1 \in 1 .. (m - 1) /\ 1 + 1 = 2
    BY <1>1
  <1>3. m > 1 => L[2] \in Node /\ L[2] # Null
    BY <1>2, NodesFinite DEF List
  <1>4. m > 1 => next[L[1]].ptr = L[2]
    BY <1>2 DEF List
  <1>5. m = 1 => next[L[1]].ptr = Null
    BY DEF List
  <1>6. m = 1 => tail_.ptr = L[1]
    BY DEF List
  <1> QED
    BY <1>1, <1>3, <1>4, <1>5, <1>6

LEMMA ConsumerAsks ==
  ASSUME NEW m, NEW L, Inv(L, m), Types', NEW c \in Consumers,
         EmptyLoad(c) \/ EmptyAnswer(c)
  PROVE  Inv(L, m)'
  <1>1. /\ c \in Threads /\ c \notin Producers /\ Types /\ local[c] \in Local
        /\ SeenEnds(c) /\ ConsumerSees(c) /\ Tested(c, m)
        /\ head_.tag \in Nat /\ head_.ptr \in Node
        /\ tail_.tag \in Nat /\ tail_.ptr \in Node
        /\ m \in Nat \ {0} /\ head_.ptr = L[1]
    BY ConsumerFacts
  <1>2. UNCHANGED << nodes, ends >> /\ UNCHANGED << next, data, head_, tail_ >>
    BY DEF EmptyLoad, EmptyAnswer, nodes, ends
  <1>3. CASE EmptyLoad(c)
    <2> DEFINE l == [Locals EXCEPT !.head = head_]
    <2>1. Step(c, "idle", "ask", l) /\ tested' = tested \cup {c}
      BY <1>3 DEF EmptyLoad
    <2>2. pc[c] = "idle" /\ pc'[c] = "ask" /\ local'[c] = l
      BY <1>1, <2>1 DEF Step, Types
    <2>3. l.head = head_
      BY DEF Locals
    <2> HIDE DEF l
    <2>4. local'[c].head = head_ /\ head_.tag <= head_.tag
      BY <1>1, <2>2, <2>3
    <2>5. \A n : Holds(c, n)' => Holds(c, n)
      BY <1>1, <2>2 DEF Holds
    <2>6. SeenEnds(c)'
      BY <1>1, <1>2, <2>2, <2>4 DEF SeenEnds, Old
    <2>7. ConsumerSees(c)' /\ Tested(c, m)'
      BY <1>2, <2>2, <2>4 DEF ConsumerSees, Tested
    <2>8. Knows(c, L, m)'
      BY <1>1, <2>6, <2>7 DEF Knows
    <2> QED
      BY <1>1, <1>2, <2>1, <2>5, <2>8, QuietStep
  <1>4. CASE EmptyAnswer(c)
    <2> DEFINE empty == local[c].head.ptr = tail_.ptr
               to == IF empty THEN "idle" ELSE "load head"
    <2>1. Step(c, "ask", to, Locals)
          /\ tested' = IF empty THEN tested \ {c} ELSE tested
      BY <1>4 DEF EmptyAnswer
    <2>2. pc[c] = "ask" /\ pc'[c] = to
      BY <1>1, <2>1 DEF Step, Types
    <2>3. \A n : Holds(c, n)' => Holds(c, n)
      BY <1>1, <2>2 DEF Holds
    <2>4. SeenEnds(c)' /\ ConsumerSees(c)'
      BY <2>2 DEF SeenEnds, ConsumerSees
    <2>5. ~ empty /\ head_ = local[c].head => m > 1
      BY DummyPoints DEF Inv
    <2>6. c \in tested' => m > 1
      BY <1>1, <2>1, <2>5 DEF Tested
    <2>7. Tested(c, m)'
      BY <2>2, <2>6 DEF Tested
    <2>8. Knows(c, L, m)'
      BY <1>1, <2>4, <2>7 DEF Knows
    <2>9. tested' \subseteq tested \cup {c}
      BY <2>1
    <2> HIDE DEF to
    <2> QED
      BY <1>1, <1>2, <2>1, <2>3, <2>8, <2>9, QuietStep
  <1> QED
    BY <1>3, <1>4

LEMMA ConsumerLoads ==
  ASSUME NEW m, NEW L, Inv(L, m), Types', NEW c \in Consumers,
         LoadHead(c) \/ LoadTail(c) \/ LoadNext(c)
  PROVE  Inv(L, m)'
  <1>1. /\ c \in Threads /\ c \notin Producers /\ Types /\ local[c] \in Local
        /\ SeenEnds(c) /\ ConsumerSees(c) /\ Tested(c, m)
        /\ head_.tag \in Nat /\ head_.ptr \in Node
        /\ tail_.tag \in Nat /\ tail_.ptr \in Node
        /\ m \in Nat \ {0} /\ head_.ptr = L[1]
    BY ConsumerFacts
  <1>2. UNCHANGED << nodes, ends, tested, next, data, head_, tail_ >>
    BY DEF LoadHead, LoadTail, LoadNext, nodes, ends, threads
  <1>3. CASE LoadHead(c)
    <2> DEFINE l == [local[c] EXCEPT !.head = head_]
    <2>1. Step(c, "load head", "load tail", l)
      BY <1>3 DEF LoadHead
    <2>2. l.head = head_
      BY <1>1 DEF Local
    <2> HIDE DEF l
    <2>3. pc[c] = "load head" /\ pc'[c] = "load tail" /\ local'[c] = l
      BY <1>1, <2>1 DEF Step, Types
    <2>9. local'[c].head = head_
      BY <2>2, <2>3
    <2>4. local'[c].head = head_ /\ head_.tag <= head_.tag
      BY <1>1, <2>9
    <2>5. \A n : Holds(c, n)' => Holds(c, n)
      BY <1>1, <2>3 DEF Holds
    <2>6. SeenEnds(c)'
      BY <1>1, <1>2, <2>3, <2>4 DEF SeenEnds, Old
    <2>7. ConsumerSees(c)' /\ Tested(c, m)'
      BY <1>1, <1>2, <2>3, <2>4 DEF ConsumerSees, Tested
    <2>8. Knows(c, L, m)'
      BY <1>1, <2>6, <2>7 DEF Knows
    <2> QED
      BY <1>1, <1>2, <2>1, <2>5, <2>8, QuietStep
  <1>4. CASE LoadTail(c)
    <2> DEFINE l == [local[c] EXCEPT !.tail = tail_]
    <2>1. Step(c, "load tail", "load next", l)
      BY <1>4 DEF LoadTail
    <2>2. l.tail = tail_ /\ l.head = local[c].head
      BY <1>1 DEF Local
    <2> HIDE DEF l
    <2>3. pc[c] = "load tail" /\ pc'[c] = "load next" /\ local'[c] = l
      BY <1>1, <2>1 DEF Step, Types
    <2>9. local'[c].head = local[c].head /\ local'[c].tail = tail_
      BY <2>2, <2>3
    <2>4. /\ local'[c].head = local[c].head
          /\ local'[c].tail = tail_ /\ tail_.tag <= tail_.tag
      BY <1>1, <2>9
    <2>5. \A n : Holds(c, n)' => Holds(c, n)
      BY <1>1, <2>3 DEF Holds
    <2>6. SeenEnds(c)'
      BY <1>1, <1>2, <2>3, <2>4 DEF SeenEnds, Old
    <2>7. ConsumerSees(c)' /\ Tested(c, m)'
      BY <1>1, <1>2, <2>3, <2>4 DEF ConsumerSees, Tested
    <2>8. Knows(c, L, m)'
      BY <1>1, <2>6, <2>7 DEF Knows
    <2> QED
      BY <1>1, <1>2, <2>1, <2>5, <2>8, QuietStep
  <1>5. CASE LoadNext(c)
    <2> DEFINE l == [local[c] EXCEPT !.next = next[local[c].head.ptr]]
    <2>1. Step(c, "load next", "check", l)
      BY <1>1, <1>5 DEF LoadNext
    <2>2. /\ l.tail = local[c].tail /\ l.head = local[c].head
          /\ l.next = next[local[c].head.ptr]
      BY <1>1 DEF Local
    <2> HIDE DEF l
    <2>3. pc[c] = "load next" /\ pc'[c] = "check" /\ local'[c] = l
      BY <1>1, <2>1 DEF Step, Types
    <2>4. /\ local'[c].head = local[c].head
          /\ local'[c].tail = local[c].tail
          /\ local'[c].next = next[local[c].head.ptr]
      BY <2>2, <2>3
    <2>5. \A n : Holds(c, n)' => Holds(c, n)
      BY <1>1, <2>3 DEF Holds
    <2>6. SeenEnds(c)'
      BY <1>1, <1>2, <2>3, <2>4 DEF SeenEnds, Old
    <2>7. ConsumerSees(c)'
      BY <1>1, <1>2, <2>3, <2>4 DEF ConsumerSees
    <2>8. Tested(c, m)'
      <3>1. m > 1 => next[head_.ptr].ptr # Null
        BY DummyPoints DEF Inv
      <3> QED
        BY <1>1, <1>2, <2>3, <2>4, <3>1 DEF Tested
    <2>9. Knows(c, L, m)'
      BY <1>1, <2>6, <2>7, <2>8 DEF Knows
    <2> QED
      BY <1>1, <1>2, <2>1, <2>5, <2>9, QuietStep
  <1> QED
    BY <1>3, <1>4, <1>5

LEMMA ConsumerChecks ==
  ASSUME NEW m, NEW L, Inv(L, m), Types', NEW c \in Consumers,
         SeeEmpty(c) \/ SeeLag(c) \/ CopyPacket(c)
  PROVE  Inv(L, m)'
  <1>1. /\ c \in Threads /\ c \notin Producers /\ Types /\ local[c] \in Local
        /\ SeenEnds(c) /\ ConsumerSees(c) /\ Tested(c, m)
        /\ head_.tag \in Nat /\ head_.ptr \in Node
        /\ tail_.tag \in Nat /\ tail_.ptr \in Node
        /\ m \in Nat \ {0} /\ head_.ptr = L[1]
    BY ConsumerFacts
  <1>2. UNCHANGED << nodes, ends, next, data, head_, tail_ >>
    BY DEF SeeEmpty, SeeLag, CopyPacket, nodes, ends
  <1>3. CASE SeeEmpty(c)
    <2>1. Step(c, "check", "idle", Locals) /\ tested' = tested \ {c}
      BY <1>3 DEF SeeEmpty
    <2>2. pc[c] = "check" /\ pc'[c] = "idle"
      BY <1>1, <2>1 DEF Step, Types
    <2>3. \A n : Holds(c, n)' => Holds(c, n)
      BY <1>1, <2>2 DEF Holds
    <2>4. SeenEnds(c)' /\ ConsumerSees(c)' /\ Tested(c, m)'
      BY <2>1, <2>2 DEF SeenEnds, ConsumerSees, Tested
    <2>5. Knows(c, L, m)'
      BY <1>1, <2>4 DEF Knows
    <2> QED
      BY <1>1, <1>2, <2>1, <2>3, <2>5, QuietStep
  <1>4. CASE SeeLag(c)
    <2>1. Step(c, "check", "help", local[c]) /\ tested' = tested /\ Lags(c)
      BY <1>4 DEF SeeLag, threads
    <2>2. pc[c] = "check" /\ pc'[c] = "help" /\ local'[c] = local[c]
      BY <1>1, <2>1 DEF Step, Types
    <2>3. \A n : Holds(c, n)' => Holds(c, n)
      BY <1>1, <2>2 DEF Holds
    <2>4. local[c].next.ptr \in Node
      <3>1. local[c].next.ptr \in Node \cup {Null}
        BY <1>1, LocalFields, PointerFields
      <3> QED
        BY <2>1, <3>1 DEF Lags
    <2>5. SeenEnds(c)'
      BY <1>1, <1>2, <2>2 DEF SeenEnds
    <2>6. ConsumerSees(c)'
      BY <1>1, <1>2, <2>1, <2>2, <2>4 DEF ConsumerSees, Lags
    <2>7. Tested(c, m)'
      BY <1>1, <1>2, <2>1, <2>2 DEF Tested
    <2>8. Knows(c, L, m)'
      BY <1>1, <2>5, <2>6, <2>7 DEF Knows
    <2> QED
      BY <1>1, <1>2, <2>1, <2>3, <2>8, QuietStep
  <1>5. CASE CopyPacket(c)
    <2> DEFINE next_ == local[c].next.ptr
    <2>1. tested' = tested /\ ~ Fails(c) /\ ~ Lags(c)
      BY <1>5 DEF CopyPacket, threads
    <2>2. CASE Step(c, "check", "load head", local[c])
      <3>1. pc[c] = "check" /\ pc'[c] = "load head" /\ local'[c] = local[c]
        BY <1>1, <2>2 DEF Step, Types
      <3>2. \A n : Holds(c, n)' => Holds(c, n)
        BY <1>1, <3>1 DEF Holds
      <3>3. SeenEnds(c)' /\ ConsumerSees(c)' /\ Tested(c, m)'
        BY <1>1, <2>1, <3>1 DEF SeenEnds, ConsumerSees, Tested
      <3>4. Knows(c, L, m)'
        BY <1>1, <3>3 DEF Knows
      <3> QED
        BY <1>1, <1>2, <2>1, <2>2, <3>2, <3>4, QuietStep
    <2> DEFINE l == [local[c] EXCEPT !.ret = data[next_]]
    <2>3. CASE head_ = local[c].head /\ next_ # Null /\ Step(c, "check", "unlink", l)
      <3>1. /\ l.head = local[c].head /\ l.tail = local[c].tail
            /\ l.next = local[c].next /\ l.ret = data[local[c].next.ptr]
        BY <1>1 DEF Local
      <3> HIDE DEF l
      <3>2. pc[c] = "check" /\ pc'[c] = "unlink" /\ local'[c] = l
        BY <1>1, <2>3 DEF Step, Types
      <3>3. /\ local'[c].head = local[c].head /\ local'[c].tail = local[c].tail
            /\ local'[c].next = local[c].next
            /\ local'[c].ret = data[local[c].next.ptr]
        BY <3>1, <3>2
      <3>4. \A n : Holds(c, n)' => Holds(c, n)
        BY <1>1, <3>2 DEF Holds
      <3>5. local[c].next.ptr \in Node
        <4>1. local[c].next.ptr \in Node \cup {Null}
          BY <1>1, LocalFields, PointerFields
        <4> QED
          BY <2>3, <4>1
      <3>6. /\ tail_.ptr # head_.ptr
            /\ next[head_.ptr].ptr = local[c].next.ptr
        BY <1>1, <2>1, <2>3, <3>2 DEF ConsumerSees, Fails, Lags
      <3>7. SeenEnds(c)'
        BY <1>1, <1>2, <3>2, <3>3 DEF SeenEnds
      <3>8. ConsumerSees(c)'
        BY <1>2, <3>2, <3>3, <3>5, <3>6 DEF ConsumerSees
      <3>9. Tested(c, m)'
        BY <1>1, <2>1, <3>2 DEF Tested
      <3>10. Knows(c, L, m)'
        BY <1>1, <3>7, <3>8, <3>9 DEF Knows
      <3> QED
        BY <1>1, <1>2, <2>1, <2>3, <3>4, <3>10, QuietStep
    <2> QED
      BY <1>5, <2>2, <2>3 DEF CopyPacket
  <1> QED
    BY <1>3, <1>4, <1>5

LEMMA ConsumerSize ==
  ASSUME NEW m, NEW L, Inv(L, m), Types', NEW c \in Consumers,
         LoadSize(c) \/ PopCount(c)
  PROVE  Inv(L, m)'
  <1>1. /\ c \in Threads /\ c \notin Producers /\ Types /\ local[c] \in Local
        /\ SeenEnds(c) /\ ConsumerSees(c) /\ Tested(c, m)
        /\ head_.tag \in Nat /\ head_.ptr \in Node
        /\ tail_.tag \in Nat /\ tail_.ptr \in Node
        /\ m \in Nat \ {0} /\ head_.ptr = L[1]
    BY ConsumerFacts
  <1>2. UNCHANGED << nodes, ends, next, data, head_, tail_ >>
    BY DEF LoadSize, PopCount, BurstGoesOn, StoreSize, nodes, ends
  <1>4. Contents # << >> => m > 1
    <2>1. Contents = [k \in 1 .. (m - 1) |-> data[L[k + 1]]]
      BY ContentsOfList DEF Inv
    <2>2. ~ (m > 1) => 1 .. (m - 1) = {}
      BY <1>1
    <2> QED
      BY <2>1, <2>2
  <1>5. PICK from \in {"load size", "store size"},
             to \in {"store size", "idle", "load head"} :
          /\ \E l : Step(c, from, to, l)
          /\ c \in tested' => c \in tested \/ m > 1
          /\ tested' \subseteq tested \cup {c}
    <2>1. CASE LoadSize(c)
      BY <2>1 DEF LoadSize, threads
    <2>2. CASE PopCount(c)
      <3>1. PICK to \in {"idle", "load head"} :
              /\ Step(c, "store size", to, Locals)
              /\ tested' = IF to = "idle" \/ Contents = << >> THEN tested \ {c}
                           ELSE tested \cup {c}
        BY <2>2 DEF PopCount, BurstGoesOn, StoreSize
      <3> QED
        BY <1>4, <3>1
    <2> QED
      BY <2>1, <2>2
  <1>6. pc[c] = from /\ pc'[c] = to
    BY <1>1, <1>5 DEF Step, Types
  <1>7. \A n : Holds(c, n)' => Holds(c, n)
    BY <1>1, <1>6 DEF Holds
  <1>8. SeenEnds(c)' /\ ConsumerSees(c)'
    BY <1>6 DEF SeenEnds, ConsumerSees
  <1>9. Tested(c, m)'
    BY <1>1, <1>5, <1>6 DEF Tested
  <1>10. Knows(c, L, m)'
    BY <1>1, <1>8, <1>9 DEF Knows
  <1> QED
    BY <1>1, <1>2, <1>5, <1>7, <1>10, QuietStep

-----------------------------------------------------------------------------
(***************************************************************************)
(* Moving tail_ on.  It goes to the next node of the list, and its new tag *)
(* tells every other thread that it has moved.                             *)
(***************************************************************************)
LEMMA TailMoves ==
  ASSUME NEW m, NEW L, Inv(L, m), NEW n \in Node, next[tail_.ptr].ptr = n,
         tail_' = Successor(n, tail_), UNCHANGED << nodes, head_ >>
  PROVE  List(L, m)' /\ tail_'.ptr # head_.ptr /\ tail_'.tag = tail_.tag + 1
  <1>1. PICK k \in 1 .. m : L[k] = tail_.ptr
    BY DEF Inv, List
  <1>2. /\ m \in Nat \ {0} /\ L \in [1 .. m -> Node] /\ L[1] = head_.ptr
        /\ \A i, j \in 1 .. m : L[i] = L[j] => i = j
        /\ \A i \in 1 .. (m - 1) : next[L[i]].ptr = L[i + 1]
        /\ next[L[m]].ptr = Null
    BY DEF Inv, List
  <1>3. k # m
    BY <1>1, <1>2, NodesFinite
  <1>4. k \in 1 .. (m - 1) /\ k + 1 \in 1 .. m /\ 1 \in 1 .. m /\ k + 1 # 1
    BY <1>1, <1>2, <1>3
  <1>5. L[k + 1] = n /\ L[k + 1] # L[1]
    BY <1>1, <1>2, <1>4
  <1>6. tail_'.ptr = n /\ tail_'.tag = tail_.tag + 1
    BY SuccessorType, NodePtrs DEF Inv, Types
  <1>7. \E i \in 1 .. m : L[i] = tail_'.ptr
    BY <1>4, <1>5, <1>6
  <1>8. next' = next /\ head_' = head_
    BY DEF nodes
  <1>9. List(L, m)'
    BY <1>2, <1>7, <1>8 DEF List
  <1> QED
    BY <1>2, <1>5, <1>6, <1>9

LEMMA OthersKnowTail ==
  ASSUME NEW m, NEW L, NEW u \in Threads, Knows(u, L, m),
         pc'[u] = pc[u], local'[u] = local[u], Types,
         UNCHANGED << next, data, head_, tested >>,
         tail_'.tag = tail_.tag + 1, tail_'.ptr # head_.ptr
  PROVE  Knows(u, L, m)'
  <1> DEFINE p == pc[u]
             s == local[u].tail
  <1>1. tail_.tag \in Nat /\ s.tag \in Nat
    BY LocalFields, PointerFields DEF Types, NodePtr
  <1>2. p \in {"load next", "check", "help", "link", "swing"} =>
          s.tag <= tail_.tag
    BY DEF Knows, SeenEnds, Old
  <1> HIDE DEF p, s
  <1>3. p \in {"load next", "check", "help", "link", "swing"} =>
          s.tag <= tail_'.tag /\ s.tag # tail_'.tag
    <2> DEFINE a == s.tag
               b == tail_.tag
               d == tail_'.tag
    <2>1. a \in Nat /\ b \in Nat /\ d = b + 1
      BY <1>1
    <2> HIDE DEF a, b, d
    <2>2. a <= b => a <= d /\ a # d
      BY ONLY <2>1
    <2> QED
      BY <1>2, <2>2 DEF a, b, d
  <1>4. SeenEnds(u)'
    BY <1>3 DEF Knows, SeenEnds, Old, p, s
  <1>5. p \in {"check", "help", "swing"} => tail_' # s
    BY <1>3
  <1>6. u \in Producers => ProducerSees(u, L, m)'
    BY <1>5 DEF Knows, ProducerSees, p, s
  <1>7. u \in Consumers => ConsumerSees(u)'
    BY <1>5 DEF Knows, ConsumerSees, p, s
  <1>8. u \in Consumers => Tested(u, m)'
    BY DEF Knows, Tested
  <1> QED
    BY <1>4, <1>6, <1>7, <1>8 DEF Knows

LEMMA TailStep ==
  ASSUME NEW m, NEW L, Inv(L, m), Types', NEW t \in Threads,
         NEW from, NEW to, NEW n, SwingTail(t, from, to, n), n \in Node,
         tail_ = local[t].tail => next[tail_.ptr].ptr = n,
         \A v : Holds(t, v)' => Holds(t, v),
         Knows(t, L, m)'
  PROVE  Inv(L, m)'
  <1>1. /\ Step(t, from, to, local[t]) /\ Types
        /\ UNCHANGED << nodes, head_, tested, next, data >>
    BY DEF SwingTail, threads, nodes, Inv
  <1>2. CASE tail_ = local[t].tail
    <2>1. tail_' = Successor(n, tail_)
      BY <1>2 DEF SwingTail
    <2>2. List(L, m)' /\ tail_'.ptr # head_.ptr /\ tail_'.tag = tail_.tag + 1
      BY <1>1, <1>2, <2>1, TailMoves
    <2>3. \A u \in Threads : u # t => pc'[u] = pc[u] /\ local'[u] = local[u]
      BY <1>1, StepOf
    <2>4. \A u \in Threads : \A v : Holds(u, v)' => Holds(u, v)
      BY <2>3 DEF Holds
    <2>5. OnePlace(L, m)'
      BY <1>1, <2>4 DEF Inv, OnePlace, InPool, nodes
    <2>6. ASSUME NEW u \in Threads, u # t PROVE Knows(u, L, m)'
      BY <1>1, <2>2, <2>3, <2>6, OthersKnowTail DEF Inv
    <2> QED
      BY <2>2, <2>5, <2>6 DEF Inv
  <1>3. CASE tail_ # local[t].tail
    <2>1. UNCHANGED ends
      BY <1>3 DEF SwingTail, ends
    <2> QED
      BY <1>1, <2>1, QuietStep
  <1> QED
    BY <1>2, <1>3

LEMMA ProducerSwings ==
  ASSUME NEW m, NEW L, Inv(L, m), Types', NEW p \in Producers,
         Swing(p) \/ HelpPush(p)
  PROVE  Inv(L, m)'
  <1>1. /\ p \in Threads /\ p \notin Consumers /\ Types
        /\ SeenEnds(p) /\ ProducerSees(p, L, m)
    BY ProducerFacts
  <1>2. CASE Swing(p)
    <2>1. SwingTail(p, "swing", "load size", local[p].node)
      BY <1>2 DEF Swing
    <2>2. pc[p] = "swing" /\ pc'[p] = "load size"
      BY <1>1, <2>1 DEF SwingTail, Step, Types
    <2>3. /\ local[p].node \in Node
          /\ tail_ = local[p].tail => next[tail_.ptr].ptr = local[p].node
      BY <1>1, <2>2 DEF ProducerSees
    <2>4. \A v : Holds(p, v)' => Holds(p, v)
      BY <1>1, <2>2 DEF Holds, Building
    <2>5. SeenEnds(p)' /\ ProducerSees(p, L, m)'
      BY <1>1, <2>2 DEF SeenEnds, ProducerSees, Building
    <2>6. Knows(p, L, m)'
      BY <1>1, <2>5 DEF Knows
    <2> QED
      BY <1>1, <2>1, <2>3, <2>4, <2>6, TailStep
  <1>3. CASE HelpPush(p)
    <2>1. SwingTail(p, "help", "load tail", local[p].next.ptr)
      BY <1>3 DEF HelpPush
    <2>2. pc[p] = "help" /\ pc'[p] = "load tail" /\ local'[p] = local[p]
      BY <1>1, <2>1 DEF SwingTail, Step, Types
    <2>3. /\ local[p].next.ptr \in Node
          /\ tail_ = local[p].tail => next[tail_.ptr].ptr = local[p].next.ptr
      BY <1>1, <2>2 DEF ProducerSees
    <2>4. \A v : Holds(p, v)' => Holds(p, v)
      BY <1>1, <2>2 DEF Holds, Building
    <2>5. UNCHANGED << next, data >>
      BY <2>1 DEF SwingTail, nodes
    <2>6. SeenEnds(p)' /\ ProducerSees(p, L, m)'
      BY <1>1, <2>2, <2>5 DEF SeenEnds, ProducerSees, Building
    <2>7. Knows(p, L, m)'
      BY <1>1, <2>6 DEF Knows
    <2> QED
      BY <1>1, <2>1, <2>3, <2>4, <2>7, TailStep
  <1> QED
    BY <1>2, <1>3

LEMMA ConsumerSwings ==
  ASSUME NEW m, NEW L, Inv(L, m), Types', NEW c \in Consumers, HelpPop(c)
  PROVE  Inv(L, m)'
  <1>1. /\ c \in Threads /\ c \notin Producers /\ Types /\ local[c] \in Local
        /\ SeenEnds(c) /\ ConsumerSees(c) /\ Tested(c, m)
    BY ConsumerFacts
  <1>2. SwingTail(c, "help", "load head", local[c].next.ptr)
    BY DEF HelpPop
  <1>3. pc[c] = "help" /\ pc'[c] = "load head" /\ tested' = tested
    BY <1>1, <1>2 DEF SwingTail, Step, Types, threads
  <1>4. /\ local[c].next.ptr \in Node
        /\ tail_ = local[c].tail => next[tail_.ptr].ptr = local[c].next.ptr
    BY <1>1, <1>3 DEF ConsumerSees
  <1>5. \A v : Holds(c, v)' => Holds(c, v)
    BY <1>1, <1>3 DEF Holds
  <1>6. SeenEnds(c)' /\ ConsumerSees(c)' /\ Tested(c, m)'
    BY <1>1, <1>3 DEF SeenEnds, ConsumerSees, Tested
  <1>7. Knows(c, L, m)'
    BY <1>1, <1>6 DEF Knows
  <1> QED
    BY <1>1, <1>2, <1>4, <1>5, <1>7, TailStep

-----------------------------------------------------------------------------
(***************************************************************************)
(* Taking a node from the pool and giving one back.  Nothing changes in the*)
(* list, and a tag only grows.                                             *)
(***************************************************************************)
LEMMA InList ==
  ASSUME NEW m, NEW L, List(L, m)
  PROVE  /\ m \in Nat \ {0} /\ \A k \in 1 .. m : L[k] \in Node
         /\ \E k \in 1 .. m : L[k] = tail_.ptr
         /\ \E k \in 1 .. m : L[k] = head_.ptr
         /\ \A k \in 1 .. m : next[L[k]].ptr # Null =>
              \E j \in 1 .. m : L[j] = next[L[k]].ptr
         /\ next[L[m]].ptr = Null
  <1>1. m \in Nat \ {0} /\ \A k \in 1 .. m : L[k] \in Node
    BY DEF List
  <1>2. \E k \in 1 .. m : L[k] = head_.ptr
    BY <1>1 DEF List
  <1>3. ASSUME NEW k \in 1 .. m, next[L[k]].ptr # Null
        PROVE  \E j \in 1 .. m : L[j] = next[L[k]].ptr
    <2>1. k # m
      BY <1>3 DEF List
    <2>2. k \in 1 .. (m - 1) /\ k + 1 \in 1 .. m
      BY <1>1, <2>1
    <2> QED
      BY <2>2 DEF List
  <1> QED
    BY <1>1, <1>2, <1>3 DEF List

LEMMA OthersKnowNodes ==
  ASSUME NEW m, NEW L, NEW u \in Threads, Knows(u, L, m), List(L, m), Types,
         pc'[u] = pc[u], local'[u] = local[u],
         UNCHANGED << head_, tail_, tested >>,
         next' \in [Node -> Pointer],
         \A k \in 1 .. m : next'[L[k]] = next[L[k]] /\ data'[L[k]] = data[L[k]],
         \A v \in Node : next[v].tag <= next'[v].tag,
         u \in Producers /\ pc[u] \in Building =>
           LET n == local[u].node
           IN  next'[n] = next[n] /\ data'[n] = data[n]
  PROVE  Knows(u, L, m)'
  <1> DEFINE l == local[u]
  <1>1. SeenEnds(u)'
    BY DEF Knows, SeenEnds, Old
  <1>2. /\ \E k \in 1 .. m : L[k] = tail_.ptr
        /\ \E k \in 1 .. m : L[k] = head_.ptr
        /\ \A k \in 1 .. m : next[L[k]].ptr # Null =>
             \E j \in 1 .. m : L[j] = next[L[k]].ptr
        /\ m \in 1 .. m
    BY InList
  <1>3. next'[tail_.ptr] = next[tail_.ptr] /\ next'[head_.ptr] = next[head_.ptr]
    BY <1>2
  <1>4. ASSUME u \in Producers PROVE ProducerSees(u, L, m)'
    <2>1. ProducerSees(u, L, m)
      BY <1>4 DEF Knows
    <2>2. pc[u] \in Building =>
            next'[l.node] = next[l.node] /\ data'[l.node] = data[l.node]
      BY <1>4
    <2>3. tail_ = l.tail => next'[l.tail.ptr] = next[l.tail.ptr]
      BY <1>3
    <2>4. pc[u] = "link" =>
            \/ next'[l.tail.ptr] = l.next /\ l.tail.ptr = L[m]
            \/ next'[l.tail.ptr].tag > l.next.tag
      <3>1. SUFFICES ASSUME pc[u] = "link",
                            ~ (next[l.tail.ptr] = l.next /\ l.tail.ptr = L[m])
                     PROVE  next'[l.tail.ptr].tag > l.next.tag
        BY <1>2, <2>1
      <3>2. next[l.tail.ptr].tag > l.next.tag /\ l.tail.ptr \in Node
        BY <2>1, <3>1 DEF ProducerSees
      <3>3. l.next.tag \in Nat
        BY LocalFields, PointerFields DEF Types
      <3>4. next[l.tail.ptr].tag \in Nat /\ next'[l.tail.ptr].tag \in Nat
        BY <3>2 DEF Types, Pointer
      <3>5. next[l.tail.ptr].tag <= next'[l.tail.ptr].tag
        BY <3>2
      <3> QED
        BY <3>2, <3>3, <3>4, <3>5
    <2> QED
      BY <2>1, <2>2, <2>3, <2>4 DEF ProducerSees
  <1>5. ASSUME u \in Consumers PROVE ConsumerSees(u)'
    <2>1. ConsumerSees(u)
      BY <1>5 DEF Knows
    <2>2. pc[u] = "unlink" /\ head_ = l.head =>
            data'[l.next.ptr] = data[l.next.ptr]
      <3>1. SUFFICES ASSUME pc[u] = "unlink", head_ = l.head
                     PROVE  data'[l.next.ptr] = data[l.next.ptr]
        OBVIOUS
      <3>2. l.next.ptr \in Node /\ next[head_.ptr].ptr = l.next.ptr
        BY <2>1, <3>1 DEF ConsumerSees
      <3>3. PICK k \in 1 .. m : L[k] = head_.ptr
        BY <1>2
      <3>4. PICK j \in 1 .. m : L[j] = l.next.ptr
        BY <1>2, <3>2, <3>3, NodesFinite
      <3> QED
        BY <3>4
    <2> QED
      BY <1>3, <2>1, <2>2 DEF ConsumerSees
  <1>6. u \in Consumers => Tested(u, m)'
    BY DEF Knows, Tested
  <1> QED
    BY <1>1, <1>4, <1>5, <1>6 DEF Knows

LEMMA PoolPop ==
  ASSUME pool \in Seq(Node), pool # << >>
  PROVE  /\ Head(pool) = pool[1] /\ 1 \in 1 .. Len(pool)
         /\ Tail(pool) \in Seq(Node)
         /\ \A k \in 1 .. Len(Tail(pool)) :
              k + 1 \in 1 .. Len(pool) /\ Tail(pool)[k] = pool[k + 1]
  <1>1. /\ Len(pool) \in Nat \ {0} /\ Tail(pool) \in Seq(Node)
        /\ Len(Tail(pool)) = Len(pool) - 1
        /\ \A k \in 1 .. Len(Tail(pool)) : Tail(pool)[k] = pool[k + 1]
    BY HeadTailProperties, EmptySeq, LenProperties
  <1> QED
    BY <1>1

LEMMA ProducerConstructs ==
  ASSUME NEW m, NEW L, Inv(L, m), Types', NEW p \in Producers, Construct(p)
  PROVE  Inv(L, m)'
  <1> DEFINE n == Head(pool)
             l == [Locals EXCEPT !.node = n]
             d == << p, pushed[p] + 1 >>
  <1>1. /\ p \in Threads /\ p \notin Consumers /\ Types
        /\ SeenEnds(p) /\ ProducerSees(p, L, m)
    BY ProducerFacts
  <1>2. List(L, m) /\ OnePlace(L, m) /\ \A u \in Threads : Knows(u, L, m)
    BY DEF Inv
  <1>3. pool \in Seq(Node) /\ pool # << >>
    BY <1>1 DEF Construct, Types
  <1>4. /\ n = pool[1] /\ 1 \in 1 .. Len(pool) /\ pool' = Tail(pool)
        /\ n \in Node /\ InPool(n)
        /\ \A k \in 1 .. Len(pool') : k + 1 \in 1 .. Len(pool)
                                      /\ pool'[k] = pool[k + 1]
    <2>1. /\ n = pool[1] /\ 1 \in 1 .. Len(pool)
          /\ \A k \in 1 .. Len(Tail(pool)) :
               k + 1 \in 1 .. Len(pool) /\ Tail(pool)[k] = pool[k + 1]
      BY <1>3, PoolPop
    <2>2. pool' = Tail(pool)
      BY DEF Construct
    <2>3. n \in Node
      BY <1>3, <2>1
    <2> HIDE DEF n
    <2>4. InPool(n)
      BY <2>1 DEF InPool
    <2> QED
      BY <2>1, <2>2, <2>3, <2>4
  <1>5. /\ Step(p, "idle", "load tail", l)
        /\ next' = [next EXCEPT ![n] = Successor(Null, next[n])]
        /\ data' = [data EXCEPT ![n] = d]
        /\ UNCHANGED << head_, tail_, tested >>
    BY DEF Construct, NullNext, ends
  <1>6. d \in Packet
    <2>1. pushed[p] \in Nat /\ Pushes[p] \in Nat /\ pushed[p] < Pushes[p]
      BY <1>1, PushesAssumption DEF Construct, Types
    <2>2. pushed[p] + 1 \in 1 .. Pushes[p]
      BY <2>1
    <2> QED
      BY <2>2 DEF Packet
  <1>7. l.node = n /\ Null \in Node \cup {Null}
    BY DEF Locals
  <1> HIDE DEF l, d, n
  <1>8. pc[p] = "idle" /\ pc'[p] = "load tail" /\ local'[p] = l
    BY <1>1, <1>5 DEF Step, Types
  <1>9. /\ next'[n].ptr = Null /\ next'[n].tag = next[n].tag + 1
        /\ next[n].tag \in Nat /\ data'[n] = d
        /\ \A v \in Node : v # n => next'[v] = next[v] /\ data'[v] = data[v]
    <2>1. next[n] \in Pointer
      BY <1>1, <1>4 DEF Types
    <2>2. next'[n] = Successor(Null, next[n]) /\ data'[n] = d
      BY <1>1, <1>4, <1>5 DEF Types
    <2>3. next'[n].ptr = Null /\ next'[n].tag = next[n].tag + 1
      BY <2>1, <2>2, SuccessorType
    <2>4. \A v \in Node : v # n => next'[v] = next[v] /\ data'[v] = data[v]
      BY <1>1, <1>5 DEF Types
    <2> QED
      BY <2>1, <2>2, <2>3, <2>4, PointerFields
  <1>10. \A k \in 1 .. m : L[k] \in Node /\ L[k] # n
    BY <1>2, <1>4, InList DEF OnePlace
  <1>11. List(L, m)'
    <2>1. \A k \in 1 .. m : next'[L[k]] = next[L[k]]
      BY <1>9, <1>10
    <2>2. m \in 1 .. m /\ \A k \in 1 .. (m - 1) : k \in 1 .. m
      BY <1>2 DEF List
    <2> QED
      BY <1>2, <1>5, <2>1, <2>2 DEF List
  <1>12. \A u \in Threads : u # p => pc'[u] = pc[u] /\ local'[u] = local[u]
    BY <1>1, <1>5, StepOf
  <1>13. \A v : InPool(v)' => InPool(v) /\ v # n
    BY <1>2, <1>4 DEF InPool, OnePlace
  <1>14. /\ \A v : Holds(p, v)' => v = n
         /\ \A u \in Threads : u # p => \A v : Holds(u, v)' => Holds(u, v)
    BY <1>1, <1>7, <1>8, <1>12 DEF Holds
  <1>15. OnePlace(L, m)'
    <2>1. \A j, k \in 1 .. Len(pool') : pool'[j] = pool'[k] => j = k
      <3> SUFFICES ASSUME NEW j \in 1 .. Len(pool'), NEW k \in 1 .. Len(pool'),
                          pool'[j] = pool'[k]
                   PROVE  j = k
        OBVIOUS
      <3>1. j + 1 = k + 1
        BY <1>2, <1>4 DEF OnePlace
      <3> QED
        BY <3>1
    <2>2. \A k \in 1 .. m : ~ InPool(L[k])'
      BY <1>2, <1>13 DEF OnePlace
    <2>3. ASSUME NEW t \in Threads, NEW v, Holds(t, v)'
          PROVE  /\ v \in Node /\ ~ InPool(v)'
                 /\ \A k \in 1 .. m : L[k] # v
                 /\ \A u \in Threads : Holds(u, v)' => u = t
      <3>1. CASE t = p
        BY <1>2, <1>4, <1>10, <1>13, <1>14, <2>3, <3>1 DEF OnePlace
      <3>2. CASE t # p
        BY <1>2, <1>4, <1>13, <1>14, <2>3, <3>2 DEF OnePlace
      <3> QED
        BY <3>1, <3>2
    <2> QED
      BY <2>1, <2>2, <2>3 DEF OnePlace
  <1>16. Knows(p, L, m)'
    <2>1. SeenEnds(p)'
      BY <1>1, <1>8 DEF SeenEnds
    <2>2. ProducerSees(p, L, m)'
      BY <1>4, <1>6, <1>7, <1>8, <1>9 DEF ProducerSees, Building
    <2> QED
      BY <1>1, <2>1, <2>2 DEF Knows
  <1>17. ASSUME NEW u \in Threads, u # p PROVE Knows(u, L, m)'
    <2>1. \A k \in 1 .. m : next'[L[k]] = next[L[k]] /\ data'[L[k]] = data[L[k]]
      BY <1>9, <1>10
    <2>2. \A v \in Node : next[v].tag <= next'[v].tag
      <3> SUFFICES ASSUME NEW v \in Node PROVE next[v].tag <= next'[v].tag
        OBVIOUS
      <3>1. next[v].tag \in Nat
        BY <1>1, PointerFields DEF Types
      <3>2. v # n => next'[v].tag = next[v].tag
        BY <1>9
      <3>3. next[n].tag <= next[n].tag + 1
        BY <1>9
      <3> QED
        BY <1>9, <3>1, <3>2, <3>3
    <2>3. u \in Producers /\ pc[u] \in Building =>
            /\ next'[local[u].node] = next[local[u].node]
            /\ data'[local[u].node] = data[local[u].node]
      <3>1. u \in Producers /\ pc[u] \in Building => Holds(u, local[u].node)
        BY DEF Holds
      <3>2. \A v : Holds(u, v) => v \in Node /\ v # n
        BY <1>2, <1>4 DEF OnePlace
      <3> QED
        BY <1>9, <3>1, <3>2
    <2> QED
      BY <1>1, <1>2, <1>5, <1>12, <1>17, <2>1, <2>2, <2>3, OthersKnowNodes
      DEF Types
  <1> QED
    BY <1>11, <1>15, <1>16, <1>17 DEF Inv

LEMMA PoolPush ==
  ASSUME NEW n \in Node, pool \in Seq(Node)
  PROVE  /\ (<< n >> \o pool)[1] = n /\ Len(<< n >> \o pool) = Len(pool) + 1
         /\ Len(pool) \in Nat
         /\ \A k \in 1 .. Len(<< n >> \o pool) :
              k = 1 \/ /\ k - 1 \in 1 .. Len(pool)
                       /\ (<< n >> \o pool)[k] = pool[k - 1]
  <1> DEFINE s == << n >>
  <1>1. s \in Seq(Node) /\ Len(s) = 1 /\ s[1] = n /\ Len(pool) \in Nat
    BY LenProperties
  <1> HIDE DEF s
  <1>2. /\ Len(s \o pool) = Len(s) + Len(pool)
        /\ \A k \in 1 .. Len(s) + Len(pool) :
             (s \o pool)[k] = IF k <= Len(s) THEN s[k] ELSE pool[k - Len(s)]
    BY <1>1, ConcatProperties
  <1>3. \A k \in 1 .. Len(s \o pool) :
          k = 1 \/ (k - 1 \in 1 .. Len(pool) /\ (s \o pool)[k] = pool[k - 1])
    BY <1>1, <1>2
  <1>4. (s \o pool)[1] = n /\ Len(s \o pool) = Len(pool) + 1
    BY <1>1, <1>2
  <1> QED
    BY <1>1, <1>3, <1>4 DEF s

LEMMA ConsumerFrees ==
  ASSUME NEW m, NEW L, Inv(L, m), Types', NEW c \in Consumers, Free(c)
  PROVE  Inv(L, m)'
  <1> DEFINE n     == local[c].head.ptr
             first == IF pool = << >> THEN Null ELSE Head(pool)
             s     == << n >> \o pool
  <1>1. /\ c \in Threads /\ c \notin Producers /\ Types /\ local[c] \in Local
        /\ SeenEnds(c) /\ ConsumerSees(c) /\ Tested(c, m)
    BY ConsumerFacts
  <1>2. List(L, m) /\ OnePlace(L, m) /\ \A u \in Threads : Knows(u, L, m)
    BY DEF Inv
  <1>3. /\ Step(c, "free", "load size", local[c])
        /\ next' = [next EXCEPT ![n].ptr = first] /\ pool' = s
        /\ UNCHANGED << data, head_, tail_, tested >>
    BY DEF Free, ends, threads
  <1>4. pc[c] = "free" /\ pc'[c] = "load size" /\ local'[c] = local[c]
    BY <1>1, <1>3 DEF Step, Types
  <1>5. Holds(c, n)
    BY <1>1, <1>4 DEF Holds
  <1>6. /\ n \in Node /\ ~ InPool(n) /\ \A k \in 1 .. m : L[k] # n
        /\ \A u \in Threads : Holds(u, n) => u = c
    BY <1>1, <1>2, <1>5 DEF OnePlace
  <1> HIDE DEF n, first
  <1>7. /\ s[1] = n /\ Len(s) = Len(pool) + 1 /\ Len(pool) \in Nat
        /\ \A k \in 1 .. Len(s) :
             k = 1 \/ (k - 1 \in 1 .. Len(pool) /\ s[k] = pool[k - 1])
    BY <1>1, <1>6, PoolPush DEF Types
  <1> HIDE DEF s
  <1>8. /\ next'[n].tag = next[n].tag
        /\ \A v \in Node : v # n => next'[v] = next[v]
    <2>1. next[n] \in Pointer /\ next \in [Node -> Pointer]
      BY <1>1, <1>6 DEF Types
    <2>2. next' = [next EXCEPT ![n] = [next[n] EXCEPT !.ptr = first]]
      BY <1>3
    <2>3. next'[n] = [next[n] EXCEPT !.ptr = first]
      BY <1>6, <2>1, <2>2
    <2>4. [next[n] EXCEPT !.ptr = first].tag = next[n].tag
      BY <2>1 DEF Pointer
    <2> QED
      BY <2>1, <2>2, <2>3, <2>4
  <1>9. \A k \in 1 .. m : L[k] \in Node /\ L[k] # n /\ next'[L[k]] = next[L[k]]
    BY <1>2, <1>6, <1>8, InList
  <1>10. List(L, m)'
    <2>1. m \in 1 .. m /\ \A k \in 1 .. (m - 1) : k \in 1 .. m
      BY <1>2 DEF List
    <2> QED
      BY <1>2, <1>3, <1>9, <2>1 DEF List
  <1>11. \A u \in Threads : u # c => pc'[u] = pc[u] /\ local'[u] = local[u]
    BY <1>1, <1>3, StepOf
  <1>12. \A v : InPool(v)' => InPool(v) \/ v = n
    <2>1. ASSUME NEW v, NEW k \in 1 .. Len(s), s[k] = v
          PROVE  InPool(v) \/ v = n
      BY <1>7, <2>1 DEF InPool
    <2> QED
      BY <1>3, <2>1 DEF InPool
  <1>13. \A u \in Threads : \A v : Holds(u, v)' => Holds(u, v) /\ v # n
    <2>1. \A v : ~ Holds(c, v)'
      BY <1>1, <1>4 DEF Holds
    <2>2. \A u \in Threads : u # c => \A v : Holds(u, v)' => Holds(u, v)
      BY <1>11 DEF Holds
    <2> QED
      BY <1>6, <2>1, <2>2
  <1>14. OnePlace(L, m)'
    <2>1. \A j, k \in 1 .. Len(s) : s[j] = s[k] => j = k
      <3> SUFFICES ASSUME NEW j \in 1 .. Len(s), NEW k \in 1 .. Len(s),
                          s[j] = s[k]
                   PROVE  j = k
        OBVIOUS
      <3>1. CASE j = 1 /\ k = 1
        BY <3>1
      <3>2. CASE j # 1 /\ k # 1
        <4>1. j - 1 = k - 1
          BY <1>2, <1>7, <3>2 DEF OnePlace
        <4> QED
          BY <1>7, <4>1
      <3>3. CASE j = 1 /\ k # 1
        BY <1>6, <1>7, <3>3 DEF InPool
      <3>4. CASE j # 1 /\ k = 1
        BY <1>6, <1>7, <3>4 DEF InPool
      <3> QED
        BY <3>1, <3>2, <3>3, <3>4
    <2>2. \A k \in 1 .. m : ~ InPool(L[k])'
      BY <1>2, <1>6, <1>12 DEF OnePlace
    <2>3. ASSUME NEW t \in Threads, NEW v, Holds(t, v)'
          PROVE  /\ v \in Node /\ ~ InPool(v)'
                 /\ \A k \in 1 .. m : L[k] # v
                 /\ \A u \in Threads : Holds(u, v)' => u = t
      BY <1>2, <1>12, <1>13, <2>3 DEF OnePlace
    <2> QED
      BY <1>3, <2>1, <2>2, <2>3 DEF OnePlace
  <1>15. Knows(c, L, m)'
    <2>1. SeenEnds(c)' /\ ConsumerSees(c)'
      BY <1>1, <1>4 DEF SeenEnds, ConsumerSees
    <2>2. Tested(c, m)'
      BY <1>1, <1>3, <1>4 DEF Tested
    <2> QED
      BY <1>1, <2>1, <2>2 DEF Knows
  <1>16. ASSUME NEW u \in Threads, u # c PROVE Knows(u, L, m)'
    <2>1. \A v \in Node : next[v].tag <= next'[v].tag
      <3> SUFFICES ASSUME NEW v \in Node PROVE next[v].tag <= next'[v].tag
        OBVIOUS
      <3>1. next[v].tag \in Nat /\ next'[v].tag = next[v].tag
        BY <1>1, <1>8, PointerFields DEF Types
      <3> QED
        BY <3>1
    <2>2. u \in Producers /\ pc[u] \in Building =>
            /\ next'[local[u].node] = next[local[u].node]
            /\ data'[local[u].node] = data[local[u].node]
      <3>1. u \in Producers /\ pc[u] \in Building => Holds(u, local[u].node)
        BY DEF Holds
      <3>2. \A v : Holds(u, v) => v \in Node /\ v # n
        BY <1>2, <1>6, <1>16 DEF OnePlace
      <3> QED
        BY <1>3, <1>8, <3>1, <3>2
    <2> QED
      BY <1>1, <1>2, <1>3, <1>9, <1>11, <1>16, <2>1, <2>2, OthersKnowNodes
      DEF Types
  <1> QED
    BY <1>10, <1>14, <1>15, <1>16 DEF Inv

-----------------------------------------------------------------------------
(***************************************************************************)
(* A node is linked behind the last one.  Who has seen that one last sees  *)
(* by its tag that it is not any more.                                     *)
(***************************************************************************)
LEMMA OthersKnowLink ==
  ASSUME NEW m, NEW L, NEW u \in Threads, Knows(u, L, m), Types,
         pc'[u] = pc[u], local'[u] = local[u],
         UNCHANGED << data, head_, tail_, tested >>,
         NEW last \in Node, last = L[m], next[last].ptr = Null,
         next'[last].tag = next[last].tag + 1,
         \A v \in Node : v # last => next'[v] = next[v],
         u \in Producers /\ pc[u] \in Building => local[u].node # last,
         NEW M, NEW N, N > 1
  PROVE  Knows(u, M, N)'
  <1> DEFINE l == local[u]
  <1>1. SeenEnds(u)'
    BY DEF Knows, SeenEnds, Old
  <1>2. /\ tail_.ptr \in Node /\ head_.ptr \in Node /\ next[last].tag \in Nat
        /\ l.next.tag \in Nat
    BY LocalFields, PointerFields DEF Types, NodePtr
  <1>3. \A v \in Node : next[v].ptr # Null => next'[v] = next[v]
    OBVIOUS
  <1>4. ASSUME u \in Producers PROVE ProducerSees(u, M, N)'
    <2>1. ProducerSees(u, L, m)
      BY <1>4 DEF Knows
    <2>2. pc[u] \in Building => l.node \in Node /\ next'[l.node] = next[l.node]
      BY <1>4, <2>1 DEF ProducerSees
    <2>3. \A v \in Node : next[v].tag > l.next.tag => next'[v].tag > l.next.tag
      <3> SUFFICES ASSUME NEW v \in Node, next[v].tag > l.next.tag
                   PROVE  next'[v].tag > l.next.tag
        OBVIOUS
      <3>1. CASE v = last
        BY <1>2, <3>1
      <3>2. CASE v # last
        BY <3>2
      <3> QED
        BY <3>1, <3>2
    <2>4. next[last] = l.next => next'[last].tag > l.next.tag
      BY <1>2
    <2>5. pc[u] = "check" /\ tail_ = l.tail =>
            \/ next'[l.tail.ptr] = l.next
            \/ l.next.ptr = Null /\ next'[l.tail.ptr].tag > l.next.tag
      <3> SUFFICES ASSUME pc[u] = "check", tail_ = l.tail
                   PROVE  \/ next'[l.tail.ptr] = l.next
                          \/ /\ l.next.ptr = Null
                             /\ next'[l.tail.ptr].tag > l.next.tag
        OBVIOUS
      <3>1. /\ l.tail.ptr \in Node
            /\ \/ next[l.tail.ptr] = l.next
               \/ l.next.ptr = Null /\ next[l.tail.ptr].tag > l.next.tag
        BY <2>1 DEF ProducerSees
      <3>2. CASE next[l.tail.ptr] = l.next
        <4>1. CASE l.tail.ptr = last
          BY <2>4, <3>2, <4>1
        <4>2. CASE l.tail.ptr # last
          BY <3>1, <3>2, <4>2
        <4> QED
          BY <4>1, <4>2
      <3>3. CASE l.next.ptr = Null /\ next[l.tail.ptr].tag > l.next.tag
        BY <2>3, <3>1, <3>3
      <3> QED
        BY <3>1, <3>2, <3>3
    <2>6. pc[u] = "help" /\ tail_ = l.tail => next'[l.tail.ptr].ptr = l.next.ptr
      <3>1. pc[u] = "help" /\ tail_ = l.tail =>
              /\ l.tail.ptr \in Node /\ l.next.ptr \in Node
              /\ next[l.tail.ptr].ptr = l.next.ptr
        BY <2>1 DEF ProducerSees
      <3> QED
        BY <1>3, <3>1, NodesFinite
    <2>7. pc[u] = "link" => next'[l.tail.ptr].tag > l.next.tag
      <3>1. pc[u] = "link" =>
              /\ l.tail.ptr \in Node
              /\ \/ next[l.tail.ptr] = l.next /\ l.tail.ptr = last
                 \/ next[l.tail.ptr].tag > l.next.tag
        BY <2>1 DEF ProducerSees
      <3> QED
        BY <2>3, <2>4, <3>1
    <2>8. pc[u] = "swing" /\ tail_ = l.tail => next'[l.tail.ptr].ptr = l.node
      <3>1. pc[u] = "swing" /\ tail_ = l.tail =>
              /\ l.tail.ptr \in Node /\ l.node \in Node
              /\ next[l.tail.ptr].ptr = l.node
        BY <2>1 DEF ProducerSees
      <3> QED
        BY <1>3, <3>1, NodesFinite
    <2> QED
      BY <2>1, <2>2, <2>5, <2>6, <2>7, <2>8 DEF ProducerSees
  <1>5. ASSUME u \in Consumers PROVE ConsumerSees(u)'
    <2>1. ConsumerSees(u)
      BY <1>5 DEF Knows
    <2>2. pc[u] = "check" /\ head_ = l.head /\ l.next.ptr # Null =>
            next'[head_.ptr].ptr = l.next.ptr
      BY <1>2, <1>3, <2>1 DEF ConsumerSees
    <2>3. pc[u] = "help" => /\ l.next.ptr \in Node
                            /\ tail_ = l.tail => next'[tail_.ptr].ptr = l.next.ptr
      BY <1>2, <1>3, <2>1, NodesFinite DEF ConsumerSees
    <2>4. pc[u] = "unlink" /\ head_ = l.head =>
            next'[head_.ptr].ptr = l.next.ptr
      BY <1>2, <1>3, <2>1, NodesFinite DEF ConsumerSees
    <2> QED
      BY <2>1, <2>2, <2>3, <2>4 DEF ConsumerSees
  <1>6. u \in Consumers => Tested(u, N)'
    BY DEF Knows, Tested
  <1> QED
    BY <1>1, <1>4, <1>5, <1>6 DEF Knows

(***************************************************************************)
(* The list with node n behind its last one.                               *)
(***************************************************************************)
Longer(L, m, n) == [k \in 1 .. (m + 1) |-> IF k = m + 1 THEN n ELSE L[k]]

LinkWins(p) == next[local[p].tail.ptr] = local[p].next

LEMMA LinkSeesLast ==
  ASSUME NEW m, NEW L, Inv(L, m), NEW p \in Producers, Link(p), LinkWins(p)
  PROVE  /\ local[p].tail.ptr = L[m] /\ local[p].node \in Node
         /\ next[L[m]].ptr = Null /\ next[local[p].node].ptr = Null
         /\ data[local[p].node] \in Packet
         /\ Holds(p, local[p].node) /\ m \in Nat \ {0} /\ L[m] \in Node
         /\ \A k \in 1 .. m : L[k] # local[p].node /\ L[k] \in Node
         /\ next' = [next EXCEPT ![L[m]] = Successor(local[p].node, next[L[m]])]
  <1> DEFINE l == local[p]
  <1>1. /\ p \in Threads /\ p \notin Consumers /\ Types
        /\ SeenEnds(p) /\ ProducerSees(p, L, m)
    BY ProducerFacts
  <1>2. pc[p] = "link"
    BY <1>1 DEF Link, Step
  <1>3. /\ l.tail.ptr \in Node /\ l.node \in Node /\ data[l.node] \in Packet
        /\ next[l.node].ptr = Null /\ l.next.ptr = Null
        /\ \/ next[l.tail.ptr] = l.next /\ l.tail.ptr = L[m]
           \/ next[l.tail.ptr].tag > l.next.tag
    BY <1>1, <1>2 DEF ProducerSees, Building
  <1>4. l.next.tag \in Nat
    BY <1>1, LocalFields, PointerFields DEF Types
  <1>5. ~ (next[l.tail.ptr].tag > l.next.tag)
    BY <1>4 DEF LinkWins
  <1>6. l.tail.ptr = L[m] /\ next[L[m]].ptr = Null
    BY <1>3, <1>5
  <1>7. Holds(p, l.node)
    BY <1>2 DEF Holds, Building
  <1>8. m \in Nat \ {0} /\ \A k \in 1 .. m : L[k] # l.node /\ L[k] \in Node
    BY <1>1, <1>7, InList DEF Inv, OnePlace
  <1>9. next' = [next EXCEPT ![L[m]] = Successor(l.node, next[L[m]])]
    BY <1>6 DEF Link, LinkWins
  <1> QED
    BY <1>3, <1>6, <1>7, <1>8, <1>9

LEMMA ProducerLinks ==
  ASSUME NEW m, NEW L, Inv(L, m), Types', NEW p \in Producers, Link(p),
         LinkWins(p), NEW M, M = Longer(L, m, local[p].node)
  PROVE  Inv(M, m + 1)'
  <1> DEFINE n    == local[p].node
             last == L[m]
  <1>1. /\ p \in Threads /\ p \notin Consumers /\ Types
        /\ SeenEnds(p) /\ ProducerSees(p, L, m)
    BY ProducerFacts
  <1>2. List(L, m) /\ OnePlace(L, m) /\ \A u \in Threads : Knows(u, L, m)
    BY DEF Inv
  <1>3. /\ local[p].tail.ptr = last /\ n \in Node
        /\ next[last].ptr = Null /\ next[n].ptr = Null
        /\ Holds(p, n) /\ m \in Nat \ {0} /\ last \in Node
        /\ \A k \in 1 .. m : L[k] # n /\ L[k] \in Node
        /\ next' = [next EXCEPT ![last] = Successor(n, next[last])]
    BY LinkSeesLast
  <1>4. /\ Step(p, "link", "swing", local[p])
        /\ UNCHANGED << data, pool, head_, tail_, tested >>
    BY DEF Link, LinkWins, ends, threads
  <1>5. pc[p] = "link" /\ pc'[p] = "swing" /\ local'[p] = local[p]
    BY <1>1, <1>4 DEF Step, Types
  <1>6. \A u \in Threads : u # p => pc'[u] = pc[u] /\ local'[u] = local[u]
    BY <1>1, <1>4, StepOf
  <1>7. /\ m + 1 \in Nat \ {0} /\ m + 1 > 1 /\ M \in [1 .. (m + 1) -> Node]
        /\ M[m + 1] = n /\ \A k \in 1 .. m : M[k] = L[k]
        /\ \A k \in 1 .. (m + 1) : k = m + 1 \/ k \in 1 .. m
    <2>1. \A k \in 1 .. (m + 1) : k # m + 1 => k \in 1 .. m
      BY <1>3
    <2>2. \A k \in 1 .. m : k \in 1 .. (m + 1) /\ k # m + 1
      BY <1>3
    <2>3. m + 1 \in Nat \ {0} /\ m + 1 > 1 /\ m + 1 \in 1 .. (m + 1)
      BY <1>3
    <2> QED
      BY <1>3, <2>1, <2>2, <2>3 DEF Longer
  <1> HIDE DEF n, last
  <1>8. /\ next'[last].ptr = n /\ next'[last].tag = next[last].tag + 1
        /\ \A v \in Node : v # last => next'[v] = next[v]
    <2>1. next[last] \in Pointer /\ next \in [Node -> Pointer]
      BY <1>1, <1>3 DEF Types
    <2>2. next'[last] = Successor(n, next[last])
      BY <1>3, <2>1
    <2> QED
      BY <1>3, <2>1, <2>2, SuccessorType
  <1>9. List(M, m + 1)'
    <2>1. \A j, k \in 1 .. (m + 1) : M[j] = M[k] => j = k
      <3>1. \A j, k \in 1 .. m : L[j] = L[k] => j = k
        BY <1>2 DEF List
      <3> QED
        BY <1>3, <1>7, <3>1
    <2>2. M[1] = head_.ptr /\ \E k \in 1 .. (m + 1) : M[k] = tail_.ptr
      <3>1. 1 \in 1 .. m /\ \A k \in 1 .. m : k \in 1 .. (m + 1)
        BY <1>3
      <3> QED
        BY <1>2, <1>7, <3>1 DEF List
    <2>3. \A k \in 1 .. m : next'[M[k]].ptr = M[k + 1]
      <3> SUFFICES ASSUME NEW k \in 1 .. m PROVE next'[M[k]].ptr = M[k + 1]
        OBVIOUS
      <3>1. CASE k = m
        BY <1>7, <1>8, <3>1 DEF last
      <3>2. CASE k # m
        <4>1. k \in 1 .. (m - 1) /\ k + 1 \in 1 .. m /\ m \in 1 .. m
          BY <1>3, <3>2
        <4>2. L[k] # last /\ next[L[k]].ptr = L[k + 1]
          BY <1>2, <3>2, <4>1 DEF List, last
        <4> QED
          BY <1>3, <1>7, <1>8, <4>1, <4>2
      <3> QED
        BY <3>1, <3>2
    <2>4. next'[M[m + 1]].ptr = Null
      <3>1. n # last
        BY <1>3 DEF last
      <3> QED
        BY <1>3, <1>7, <1>8, <3>1
    <2>5. \A k \in 1 .. ((m + 1) - 1) : k \in 1 .. m
      BY <1>3
    <2> QED
      BY <1>4, <1>7, <2>1, <2>2, <2>3, <2>4, <2>5 DEF List
  <1>10. \A u \in Threads : \A v : Holds(u, v)' => Holds(u, v) /\ u # p
    <2>1. \A v : ~ Holds(p, v)'
      BY <1>1, <1>5 DEF Holds, Building
    <2> QED
      BY <1>6, <2>1 DEF Holds
  <1>11. OnePlace(M, m + 1)'
    <2>1. \A v : InPool(v)' <=> InPool(v)
      BY <1>4 DEF InPool
    <2>2. \A k \in 1 .. (m + 1) : ~ InPool(M[k])
      BY <1>1, <1>2, <1>3, <1>7 DEF OnePlace
    <2>3. ASSUME NEW t \in Threads, NEW v, Holds(t, v)'
          PROVE  /\ v \in Node /\ ~ InPool(v)
                 /\ \A k \in 1 .. (m + 1) : M[k] # v
                 /\ \A u \in Threads : Holds(u, v)' => u = t
      <3>1. Holds(t, v) /\ t # p
        BY <1>10, <2>3
      <3>2. v # n
        BY <1>1, <1>2, <1>3, <3>1 DEF OnePlace
      <3> QED
        BY <1>2, <1>7, <1>10, <3>1, <3>2 DEF OnePlace
    <2> QED
      BY <1>2, <1>4, <2>1, <2>2, <2>3 DEF OnePlace
  <1>12. Knows(p, M, m + 1)'
    <2>1. SeenEnds(p)'
      BY <1>1, <1>4, <1>5 DEF SeenEnds, Old
    <2>2. ProducerSees(p, M, m + 1)'
      <3>1. local[p].node = n
        BY DEF n
      <3> QED
        BY <1>1, <1>3, <1>4, <1>5, <1>8, <3>1 DEF ProducerSees, Building
    <2> QED
      BY <1>1, <2>1, <2>2 DEF Knows
  <1>13. ASSUME NEW u \in Threads, u # p PROVE Knows(u, M, m + 1)'
    <2>1. u \in Producers /\ pc[u] \in Building => local[u].node # last
      <3>1. u \in Producers /\ pc[u] \in Building => Holds(u, local[u].node)
        BY DEF Holds
      <3>2. m \in 1 .. m
        BY <1>3
      <3> QED
        BY <1>2, <3>1, <3>2 DEF OnePlace, last
    <2>2. last = L[m]
      BY DEF last
    <2> QED
      BY <1>1, <1>2, <1>3, <1>4, <1>6, <1>7, <1>8, <1>13, <2>1, <2>2,
         OthersKnowLink
  <1> QED
    BY <1>9, <1>11, <1>12, <1>13 DEF Inv

LEMMA ProducerLoses ==
  ASSUME NEW m, NEW L, Inv(L, m), Types', NEW p \in Producers, Link(p),
         ~ LinkWins(p)
  PROVE  Inv(L, m)'
  <1>1. /\ p \in Threads /\ p \notin Consumers /\ Types
        /\ SeenEnds(p) /\ ProducerSees(p, L, m)
    BY ProducerFacts
  <1>2. /\ Step(p, "link", "load tail", local[p])
        /\ UNCHANGED << nodes, ends, tested >>
    BY DEF Link, LinkWins, threads, nodes
  <1>3. pc[p] = "link" /\ pc'[p] = "load tail" /\ local'[p] = local[p]
    BY <1>1, <1>2 DEF Step, Types
  <1>4. \A n : Holds(p, n)' => Holds(p, n)
    BY <1>1, <1>3 DEF Holds, Building
  <1>5. SeenEnds(p)' /\ ProducerSees(p, L, m)'
    BY <1>1, <1>2, <1>3 DEF SeenEnds, ProducerSees, Building, nodes, ends
  <1>6. Knows(p, L, m)'
    BY <1>1, <1>5 DEF Knows
  <1> QED
    BY <1>1, <1>2, <1>4, <1>6, QuietStep

-----------------------------------------------------------------------------
(***************************************************************************)
(* The dummy is unlinked and its successor is the dummy.  Who has seen the *)
(* old one sees by the tag of head_ that it is not the dummy any more.     *)
(***************************************************************************)
LEMMA OthersKnowHead ==
  ASSUME NEW m, NEW L, NEW u \in Threads, Knows(u, L, m), Types,
         pc'[u] = pc[u], local'[u] = local[u],
         UNCHANGED << next, data, tail_ >>,
         head_'.tag = head_.tag + 1,
         NEW M, NEW N, M[N] = L[m], u \in tested' => N > 1
  PROVE  Knows(u, M, N)'
  <1> DEFINE p == pc[u]
             s == local[u].head
             seen == {"ask", "load tail", "load next", "check", "help", "unlink"}
  <1>1. head_.tag \in Nat /\ s.tag \in Nat
    BY LocalFields, PointerFields DEF Types, NodePtr
  <1>2. u \in Consumers /\ p \in seen => s.tag <= head_.tag
    BY DEF Knows, SeenEnds, Old
  <1>3. u \in Consumers /\ p \in seen =>
          s.tag <= head_'.tag /\ s.tag # head_'.tag
    <2> DEFINE a == s.tag
               b == head_.tag
               d == head_'.tag
    <2>1. a \in Nat /\ b \in Nat /\ d = b + 1
      BY <1>1
    <2> HIDE DEF a, b, d, p, seen
    <2>2. a <= b => a <= d /\ a # d
      BY ONLY <2>1
    <2> QED
      BY <1>2, <2>2 DEF a, b, d
  <1> HIDE DEF p, s
  <1>4. SeenEnds(u)'
    BY <1>3 DEF Knows, SeenEnds, Old, p, s
  <1>5. u \in Consumers /\ p \in seen => head_' # s
    BY <1>3
  <1>6. u \in Producers => ProducerSees(u, M, N)'
    BY DEF Knows, ProducerSees
  <1>7. u \in Consumers => ConsumerSees(u)'
    BY <1>5 DEF Knows, ConsumerSees, p, s
  <1>8. u \in Consumers => Tested(u, N)'
    BY <1>5 DEF Knows, Tested, p, s
  <1> QED
    BY <1>4, <1>6, <1>7, <1>8 DEF Knows

(***************************************************************************)
(* The list without its first node.                                        *)
(***************************************************************************)
Shorter(L, m) == [k \in 1 .. (m - 1) |-> L[k + 1]]

UnlinkWins(c) == head_ = local[c].head

LEMMA UnlinkSeesFirst ==
  ASSUME NEW m, NEW L, Inv(L, m), NEW c \in Consumers, Unlink(c), UnlinkWins(c)
  PROVE  /\ m > 1 /\ local[c].next.ptr = L[2] /\ local[c].ret = data[L[2]]
         /\ tail_.ptr # L[1] /\ L[2] \in Node
         /\ head_'.ptr = L[2] /\ head_'.tag = head_.tag + 1
         /\ tested' = IF m = 2 THEN {} ELSE tested
  <1>1. /\ c \in Threads /\ c \notin Producers /\ Types /\ local[c] \in Local
        /\ SeenEnds(c) /\ ConsumerSees(c)
        /\ m \in Nat \ {0} /\ head_.ptr = L[1] /\ List(L, m)
    BY ConsumerFacts DEF Inv
  <1>2. pc[c] = "unlink"
    BY <1>1 DEF Unlink, Step
  <1>3. /\ local[c].next.ptr \in Node /\ tail_.ptr # head_.ptr
        /\ next[head_.ptr].ptr = local[c].next.ptr
        /\ local[c].ret = data[local[c].next.ptr]
    BY <1>1, <1>2 DEF ConsumerSees, UnlinkWins
  <1>4. m > 1 /\ local[c].next.ptr = L[2] /\ L[2] \in Node
    BY <1>1, <1>3, DummyPoints
  <1>5. head_' = Successor(L[2], head_)
    BY <1>4 DEF Unlink, UnlinkWins
  <1>6. head_'.ptr = L[2] /\ head_'.tag = head_.tag + 1
    BY <1>5 DEF Successor, Tagged
  <1>7. Len(Contents) = m - 1
    <2>1. m - 1 \in Nat /\ Contents = [k \in 1 .. (m - 1) |-> data[L[k + 1]]]
      BY <1>1, ContentsOfList
    <2> DEFINE f(k) == data[L[k + 1]]
    <2>2. Len([k \in 1 .. (m - 1) |-> f(k)]) = m - 1
      BY <2>1
    <2> QED
      BY <2>1, <2>2
  <1>8. tested' = IF m = 2 THEN {} ELSE tested
    <2>1. Len(Contents) = 1 <=> m = 2
      BY <1>1, <1>7
    <2> QED
      BY <2>1 DEF Unlink, UnlinkWins
  <1> QED
    BY <1>1, <1>3, <1>4, <1>6, <1>8

LEMMA ConsumerUnlinks ==
  ASSUME NEW m, NEW L, Inv(L, m), Types', NEW c \in Consumers, Unlink(c),
         UnlinkWins(c), NEW M, M = Shorter(L, m)
  PROVE  Inv(M, m - 1)'
  <1>1. /\ c \in Threads /\ c \notin Producers /\ Types /\ local[c] \in Local
        /\ SeenEnds(c) /\ ConsumerSees(c)
        /\ m \in Nat \ {0} /\ head_.ptr = L[1]
    BY ConsumerFacts
  <1>2. List(L, m) /\ OnePlace(L, m) /\ \A u \in Threads : Knows(u, L, m)
    BY DEF Inv
  <1>3. /\ m > 1 /\ tail_.ptr # L[1] /\ head_'.ptr = L[2]
        /\ head_'.tag = head_.tag + 1 /\ tested' = IF m = 2 THEN {} ELSE tested
    BY UnlinkSeesFirst
  <1>4. /\ Step(c, "unlink", "free", local[c])
        /\ UNCHANGED << next, data, pool, tail_ >>
    BY DEF Unlink, UnlinkWins, nodes
  <1>5. pc[c] = "unlink" /\ pc'[c] = "free" /\ local'[c] = local[c]
    BY <1>1, <1>4 DEF Step, Types
  <1>6. \A u \in Threads : u # c => pc'[u] = pc[u] /\ local'[u] = local[u]
    BY <1>1, <1>4, StepOf
  <1>7. /\ m - 1 \in Nat \ {0} /\ M \in [1 .. (m - 1) -> Node]
        /\ \A k \in 1 .. (m - 1) : M[k] = L[k + 1] /\ k + 1 \in 1 .. m
                                   /\ k + 1 # 1
        /\ M[m - 1] = L[m] /\ M[1] = L[2]
    <2>1. /\ m - 1 \in Nat \ {0} /\ (m - 1) + 1 = m /\ 1 + 1 = 2
          /\ m - 1 \in 1 .. (m - 1) /\ 1 \in 1 .. (m - 1)
          /\ \A k \in 1 .. (m - 1) : k + 1 \in 1 .. m /\ k + 1 # 1
      BY <1>1, <1>3
    <2>2. \A k \in 1 .. m : L[k] \in Node
      BY <1>2, InList
    <2> QED
      BY <2>1, <2>2 DEF Shorter
  <1>8. List(M, m - 1)'
    <2>1. ASSUME NEW j \in 1 .. (m - 1), NEW k \in 1 .. (m - 1), M[j] = M[k]
          PROVE  j = k
      <3>1. L[j + 1] = L[k + 1] /\ j + 1 \in 1 .. m /\ k + 1 \in 1 .. m
        BY <1>7, <2>1
      <3>2. j + 1 = k + 1
        BY <1>2, <3>1 DEF List
      <3> QED
        BY <3>2
    <2>2. \A k \in 1 .. ((m - 1) - 1) : next[M[k]].ptr = M[k + 1]
      <3> SUFFICES ASSUME NEW k \in 1 .. ((m - 1) - 1)
                   PROVE  next[M[k]].ptr = M[k + 1]
        OBVIOUS
      <3>1. k \in 1 .. (m - 1) /\ k + 1 \in 1 .. (m - 1)
        BY <1>1
      <3>2. M[k] = L[k + 1] /\ M[k + 1] = L[(k + 1) + 1]
        BY <1>7, <3>1
      <3> QED
        BY <1>2, <3>1, <3>2 DEF List
    <2>3. next[M[m - 1]].ptr = Null
      BY <1>2, <1>7 DEF List
    <2>4. \E k \in 1 .. (m - 1) : M[k] = tail_.ptr
      <3>1. PICK j \in 1 .. m : L[j] = tail_.ptr
        BY <1>2 DEF List
      <3>2. j # 1
        BY <1>3, <3>1
      <3>3. j - 1 \in 1 .. (m - 1) /\ (j - 1) + 1 = j
        BY <1>1, <3>2
      <3>4. M[j - 1] = L[(j - 1) + 1]
        BY <1>7, <3>3
      <3> QED
        BY <3>1, <3>3, <3>4
    <2> QED
      BY <1>3, <1>4, <1>7, <2>1, <2>2, <2>3, <2>4 DEF List
  <1>9. /\ \A v : Holds(c, v)' => v = L[1]
        /\ \A u \in Threads : u # c => \A v : Holds(u, v)' => Holds(u, v)
    <2>1. local[c].head.ptr = L[1]
      BY <1>1 DEF UnlinkWins
    <2>2. \A v : Holds(c, v)' => v = L[1]
      BY <1>1, <1>5, <2>1 DEF Holds
    <2> QED
      BY <1>6, <2>2 DEF Holds
  <1>10. \A k \in 1 .. (m - 1) : M[k] # L[1]
    <2>1. 1 \in 1 .. m
      BY <1>1
    <2> QED
      BY <1>2, <1>7, <2>1 DEF List
  <1>11. OnePlace(M, m - 1)'
    <2>1. \A v : InPool(v)' <=> InPool(v)
      BY <1>4 DEF InPool
    <2>2. \A k \in 1 .. (m - 1) : ~ InPool(M[k])
      BY <1>2, <1>7 DEF OnePlace
    <2>3. L[1] \in Node /\ ~ InPool(L[1])
          /\ \A u \in Threads : ~ Holds(u, L[1])
      <3>1. 1 \in 1 .. m
        BY <1>1
      <3> QED
        BY <1>2, <3>1, InList DEF OnePlace
    <2>4. ASSUME NEW t \in Threads, NEW v, Holds(t, v)'
          PROVE  /\ v \in Node /\ ~ InPool(v)
                 /\ \A k \in 1 .. (m - 1) : M[k] # v
                 /\ \A u \in Threads : Holds(u, v)' => u = t
      <3>1. CASE t = c
        BY <1>9, <1>10, <2>3, <2>4, <3>1
      <3>2. CASE t # c
        <4>1. Holds(t, v) /\ v # L[1]
          BY <1>9, <2>3, <2>4, <3>2
        <4>2. /\ v \in Node /\ ~ InPool(v)
              /\ \A k \in 1 .. m : L[k] # v
              /\ \A u \in Threads : Holds(u, v) => u = t
          BY <1>2, <4>1 DEF OnePlace
        <4> QED
          BY <1>7, <1>9, <4>1, <4>2
      <3> QED
        BY <3>1, <3>2
    <2> QED
      BY <1>2, <1>4, <2>1, <2>2, <2>4 DEF OnePlace
  <1>12. \A u \in Threads : u \in tested' => u \in tested /\ m - 1 > 1
    BY <1>1, <1>3
  <1>13. Knows(c, M, m - 1)'
    <2>1. SeenEnds(c)' /\ ConsumerSees(c)'
      BY <1>1, <1>5 DEF SeenEnds, ConsumerSees
    <2>2. Tested(c, m - 1)'
      BY <1>1, <1>5, <1>12 DEF Tested
    <2> QED
      BY <1>1, <2>1, <2>2 DEF Knows
  <1>14. ASSUME NEW u \in Threads, u # c PROVE Knows(u, M, m - 1)'
    BY <1>1, <1>2, <1>3, <1>4, <1>6, <1>7, <1>12, <1>14, OthersKnowHead
  <1> QED
    BY <1>8, <1>11, <1>13, <1>14 DEF Inv

LEMMA ConsumerLoses ==
  ASSUME NEW m, NEW L, Inv(L, m), Types', NEW c \in Consumers, Unlink(c),
         ~ UnlinkWins(c)
  PROVE  Inv(L, m)'
  <1>1. /\ c \in Threads /\ c \notin Producers /\ Types /\ local[c] \in Local
        /\ SeenEnds(c) /\ ConsumerSees(c) /\ Tested(c, m)
    BY ConsumerFacts
  <1>2. /\ Step(c, "unlink", "load head", local[c]) /\ tested' = tested
        /\ UNCHANGED << nodes, ends >>
    BY DEF Unlink, UnlinkWins, ends
  <1>3. pc[c] = "unlink" /\ pc'[c] = "load head" /\ local'[c] = local[c]
    BY <1>1, <1>2 DEF Step, Types
  <1>4. \A n : Holds(c, n)' => Holds(c, n)
    BY <1>1, <1>3 DEF Holds
  <1>5. SeenEnds(c)' /\ ConsumerSees(c)' /\ Tested(c, m)'
    BY <1>1, <1>2, <1>3 DEF SeenEnds, ConsumerSees, Tested
  <1>6. Knows(c, L, m)'
    BY <1>1, <1>5 DEF Knows
  <1> QED
    BY <1>1, <1>2, <1>4, <1>6, QuietStep

-----------------------------------------------------------------------------
(***************************************************************************)
(* Every step keeps the invariant: of the same list, unless it links a node*)
(* or unlinks one.                                                         *)
(***************************************************************************)
LEMMA InitInd == Init => Ind
  <1> SUFFICES ASSUME Init PROVE Ind
    OBVIOUS
  <1> DEFINE L == [k \in 1 .. 1 |-> 1]
  <1>1. 1 \in Node /\ 1 \in Nat \ {0} /\ L \in [1 .. 1 -> Node] /\ L[1] = 1
    BY NumNodesAssumption DEF Node
  <1>2. /\ pool = [k \in 1 .. (NumNodes - 1) |-> k + 1] /\ pool \in Seq(Node)
        /\ Len(pool) = NumNodes - 1
    <2>1. NumNodes - 1 \in Nat
      BY NumNodesAssumption
    <2> DEFINE e(k) == k + 1
    <2>2. \A k \in 1 .. (NumNodes - 1) : e(k) \in Node
      BY NumNodesAssumption DEF Node
    <2>3. pool = [k \in 1 .. (NumNodes - 1) |-> e(k)]
      BY DEF Init
    <2> HIDE DEF e
    <2>4. pool \in Seq(Node) /\ Len(pool) = NumNodes - 1
      BY <2>1, <2>2, <2>3
    <2> QED
      BY <2>3, <2>4 DEF e
  <1>3. Types
    <2>1. Tagged(Null, 0) \in Pointer /\ Tagged(1, 0) \in NodePtr
      BY <1>1 DEF Tagged, Pointer, NodePtr
    <2>2. "idle" \in Pcs
      BY DEF Pcs
    <2> QED
      BY <1>2, <2>1, <2>2, LocalsType DEF Init, Types
  <1>4. List(L, 1)
    <2>1. head_.ptr = 1 /\ tail_.ptr = 1 /\ next[1].ptr = Null
      BY <1>1 DEF Init, Tagged
    <2> QED
      BY <1>1, <2>1 DEF List
  <1>5. OnePlace(L, 1)
    <2>1. \A t \in Threads : \A n : ~ Holds(t, n)
      BY DEF Init, Holds, Building
    <2>2. \A k \in 1 .. Len(pool) : pool[k] = k + 1 /\ k + 1 # 1
      BY <1>2, NumNodesAssumption
    <2>3. \A j, k \in 1 .. Len(pool) : pool[j] = pool[k] => j = k
      BY <2>2
    <2>4. ~ InPool(1)
      BY <2>2 DEF InPool
    <2> QED
      BY <1>1, <2>1, <2>3, <2>4 DEF OnePlace
  <1>6. ASSUME NEW t \in Threads PROVE Knows(t, L, 1)
    <2>1. pc[t] = "idle" /\ t \notin tested
      BY <1>6 DEF Init
    <2> QED
      BY <2>1 DEF Knows, SeenEnds, ProducerSees, ConsumerSees, Tested, Building
  <1>7. Inv(L, 1)
    BY <1>3, <1>4, <1>5, <1>6 DEF Inv
  <1> HIDE DEF L
  <1> QED
    BY <1>1, <1>7 DEF Ind

LEMMA InitEmpty ==
  ASSUME NEW m, NEW L, Inv(L, m), Init
  PROVE  m = 1
  <1>1. m # 1 => next[L[1]].ptr = L[2] /\ L[1] \in Node /\ L[2] \in Node
    <2>1. m # 1 => 1 \in 1 .. m /\ 2 \in 1 .. m /\ 1 \in 1 .. (m - 1)
                   /\ 1 + 1 = 2
      BY DEF Inv, List
    <2> QED
      BY <2>1 DEF Inv, List
  <1>2. \A n \in Node : next[n].ptr = Null
    BY DEF Init, Tagged
  <1> QED
    BY <1>1, <1>2, NodesFinite

Kept(L, m) ==
  Inv(L, m)' /\ \A k \in 1 .. m : data'[L[k]] = data[L[k]]

Linked(p, L, m) ==
  /\ Link(p) /\ LinkWins(p)
  /\ \A M : M = Longer(L, m, local[p].node) => Inv(M, m + 1)'

Unlinked(c, L, m) ==
  /\ Unlink(c) /\ UnlinkWins(c)
  /\ \A M : M = Shorter(L, m) => Inv(M, m - 1)'

LEMMA InvNext ==
  ASSUME NEW m, NEW L, Inv(L, m), Next
  PROVE  \/ /\ Kept(L, m)
            /\ \A p \in Producers : ~ (Link(p) /\ LinkWins(p))
            /\ \A c \in Consumers : ~ (Unlink(c) /\ UnlinkWins(c))
         \/ \E p \in Producers : Linked(p, L, m)
         \/ \E c \in Consumers : Unlinked(c, L, m)
  <1>1. Types'
    BY TypesStep
  <1>2. Types
    BY DEF Inv
  <1>3. ASSUME data' = data, Inv(L, m)' PROVE Kept(L, m)
    BY <1>3 DEF Kept
  <1>4. ASSUME NEW p \in Producers, Construct(p) PROVE Kept(L, m)
    <2> DEFINE n == Head(pool)
    <2>1. Inv(L, m)'
      BY <1>1, <1>4, ProducerConstructs
    <2>2. pool \in Seq(Node) /\ pool # << >>
      BY <1>2, <1>4 DEF Construct, Types
    <2>3. n = pool[1] /\ 1 \in 1 .. Len(pool)
      BY <2>2, PoolPop
    <2>4. data' = [data EXCEPT ![n] = << p, pushed[p] + 1 >>]
      BY <1>4 DEF Construct
    <2> HIDE DEF n
    <2>5. InPool(n)
      BY <2>3 DEF InPool
    <2>6. \A k \in 1 .. m : L[k] # n /\ L[k] \in Node
      BY <2>5, InList DEF Inv, OnePlace
    <2>7. \A k \in 1 .. m : data'[L[k]] = data[L[k]]
      BY <1>2, <2>4, <2>6 DEF Types
    <2> QED
      BY <2>1, <2>7 DEF Kept
  <1>5. ASSUME NEW p \in Producers, PushStep(p), ~ (Link(p) /\ LinkWins(p))
        PROVE  Kept(L, m)
    <2>1. Inv(L, m)'
      BY <1>1, <1>5, ProducerLoadTail, ProducerLoadNext, ProducerCheck,
         ProducerSwings, ProducerSize, ProducerLoses DEF PushStep
    <2>2. data' = data
      BY <1>5 DEF PushStep, LoadTail, LoadNext, CheckTail, Link, Swing, HelpPush,
                  SwingTail, LoadSize, PushCount, StoreSize, nodes
    <2> QED
      BY <1>3, <2>1, <2>2
  <1>6. ASSUME NEW p \in Producers, Link(p), LinkWins(p) PROVE Linked(p, L, m)
    BY <1>1, <1>6, ProducerLinks DEF Linked
  <1>7. ASSUME NEW c \in Consumers, EmptyLoad(c) \/ PopStep(c),
               ~ (Unlink(c) /\ UnlinkWins(c))
        PROVE  Kept(L, m)
    <2>1. Inv(L, m)'
      BY <1>1, <1>7, ConsumerAsks, ConsumerLoads, ConsumerChecks,
         ConsumerSwings, ConsumerSize, ConsumerLoses, ConsumerFrees DEF PopStep
    <2>2. data' = data
      BY <1>7 DEF EmptyLoad, PopStep, EmptyAnswer, LoadHead, LoadTail, LoadNext,
                  SeeEmpty, SeeLag, CopyPacket, HelpPop, SwingTail, Unlink,
                  Free, LoadSize, PopCount, BurstGoesOn, StoreSize, nodes
    <2> QED
      BY <1>3, <2>1, <2>2
  <1>8. ASSUME NEW c \in Consumers, Unlink(c), UnlinkWins(c)
        PROVE  Unlinked(c, L, m)
    BY <1>1, <1>8, ConsumerUnlinks DEF Unlinked
  <1>9. CASE \E p \in Producers : Link(p) /\ LinkWins(p)
    BY <1>6, <1>9
  <1>10. CASE \E c \in Consumers : Unlink(c) /\ UnlinkWins(c)
    BY <1>8, <1>10
  <1>11. CASE /\ \A p \in Producers : ~ (Link(p) /\ LinkWins(p))
              /\ \A c \in Consumers : ~ (Unlink(c) /\ UnlinkWins(c))
    BY <1>4, <1>5, <1>7, <1>11 DEF Next
  <1> QED
    BY <1>9, <1>10, <1>11

LEMMA InvStutter ==
  ASSUME NEW m, NEW L, Inv(L, m), UNCHANGED vars
  PROVE  Kept(L, m)
  <1>1. /\ UNCHANGED << next, data, pool, head_, tail_, qSize, spoiled >>
        /\ UNCHANGED << pushed, tested, pc, local >>
    BY DEF vars, nodes, ends, size, threads
  <1>2. Types' /\ List(L, m)' /\ OnePlace(L, m)'
    BY <1>1 DEF Inv, Types, List, OnePlace, Holds, InPool
  <1>3. \A t \in Threads : Knows(t, L, m)'
    BY <1>1, OthersKnow DEF Inv
  <1> QED
    BY <1>1, <1>2, <1>3 DEF Kept, Inv

LEMMA InvLength ==
  ASSUME NEW m, NEW L, Inv(L, m)
  PROVE  m \in Nat \ {0} /\ L \in [1 .. m -> Node] /\ List(L, m)
  BY DEF Inv, List

LEMMA IndStep == Ind /\ [Next]_vars => Ind'
  <1> SUFFICES ASSUME Ind, [Next]_vars PROVE Ind'
    OBVIOUS
  <1>1. PICK m \in Nat \ {0} : \E L \in [1 .. m -> Node] : Inv(L, m)
    BY DEF Ind
  <1>2. PICK L \in [1 .. m -> Node] : Inv(L, m)
    BY <1>1
  <1>3. ASSUME NEW M, NEW N, Inv(M, N)' PROVE Ind'
    <2>1. N \in Nat \ {0} /\ M \in [1 .. N -> Node]
      BY <1>3 DEF Inv, List
    <2> QED
      BY <1>3, <2>1 DEF Ind
  <1>4. CASE Kept(L, m)
    BY <1>3, <1>4 DEF Kept
  <1>5. ASSUME NEW p \in Producers, Linked(p, L, m) PROVE Ind'
    BY <1>3, <1>5 DEF Linked
  <1>6. ASSUME NEW c \in Consumers, Unlinked(c, L, m) PROVE Ind'
    BY <1>3, <1>6 DEF Unlinked
  <1> QED
    BY <1>2, <1>4, <1>5, <1>6, InvNext, InvStutter

LEMMA IndHolds == Spec => []Ind
  BY InitInd, IndStep, PTL DEF Spec

(***************************************************************************)
(* A pop fails only if the queue was empty some time since it was called:  *)
(* who has been told of a packet finds one, unless another consumer has    *)
(* taken it.  This is what pop() in include/queue.hpp promises and what    *)
(* InputAdaptor::coreRun relies on.                                        *)
(***************************************************************************)
THEOREM FailsOnlyWhenEmptyHolds == Spec => []FailsOnlyWhenEmpty
  <1>1. ASSUME Ind PROVE FailsOnlyWhenEmpty
    <2>1. PICK m \in Nat \ {0} : \E L \in [1 .. m -> Node] : Inv(L, m)
      BY <1>1 DEF Ind
    <2>2. PICK L \in [1 .. m -> Node] : Inv(L, m)
      BY <2>1
    <2>3. ASSUME NEW c \in Consumers, pc[c] = "check", Fails(c), c \in tested
          PROVE  FALSE
      <3>1. Tested(c, m)
        BY <2>2, ConsumerFacts
      <3> QED
        BY <2>3, <3>1 DEF Tested, Fails
    <2> QED
      BY <2>3 DEF FailsOnlyWhenEmpty
  <1>2. Ind => FailsOnlyWhenEmpty
    BY <1>1
  <1> QED
    BY <1>2, IndHolds, PTL

-----------------------------------------------------------------------------
(***************************************************************************)
(* What a step does to the packets in the queue.                           *)
(***************************************************************************)
Packets == Packet \cup {<< >>}

ContentsAre ==
  \A m : \A L : Inv(L, m) =>
    /\ Contents \in Seq(Packets) /\ Len(Contents) = m - 1
    /\ \A k \in 1 .. (m - 1) : Contents[k] = data[L[k + 1]]

LEMMA ContentsSeq == ContentsAre
  <1> SUFFICES ASSUME NEW m, NEW L, Inv(L, m)
               PROVE  /\ Contents \in Seq(Packets) /\ Len(Contents) = m - 1
                      /\ \A k \in 1 .. (m - 1) : Contents[k] = data[L[k + 1]]
    BY DEF ContentsAre
  <1> DEFINE f(k) == data[L[k + 1]]
  <1>1. m \in Nat \ {0} /\ List(L, m) /\ \A k \in 1 .. m : L[k] \in Node
    BY InvLength, InList
  <1>2. m - 1 \in Nat /\ \A k \in 1 .. (m - 1) : k + 1 \in 1 .. m
    BY <1>1
  <1>3. \A k \in 1 .. (m - 1) : f(k) \in Packets
    BY <1>1, <1>2 DEF Inv, Types, Packets
  <1>4. Contents = [k \in 1 .. (m - 1) |-> f(k)]
    BY <1>1, ContentsOfList
  <1> HIDE DEF f
  <1>5. Contents \in Seq(Packets) /\ Len(Contents) = m - 1
    BY <1>2, <1>3, <1>4
  <1>6. \A k \in 1 .. (m - 1) : Contents[k] = f(k)
    BY <1>4
  <1> QED
    BY <1>5, <1>6 DEF f

LEMMA ContentsSeqNext == ContentsAre'
  BY ContentsSeq, PTL

LEMMA KeptContents ==
  ASSUME NEW m, NEW L, Inv(L, m), Kept(L, m)
  PROVE  Contents' = Contents
  <1>1. m \in Nat \ {0}
    BY InvLength
  <1>2. /\ Contents \in Seq(Packets) /\ Len(Contents) = m - 1
        /\ \A k \in 1 .. (m - 1) : Contents[k] = data[L[k + 1]]
    BY ContentsSeq DEF ContentsAre
  <1>3. /\ Contents' \in Seq(Packets) /\ Len(Contents') = m - 1
        /\ \A k \in 1 .. (m - 1) : Contents'[k] = data'[L[k + 1]]
    BY ContentsSeqNext DEF ContentsAre, Kept
  <1>4. \A k \in 1 .. (m - 1) : data'[L[k + 1]] = data[L[k + 1]]
    BY <1>1 DEF Kept
  <1>5. \A k \in 1 .. Len(Contents) : Contents[k] = Contents'[k]
    BY <1>2, <1>3, <1>4
  <1> QED
    BY <1>2, <1>3, <1>5, SeqEqual

LEMMA LinkedContents ==
  ASSUME NEW m, NEW L, Inv(L, m), NEW p \in Producers, Linked(p, L, m)
  PROVE  \E v \in Packet : Contents' = Append(Contents, v)
  <1> DEFINE n == local[p].node
             v == data[n]
  <1>1. /\ m \in Nat \ {0} /\ n \in Node /\ v \in Packet
    BY LinkSeesLast DEF Linked
  <1>2. PICK M : M = Longer(L, m, n)
    OBVIOUS
  <1>3. Inv(M, m + 1)' /\ data' = data
    BY <1>2 DEF Linked, Link
  <1> HIDE DEF n, v
  <1>4. /\ Contents \in Seq(Packets) /\ Len(Contents) = m - 1
        /\ \A k \in 1 .. (m - 1) : Contents[k] = data[L[k + 1]]
    BY ContentsSeq DEF ContentsAre
  <1>5. /\ Contents' \in Seq(Packets) /\ Len(Contents') = m
        /\ \A k \in 1 .. m : Contents'[k] = data[M[k + 1]]
    <2>1. (m + 1) - 1 = m
      BY <1>1
    <2> QED
      BY <1>3, <2>1, ContentsSeqNext DEF ContentsAre
  <1>6. /\ \A k \in 1 .. (m - 1) : M[k + 1] = L[k + 1]
        /\ M[m + 1] = n
    BY <1>1, <1>2 DEF Longer
  <1> DEFINE s == Append(Contents, v)
  <1>7. v \in Packets
    BY <1>1 DEF Packets
  <1>8. /\ s \in Seq(Packets) /\ Len(s) = m /\ s[m] = v
        /\ \A k \in 1 .. (m - 1) : s[k] = Contents[k]
    <2>1. (m - 1) + 1 = m
      BY <1>1
    <2> QED
      BY <1>4, <1>7, <2>1, AppendProperties
  <1> HIDE DEF s
  <1>9. \A k \in 1 .. Len(Contents') : Contents'[k] = s[k]
    <2> SUFFICES ASSUME NEW k \in 1 .. m PROVE Contents'[k] = s[k]
      BY <1>5
    <2>1. CASE k = m
      BY <1>5, <1>6, <1>8, <2>1 DEF v
    <2>2. CASE k # m
      <3>1. k \in 1 .. (m - 1)
        BY <1>1, <2>2
      <3> QED
        BY <1>4, <1>5, <1>6, <1>8, <3>1
    <2> QED
      BY <2>1, <2>2
  <1>10. Contents' = s
    BY <1>5, <1>8, <1>9, SeqEqual
  <1> QED
    BY <1>1, <1>10 DEF s

LEMMA UnlinkedContents ==
  ASSUME NEW m, NEW L, Inv(L, m), NEW c \in Consumers, Unlinked(c, L, m)
  PROVE  /\ Contents # << >> /\ Contents' = Tail(Contents)
         /\ Len(Contents) = m - 1 /\ local[c].ret = Head(Contents)
  <1>1. m \in Nat \ {0} /\ m > 1 /\ local[c].ret = data[L[2]]
    BY InvLength, UnlinkSeesFirst DEF Unlinked
  <1>2. PICK M : M = Shorter(L, m)
    OBVIOUS
  <1>3. Inv(M, m - 1)' /\ data' = data
    BY <1>2 DEF Unlinked, Unlink, nodes
  <1>4. /\ Contents \in Seq(Packets) /\ Len(Contents) = m - 1
        /\ \A k \in 1 .. (m - 1) : Contents[k] = data[L[k + 1]]
    BY ContentsSeq DEF ContentsAre
  <1>5. /\ Contents' \in Seq(Packets) /\ Len(Contents') = (m - 1) - 1
        /\ \A k \in 1 .. ((m - 1) - 1) : Contents'[k] = data[M[k + 1]]
    BY <1>3, ContentsSeqNext DEF ContentsAre
  <1>6. Contents # << >>
    <2>1. Len(Contents) # 0
      BY <1>1, <1>4
    <2> QED
      BY <2>1
  <1>7. Head(Contents) = local[c].ret
    <2>1. 1 \in 1 .. (m - 1) /\ 1 + 1 = 2
      BY <1>1
    <2>2. Contents[1] = data[L[2]]
      BY <1>4, <2>1
    <2> QED
      BY <1>1, <1>4, <1>6, <2>2
  <1> DEFINE s == Tail(Contents)
  <1>8. /\ s \in Seq(Packets) /\ Len(s) = (m - 1) - 1
        /\ \A k \in 1 .. Len(s) : s[k] = Contents[k + 1]
    BY <1>4, <1>6, HeadTailProperties
  <1> HIDE DEF s
  <1>9. \A k \in 1 .. Len(Contents') : Contents'[k] = s[k]
    <2> SUFFICES ASSUME NEW k \in 1 .. ((m - 1) - 1) PROVE Contents'[k] = s[k]
      BY <1>5
    <2>1. k + 1 \in 1 .. (m - 1)
      BY <1>1
    <2>2. M[k + 1] = L[(k + 1) + 1]
      BY <1>2, <2>1 DEF Shorter
    <2> QED
      BY <1>4, <1>5, <1>8, <2>1, <2>2
  <1>10. Contents' = s
    BY <1>5, <1>8, <1>9, SeqEqual
  <1> QED
    BY <1>4, <1>6, <1>7, <1>10 DEF s

(***************************************************************************)
(* The queue is a FIFO queue: PacketQueues is what push() and pop() of     *)
(* include/queue.hpp do, at their compare-and-swap, and a pop returns the  *)
(* packet that is first then, whatever the other threads do meanwhile.     *)
(***************************************************************************)
FifoNext == \/ \E v \in Packet : Fifo!QueuePush(0, v)
            \/ \E c \in Consumers : Pops(c)

THEOREM FifoRefinement == Spec => FifoSpec
  <1>1. Init => Fifo!QueuesInit
    <2> SUFFICES ASSUME Init PROVE Fifo!QueuesInit
      OBVIOUS
    <2>1. PICK m \in Nat \ {0} : \E L \in [1 .. m -> Node] : Inv(L, m)
      BY InitInd DEF Ind
    <2>2. PICK L \in [1 .. m -> Node] : Inv(L, m)
      BY <2>1
    <2>3. m = 1
      BY <2>2, InitEmpty
    <2>4. Contents \in Seq(Packets) /\ Len(Contents) = 0
      BY <2>2, <2>3, ContentsSeq DEF ContentsAre
    <2>5. Contents = << >>
      BY <2>4
    <2>6. 0 .. (1 - 1) = {0}
      OBVIOUS
    <2> QED
      BY <2>5, <2>6 DEF Fifo!QueuesInit, Fifo!QIds
  <1>2. Ind /\ [Next]_vars => [FifoNext]_Contents
    <2> SUFFICES ASSUME Ind, [Next]_vars PROVE FifoNext \/ Contents' = Contents
      OBVIOUS
    <2>1. PICK m \in Nat \ {0} : \E L \in [1 .. m -> Node] : Inv(L, m)
      BY DEF Ind
    <2>2. PICK L \in [1 .. m -> Node] : Inv(L, m)
      BY <2>1
    <2>3. CASE Kept(L, m)
      BY <2>2, <2>3, KeptContents
    <2>4. ASSUME NEW p \in Producers, Linked(p, L, m) PROVE FifoNext
      <3>1. PICK v \in Packet : Contents' = Append(Contents, v)
        BY <2>2, <2>4, LinkedContents
      <3>2. Fifo!QueuePush(0, v)
        BY <3>1 DEF Fifo!QueuePush
      <3> QED
        BY <3>2 DEF FifoNext
    <2>5. ASSUME NEW c \in Consumers, Unlinked(c, L, m) PROVE FifoNext
      <3>1. Contents' = Tail(Contents) /\ local[c].ret = Head(Contents)
        BY <2>2, <2>5, UnlinkedContents
      <3>2. Step(c, "unlink", "free", local[c]) /\ Types /\ c \in Threads
        BY <2>2, <2>5 DEF Unlinked, Unlink, UnlinkWins, Inv, Threads
      <3>3. pc[c] = "unlink" /\ pc'[c] = "free"
        BY <3>2 DEF Step, Types
      <3>4. Fifo!QueuePop(0)
        BY <3>1 DEF Fifo!QueuePop
      <3> QED
        BY <3>1, <3>3, <3>4 DEF FifoNext, Pops
    <2> QED
      BY <2>2, <2>3, <2>4, <2>5, InvNext, InvStutter
  <1>3. FifoSpec <=> Fifo!QueuesInit /\ [][FifoNext]_Contents
    BY DEF FifoSpec, FifoNext
  <1> QED
    BY <1>1, <1>2, <1>3, IndHolds, PTL DEF Spec

-----------------------------------------------------------------------------
(***************************************************************************)
(* The counter.  The calls that have not counted yet, and what it is off   *)
(* by but for them: what the stores that others overwrote have cost it.    *)
(***************************************************************************)
PushPlaces == {"swing", "load size", "store size"}
PopPlaces  == {"free", "load size", "store size"}

Drift == qSize - Len(Contents) + Uncounted(Producers, PushPlaces)
                - Uncounted(Consumers, PopPlaces)

At(S, places) == {t \in S : pc[t] \in places}

(***************************************************************************)
(* What a thread is about to store takes the counter as far off as it was  *)
(* when the thread loaded it, and one further for each store since.        *)
(***************************************************************************)
Sizes ==
  /\ IsFiniteSet(At(Producers, PushPlaces))
  /\ IsFiniteSet(At(Consumers, PopPlaces))
  /\ - spoiled <= Drift /\ Drift <= spoiled
  /\ \A t \in Threads : pc[t] = "store size" =>
       LET after == Drift + (local[t].n - qSize)
       IN  - spoiled <= after /\ after <= spoiled

LEMMA UncountedStep ==
  ASSUME Types, NEW t \in Threads, NEW from, NEW to, NEW l,
         Step(t, from, to, l), NEW S \in SUBSET Threads, NEW places,
         IsFiniteSet(At(S, places))
  PROVE  /\ IsFiniteSet(At(S, places))'
         /\ Uncounted(S, places) \in Nat
         /\ t \notin S \/ (from \in places /\ to \in places)
                      \/ (from \notin places /\ to \notin places) =>
              Uncounted(S, places)' = Uncounted(S, places)
         /\ t \in S /\ from \notin places /\ to \in places =>
              Uncounted(S, places)' = Uncounted(S, places) + 1
         /\ t \in S /\ from \in places /\ to \notin places =>
              Uncounted(S, places)' = Uncounted(S, places) - 1
  <1> DEFINE A == {u \in S : pc[u] \in places}
             B == {u \in S : pc'[u] \in places}
  <1>1. /\ pc[t] = from /\ pc'[t] = to
        /\ \A u \in Threads : u # t => pc'[u] = pc[u]
    BY DEF Step, Types
  <1>2. t \notin S \/ (from \in places /\ to \in places)
                  \/ (from \notin places /\ to \notin places) => B = A
    BY <1>1
  <1>3. t \in S /\ from \notin places /\ to \in places =>
          t \notin A /\ B = A \cup {t}
    BY <1>1
  <1>4. t \in S /\ from \in places /\ to \notin places =>
          t \in A /\ B = A \ {t}
    BY <1>1
  <1>5. IsFiniteSet(A)
    BY DEF At
  <1> HIDE DEF A, B
  <1>6. Cardinality(A) \in Nat
    BY <1>5, FS_CardinalityType
  <1>7. t \notin A /\ B = A \cup {t} =>
          IsFiniteSet(B) /\ Cardinality(B) = Cardinality(A) + 1
    BY <1>5, FS_AddElement
  <1>8. t \in A /\ B = A \ {t} =>
          IsFiniteSet(B) /\ Cardinality(B) = Cardinality(A) - 1
    BY <1>5, FS_RemoveElement
  <1>9. IsFiniteSet(B)
    BY <1>2, <1>3, <1>4, <1>5, <1>7, <1>8
  <1> QED
    BY <1>2, <1>3, <1>4, <1>6, <1>7, <1>8, <1>9 DEF Uncounted, At, A, B

LEMMA UncountedSame ==
  ASSUME Types, NEW t \in Threads, NEW from, NEW to, NEW l,
         Step(t, from, to, l), NEW S \in SUBSET Threads, NEW places,
         IsFiniteSet(At(S, places)),
         t \in S => (from \in places <=> to \in places)
  PROVE  /\ IsFiniteSet(At(S, places))'
         /\ Uncounted(S, places)' = Uncounted(S, places)
  <1>1. \/ t \notin S \/ (from \in places /\ to \in places)
        \/ (from \notin places /\ to \notin places)
    OBVIOUS
  <1> QED
    BY <1>1, UncountedStep

LEMMA ContentsLength ==
  ASSUME NEW m, NEW L, Inv(L, m)
  PROVE  Len(Contents) = m - 1 /\ m \in Nat \ {0}
  BY InvLength, ContentsSeq DEF ContentsAre

ContentsCounted == Ind => Len(Contents) \in Nat

LEMMA ContentsCount == ContentsCounted
  <1> SUFFICES ASSUME Ind PROVE Len(Contents) \in Nat
    BY DEF ContentsCounted
  <1>1. PICK m \in Nat \ {0} : \E L \in [1 .. m -> Node] : Inv(L, m)
    BY DEF Ind
  <1>2. PICK L \in [1 .. m -> Node] : Inv(L, m)
    BY <1>1
  <1> QED
    BY <1>2, ContentsLength

(***************************************************************************)
(* A step that neither stores the counter nor makes it more or less wrong. *)
(***************************************************************************)
LEMMA SizesKept ==
  ASSUME Sizes, UNCHANGED << qSize, spoiled >>, Drift' = Drift, Types, Types',
         Drift \in Int,
         IsFiniteSet(At(Producers, PushPlaces))',
         IsFiniteSet(At(Consumers, PopPlaces))',
         \A u \in Threads : pc'[u] = "store size" =>
           \/ pc[u] = "store size" /\ local'[u].n = local[u].n
           \/ local'[u].n = qSize
  PROVE  Sizes'
  <1>1. - spoiled' <= Drift' /\ Drift' <= spoiled'
    BY DEF Sizes
  <1>2. ASSUME NEW u \in Threads, pc'[u] = "store size"
        PROVE  LET after == Drift' + (local'[u].n - qSize')
               IN  - spoiled' <= after /\ after <= spoiled'
    <2>1. CASE pc[u] = "store size" /\ local'[u].n = local[u].n
      BY <2>1 DEF Sizes
    <2>2. CASE local'[u].n = qSize
      <3>1. qSize \in Int /\ qSize' = qSize
        BY DEF Types
      <3>2. local'[u].n - qSize' = 0
        BY ONLY <2>2, <3>1
      <3>3. Drift' + (local'[u].n - qSize') = Drift
        BY ONLY <3>2, Drift' = Drift, Drift \in Int
      <3> QED
        BY <3>3 DEF Sizes
    <2> QED
      BY <1>2, <2>1, <2>2
  <1> QED
    BY <1>1, <1>2 DEF Sizes

LEMMA DriftType ==
  ASSUME Sizes, Types, Len(Contents) \in Nat
  PROVE  /\ Drift \in Int /\ qSize \in Int
         /\ Uncounted(Producers, PushPlaces) \in Nat
         /\ Uncounted(Consumers, PopPlaces) \in Nat
  <1>1. /\ Uncounted(Producers, PushPlaces) \in Nat
        /\ Uncounted(Consumers, PopPlaces) \in Nat
    BY FS_CardinalityType DEF Sizes, At, Uncounted
  <1>2. qSize \in Int
    BY DEF Types
  <1> QED
    BY <1>1, <1>2 DEF Drift

(***************************************************************************)
(* A step that changes neither the counter nor the packets.                *)
(***************************************************************************)
LEMMA SizesQuiet ==
  ASSUME Sizes, Types, Types', Len(Contents) \in Nat,
         UNCHANGED << qSize, spoiled >>, Contents' = Contents,
         NEW t \in Threads, NEW from, NEW to, NEW l, Step(t, from, to, l),
         t \in Producers => (from \in PushPlaces <=> to \in PushPlaces),
         t \in Consumers => (from \in PopPlaces <=> to \in PopPlaces),
         to = "store size" => l.n = qSize
  PROVE  Sizes'
  <1>1. /\ IsFiniteSet(At(Producers, PushPlaces))
        /\ IsFiniteSet(At(Consumers, PopPlaces))
        /\ Producers \subseteq Threads /\ Consumers \subseteq Threads
    BY DEF Sizes, Threads
  <1>2. /\ IsFiniteSet(At(Producers, PushPlaces))'
        /\ Uncounted(Producers, PushPlaces)' = Uncounted(Producers, PushPlaces)
    <2>1. Producers \in SUBSET Threads /\ IsFiniteSet(At(Producers, PushPlaces))
      BY <1>1
    <2>2. Types /\ t \in Threads /\ Step(t, from, to, l)
      OBVIOUS
    <2>3. t \in Producers => (from \in PushPlaces <=> to \in PushPlaces)
      OBVIOUS
    <2> QED
      BY ONLY <2>1, <2>2, <2>3, UncountedSame
  <1>3. /\ IsFiniteSet(At(Consumers, PopPlaces))'
        /\ Uncounted(Consumers, PopPlaces)' = Uncounted(Consumers, PopPlaces)
    <2>1. Consumers \in SUBSET Threads /\ IsFiniteSet(At(Consumers, PopPlaces))
      BY <1>1
    <2>2. Types /\ t \in Threads /\ Step(t, from, to, l)
      OBVIOUS
    <2>3. t \in Consumers => (from \in PopPlaces <=> to \in PopPlaces)
      OBVIOUS
    <2> QED
      BY ONLY <2>1, <2>2, <2>3, UncountedSame
  <1>4. Drift' = Drift
    BY <1>2, <1>3 DEF Drift
  <1>5. /\ \A u \in Threads : u # t => pc'[u] = pc[u] /\ local'[u] = local[u]
        /\ pc'[t] = to /\ (to # "idle" => local'[t] = l)
    BY DEF Step, Types
  <1>6. \A u \in Threads : pc'[u] = "store size" =>
           \/ pc[u] = "store size" /\ local'[u].n = local[u].n
           \/ local'[u].n = qSize
    BY <1>5
  <1>7. Drift \in Int
    BY DriftType
  <1> QED
    BY <1>2, <1>3, <1>4, <1>6, <1>7, SizesKept

LEMMA SizesLinked ==
  ASSUME Sizes, Types, Types', NEW m, NEW L, Inv(L, m), NEW p \in Producers,
         Linked(p, L, m)
  PROVE  Sizes'
  <1>1. /\ p \in Threads /\ p \notin Consumers /\ Producers \subseteq Threads
        /\ Consumers \subseteq Threads
        /\ IsFiniteSet(At(Producers, PushPlaces))
        /\ IsFiniteSet(At(Consumers, PopPlaces))
    BY ThreadsAssumption DEF Threads, Sizes
  <1>2. Step(p, "link", "swing", local[p]) /\ UNCHANGED << qSize, spoiled >>
    BY DEF Linked, Link, LinkWins, size
  <1>3. Len(Contents) = m - 1 /\ m \in Nat \ {0}
    BY ContentsLength
  <1>4. Len(Contents') = m
    <2>1. PICK M : M = Longer(L, m, local[p].node)
      OBVIOUS
    <2>2. Inv(M, m + 1)'
      BY <2>1 DEF Linked
    <2>3. Len(Contents') = (m + 1) - 1
      BY <2>2, ContentsSeqNext DEF ContentsAre
    <2> QED
      BY <1>3, <2>3
  <1>5. /\ IsFiniteSet(At(Producers, PushPlaces))'
        /\ Uncounted(Producers, PushPlaces)' = Uncounted(Producers, PushPlaces) + 1
    <2>1. "link" \notin PushPlaces /\ "swing" \in PushPlaces
      BY DEF PushPlaces
    <2> QED
      BY <1>1, <1>2, <2>1, UncountedStep
  <1>6. /\ IsFiniteSet(At(Consumers, PopPlaces))'
        /\ Uncounted(Consumers, PopPlaces)' = Uncounted(Consumers, PopPlaces)
    BY <1>1, <1>2, UncountedStep
  <1>7. /\ Drift \in Int /\ qSize \in Int
        /\ Uncounted(Producers, PushPlaces) \in Nat
        /\ Uncounted(Consumers, PopPlaces) \in Nat
    BY <1>3, DriftType
  <1>8. Drift' = Drift
    <2> DEFINE a == Uncounted(Producers, PushPlaces)
               b == Uncounted(Consumers, PopPlaces)
    <2>1. /\ Drift = qSize - (m - 1) + a - b
          /\ Drift' = qSize - m + (a + 1) - b
      BY <1>2, <1>3, <1>4, <1>5, <1>6 DEF Drift
    <2>2. a \in Nat /\ b \in Nat
      BY <1>7
    <2> HIDE DEF a, b
    <2> QED
      BY <1>3, <1>7, <2>1, <2>2
  <1>9. \A u \in Threads : pc'[u] = "store size" =>
           \/ pc[u] = "store size" /\ local'[u].n = local[u].n
           \/ local'[u].n = qSize
    BY <1>1, <1>2 DEF Step, Types
  <1> QED
    BY <1>2, <1>5, <1>6, <1>7, <1>8, <1>9, SizesKept

LEMMA SizesUnlinked ==
  ASSUME Sizes, Types, Types', NEW m, NEW L, Inv(L, m), NEW c \in Consumers,
         Unlinked(c, L, m)
  PROVE  Sizes'
  <1>1. /\ c \in Threads /\ c \notin Producers /\ Producers \subseteq Threads
        /\ Consumers \subseteq Threads
        /\ IsFiniteSet(At(Producers, PushPlaces))
        /\ IsFiniteSet(At(Consumers, PopPlaces))
    BY ThreadsAssumption DEF Threads, Sizes
  <1>2. Step(c, "unlink", "free", local[c]) /\ UNCHANGED << qSize, spoiled >>
    BY DEF Unlinked, Unlink, UnlinkWins, size
  <1>3. Len(Contents) = m - 1 /\ m \in Nat \ {0}
    BY ContentsLength
  <1>4. Len(Contents') = (m - 1) - 1
    <2>1. PICK M : M = Shorter(L, m)
      OBVIOUS
    <2>2. Inv(M, m - 1)'
      BY <2>1 DEF Unlinked
    <2> QED
      BY <2>2, ContentsSeqNext DEF ContentsAre
  <1>5. /\ IsFiniteSet(At(Producers, PushPlaces))'
        /\ Uncounted(Producers, PushPlaces)' = Uncounted(Producers, PushPlaces)
    BY <1>1, <1>2, UncountedStep
  <1>6. /\ IsFiniteSet(At(Consumers, PopPlaces))'
        /\ Uncounted(Consumers, PopPlaces)' = Uncounted(Consumers, PopPlaces) + 1
    <2>1. "unlink" \notin PopPlaces /\ "free" \in PopPlaces
      BY DEF PopPlaces
    <2> QED
      BY <1>1, <1>2, <2>1, UncountedStep
  <1>7. /\ Drift \in Int /\ qSize \in Int
        /\ Uncounted(Producers, PushPlaces) \in Nat
        /\ Uncounted(Consumers, PopPlaces) \in Nat
    BY <1>3, DriftType
  <1>8. Drift' = Drift
    <2> DEFINE a == Uncounted(Producers, PushPlaces)
               b == Uncounted(Consumers, PopPlaces)
    <2>1. /\ Drift = qSize - (m - 1) + a - b
          /\ Drift' = qSize - ((m - 1) - 1) + a - (b + 1)
      BY <1>2, <1>3, <1>4, <1>5, <1>6 DEF Drift
    <2>2. a \in Nat /\ b \in Nat
      BY <1>7
    <2> HIDE DEF a, b
    <2> QED
      BY <1>3, <1>7, <2>1, <2>2
  <1>9. \A u \in Threads : pc'[u] = "store size" =>
           \/ pc[u] = "store size" /\ local'[u].n = local[u].n
           \/ local'[u].n = qSize
    BY <1>1, <1>2 DEF Step, Types
  <1> QED
    BY <1>2, <1>5, <1>6, <1>7, <1>8, <1>9, SizesKept

(***************************************************************************)
(* A store makes the counter as wrong as what it stores, and what others   *)
(* are about to store one more wrong: then a store will have been lost.    *)
(***************************************************************************)
LEMMA StoreArithmetic ==
  ASSUME NEW q \in Int, NEW x \in Int, NEW d \in Int,
         NEW by \in Int, by = 1 \/ by = -1,
         NEW s \in Nat, NEW r \in Nat, r = s \/ r = s + 1,
         - s <= d + (x - q), d + (x - q) <= s,
         NEW e, e = d + (x - q)
  PROVE  /\ - r <= e /\ e <= r
         /\ \A y \in Int :
              - s <= d + (y - q) /\ d + (y - q) <= s /\ r = s + 1 =>
                - r <= e + (y - (x + by)) /\ e + (y - (x + by)) <= r
  OBVIOUS

LEMMA SizesStored ==
  ASSUME Sizes, Types, Types', Len(Contents) \in Nat, Contents' = Contents,
         NEW t \in Threads, NEW to, to = "idle" \/ to = "load head",
         NEW by \in Int, by = (IF t \in Producers THEN 1 ELSE -1),
         StoreSize(t, to, by)
  PROVE  Sizes'
  <1> DEFINE a == Uncounted(Producers, PushPlaces)
             b == Uncounted(Consumers, PopPlaces)
             q == qSize
             x == local[t].n
             s == spoiled
             r == spoiled'
             n == Len(Contents)
             from == "store size"
  <1>1. /\ IsFiniteSet(At(Producers, PushPlaces))
        /\ IsFiniteSet(At(Consumers, PopPlaces))
        /\ Producers \in SUBSET Threads /\ Consumers \in SUBSET Threads
        /\ t \in Producers \/ t \in Consumers
        /\ ~ (t \in Producers /\ t \in Consumers)
    BY ThreadsAssumption DEF Sizes, Threads
  <1>2. Step(t, from, to, Locals) /\ to # "store size"
    BY DEF StoreSize
  <1>3. pc[t] = from /\ pc'[t] = to
        /\ \A u \in Threads : u # t => pc'[u] = pc[u] /\ local'[u] = local[u]
    BY <1>2, StepOf
  <1>4. /\ qSize' = x + by /\ x \in Int /\ s \in Nat /\ r \in Nat
        /\ r = s \/ r = s + 1
        /\ (\E u \in Threads \ {t} : pc[u] = "store size") => r = s + 1
    <2>1. to \in Pcs
      BY DEF Pcs
    <2> QED
      BY <2>1, StoredSize DEF Types
  <1>5. from \in PushPlaces /\ from \in PopPlaces
        /\ to \notin PushPlaces /\ to \notin PopPlaces
    BY DEF PushPlaces, PopPlaces
  <1> HIDE DEF from
  <1>6. /\ IsFiniteSet(At(Producers, PushPlaces))'
        /\ t \in Producers => Uncounted(Producers, PushPlaces)' = a - 1
        /\ t \notin Producers => Uncounted(Producers, PushPlaces)' = a
    <2>1. /\ Types /\ t \in Threads /\ Step(t, from, to, Locals)
          /\ Producers \in SUBSET Threads /\ IsFiniteSet(At(Producers, PushPlaces))
      BY <1>1, <1>2
    <2>2. t \in Producers => Uncounted(Producers, PushPlaces)' = a - 1
      BY ONLY <1>5, <2>1, UncountedStep
    <2>3. t \notin Producers => Uncounted(Producers, PushPlaces)' = a
      BY ONLY <2>1, UncountedStep
    <2>4. IsFiniteSet(At(Producers, PushPlaces))'
      BY ONLY <2>1, UncountedStep
    <2> QED
      BY <2>2, <2>3, <2>4
  <1>7. /\ IsFiniteSet(At(Consumers, PopPlaces))'
        /\ t \in Consumers => Uncounted(Consumers, PopPlaces)' = b - 1
        /\ t \notin Consumers => Uncounted(Consumers, PopPlaces)' = b
    <2>1. /\ Types /\ t \in Threads /\ Step(t, from, to, Locals)
          /\ Consumers \in SUBSET Threads /\ IsFiniteSet(At(Consumers, PopPlaces))
      BY <1>1, <1>2
    <2>2. t \in Consumers => Uncounted(Consumers, PopPlaces)' = b - 1
      BY ONLY <1>5, <2>1, UncountedStep
    <2>3. t \notin Consumers => Uncounted(Consumers, PopPlaces)' = b
      BY ONLY <2>1, UncountedStep
    <2>4. IsFiniteSet(At(Consumers, PopPlaces))'
      BY ONLY <2>1, UncountedStep
    <2> QED
      BY <2>2, <2>3, <2>4
  <1>8. /\ Drift \in Int /\ q \in Int /\ a \in Nat /\ b \in Nat /\ n \in Nat
        /\ Drift = q - n + a - b
    BY DriftType DEF Drift
  <1>9. Drift' = qSize' - n + Uncounted(Producers, PushPlaces)'
                            - Uncounted(Consumers, PopPlaces)'
    BY DEF Drift
  <1> HIDE DEF a, b, q, x, s, r, n
  <1>10. Drift' = Drift + (x - q)
    <2>1. CASE t \in Producers
      <3>1. Drift' = (x + 1) - n + (a - 1) - b
        BY <1>1, <1>4, <1>6, <1>7, <1>9, <2>1
      <3>2. x \in Int
        BY <1>4
      <3> QED
        BY ONLY <1>8, <3>1, <3>2
    <2>2. CASE t \notin Producers
      <3>1. Drift' = (x + (-1)) - n + a - (b - 1)
        BY <1>1, <1>4, <1>6, <1>7, <1>9, <2>2
      <3>2. x \in Int
        BY <1>4
      <3> QED
        BY ONLY <1>8, <3>1, <3>2
    <2> QED
      BY <2>1, <2>2
  <1>11. - s <= Drift + (x - q) /\ Drift + (x - q) <= s
    BY <1>3 DEF Sizes, s, x, q, from
  <1>12. /\ - r <= Drift' /\ Drift' <= r
         /\ \A y \in Int :
              - s <= Drift + (y - q) /\ Drift + (y - q) <= s /\ r = s + 1 =>
                - r <= Drift' + (y - (x + by)) /\ Drift' + (y - (x + by)) <= r
    <2> DEFINE d == Drift
               e == Drift'
    <2>1. /\ by \in Int /\ (by = 1 \/ by = -1) /\ q \in Int /\ x \in Int /\ d \in Int
          /\ s \in Nat /\ r \in Nat
      BY <1>4, <1>8
    <2>2. r = s \/ r = s + 1
      BY <1>4
    <2>3. e = d + (x - q) /\ - s <= d + (x - q) /\ d + (x - q) <= s
      BY <1>10, <1>11
    <2> HIDE DEF d, e
    <2>4. /\ - r <= e /\ e <= r
          /\ \A y \in Int :
               - s <= d + (y - q) /\ d + (y - q) <= s /\ r = s + 1 =>
                 - r <= e + (y - (x + by)) /\ e + (y - (x + by)) <= r
      BY ONLY <2>1, <2>2, <2>3, StoreArithmetic
    <2> QED
      BY <2>4 DEF d, e
  <1>13. ASSUME NEW u \in Threads, pc'[u] = "store size"
         PROVE  LET after == Drift' + (local'[u].n - qSize')
                IN  - spoiled' <= after /\ after <= spoiled'
    <2> DEFINE y == local[u].n
    <2>1. u # t /\ pc[u] = "store size" /\ local'[u].n = y
      BY <1>2, <1>3, <1>13
    <2>2. r = s + 1
      BY <1>4, <2>1
    <2>3. y \in Int
      BY LocalFields DEF Types
    <2>4. - s <= Drift + (y - q) /\ Drift + (y - q) <= s
      BY <2>1 DEF Sizes, s, q
    <2> HIDE DEF y
    <2>5. - r <= Drift' + (y - (x + by)) /\ Drift' + (y - (x + by)) <= r
      BY <1>12, <2>2, <2>3, <2>4
    <2> QED
      BY <1>4, <2>1, <2>5 DEF r
  <1> QED
    BY <1>6, <1>7, <1>12, <1>13 DEF Sizes, r

LEMMA SizesNext ==
  ASSUME NEW m, NEW L, Inv(L, m), Types', Sizes, Next
  PROVE  Sizes'
  <1>1. Types /\ Len(Contents) \in Nat
    <2>1. Len(Contents) = m - 1 /\ m \in Nat \ {0}
      BY ContentsLength
    <2> QED
      BY <2>1 DEF Inv
  <1>2. ASSUME NEW p \in Producers, Linked(p, L, m) PROVE Sizes'
    BY <1>1, <1>2, SizesLinked
  <1>3. ASSUME NEW c \in Consumers, Unlinked(c, L, m) PROVE Sizes'
    BY <1>1, <1>3, SizesUnlinked
  <1>4. ASSUME Kept(L, m),
               \A p \in Producers : ~ (Link(p) /\ LinkWins(p)),
               \A c \in Consumers : ~ (Unlink(c) /\ UnlinkWins(c))
        PROVE  Sizes'
    <2>1. Contents' = Contents
      BY <1>4, KeptContents
    <2>2. ASSUME NEW p \in Producers, Construct(p) \/ PushStep(p) PROVE Sizes'
      <3>1. p \in Threads /\ p \notin Consumers
        BY ThreadsAssumption DEF Threads
      <3>2. CASE PushCount(p)
        <4>1. StoreSize(p, "idle", 1)
          BY <3>2 DEF PushCount
        <4>2. 1 \in Int
          BY PlusMinusOne
        <4> QED
          BY <1>1, <2>1, <3>1, <4>1, <4>2, SizesStored
      <3>3. CASE LoadSize(p)
        <4> DEFINE l == [local[p] EXCEPT !.n = qSize]
        <4>1. /\ Step(p, "load size", "store size", l)
              /\ UNCHANGED << qSize, spoiled >>
          BY <3>3 DEF LoadSize, size
        <4>2. l.n = qSize
          BY <1>1, <3>1 DEF Types, Local
        <4> HIDE DEF l
        <4>3. "load size" \in PushPlaces /\ "store size" \in PushPlaces
          BY DEF PushPlaces
        <4> QED
          BY <1>1, <2>1, <3>1, <4>1, <4>2, <4>3, SizesQuiet
      <3>4. CASE Swing(p)
        <4>1. /\ Step(p, "swing", "load size", local[p])
              /\ UNCHANGED << qSize, spoiled >>
          BY <3>4 DEF Swing, SwingTail, size
        <4>2. "swing" \in PushPlaces /\ "load size" \in PushPlaces
          BY DEF PushPlaces
        <4> QED
          BY <1>1, <2>1, <3>1, <4>1, <4>2, SizesQuiet
      <3>5. CASE \/ Construct(p) \/ LoadTail(p) \/ LoadNext(p) \/ CheckTail(p)
                 \/ Link(p) \/ HelpPush(p)
        <4>1. PICK from \in {"idle", "load tail", "load next", "check", "link",
                             "help"},
                   to \in {"load tail", "load next", "check", "link", "help"} :
                     \E l : Step(p, from, to, l)
          BY <1>4, <3>5 DEF Construct, LoadTail, LoadNext, CheckTail, Link,
                            LinkWins, HelpPush, SwingTail
        <4>2. UNCHANGED << qSize, spoiled >>
          BY <3>5 DEF Construct, LoadTail, LoadNext, CheckTail, Link, HelpPush,
                      SwingTail, size
        <4>3. from \notin PushPlaces /\ to \notin PushPlaces /\ to # "store size"
          BY DEF PushPlaces
        <4> QED
          BY <1>1, <2>1, <3>1, <4>1, <4>2, <4>3, SizesQuiet
      <3> QED
        BY <2>2, <3>2, <3>3, <3>4, <3>5 DEF PushStep
    <2>3. ASSUME NEW c \in Consumers, EmptyLoad(c) \/ PopStep(c) PROVE Sizes'
      <3>1. c \in Threads /\ c \notin Producers
        BY ThreadsAssumption DEF Threads
      <3>2. CASE PopCount(c)
        <4>1. PICK to \in {"idle", "load head"} : StoreSize(c, to, -1)
          BY <3>2 DEF PopCount, BurstGoesOn
        <4>2. -1 \in Int
          BY PlusMinusOne
        <4> QED
          BY <1>1, <2>1, <3>1, <4>1, <4>2, SizesStored
      <3>3. CASE LoadSize(c)
        <4> DEFINE l == [local[c] EXCEPT !.n = qSize]
        <4>1. /\ Step(c, "load size", "store size", l)
              /\ UNCHANGED << qSize, spoiled >>
          BY <3>3 DEF LoadSize, size
        <4>2. l.n = qSize
          BY <1>1, <3>1 DEF Types, Local
        <4> HIDE DEF l
        <4>3. "load size" \in PopPlaces /\ "store size" \in PopPlaces
          BY DEF PopPlaces
        <4> QED
          BY <1>1, <2>1, <3>1, <4>1, <4>2, <4>3, SizesQuiet
      <3>4. CASE Free(c)
        <4>1. /\ Step(c, "free", "load size", local[c])
              /\ UNCHANGED << qSize, spoiled >>
          BY <3>4 DEF Free, size
        <4>2. "free" \in PopPlaces /\ "load size" \in PopPlaces
          BY DEF PopPlaces
        <4> QED
          BY <1>1, <2>1, <3>1, <4>1, <4>2, SizesQuiet
      <3>5. CASE \/ EmptyLoad(c) \/ EmptyAnswer(c) \/ LoadHead(c)
                 \/ LoadTail(c) \/ LoadNext(c) \/ SeeEmpty(c) \/ SeeLag(c)
                 \/ CopyPacket(c) \/ HelpPop(c) \/ Unlink(c)
        <4>1. PICK from \in {"idle", "ask", "load head", "load tail",
                             "load next", "check", "help", "unlink"},
                   to \in {"ask", "idle", "load head", "load tail", "load next",
                           "check", "help", "unlink"} :
                     \E l : Step(c, from, to, l)
          BY <1>4, <3>5 DEF EmptyLoad, EmptyAnswer, LoadHead, LoadTail, LoadNext,
                            SeeEmpty, SeeLag, CopyPacket, HelpPop, SwingTail,
                            Unlink, UnlinkWins
        <4>2. UNCHANGED << qSize, spoiled >>
          BY <3>5 DEF EmptyLoad, EmptyAnswer, LoadHead, LoadTail, LoadNext,
                      SeeEmpty, SeeLag, CopyPacket, HelpPop, SwingTail, Unlink,
                      size
        <4>3. from \notin PopPlaces /\ to \notin PopPlaces /\ to # "store size"
          BY DEF PopPlaces
        <4> QED
          BY <1>1, <2>1, <3>1, <4>1, <4>2, <4>3, SizesQuiet
      <3> QED
        BY <2>3, <3>2, <3>3, <3>4, <3>5 DEF PopStep
    <2> QED
      BY <2>2, <2>3 DEF Next
  <1> QED
    BY <1>2, <1>3, <1>4, InvNext

LEMMA SizesStep == Ind /\ Ind' /\ Sizes /\ [Next]_vars => Sizes'
  <1> SUFFICES ASSUME Ind, Ind', Sizes, [Next]_vars PROVE Sizes'
    OBVIOUS
  <1>1. PICK m \in Nat \ {0} : \E L \in [1 .. m -> Node] : Inv(L, m)
    BY DEF Ind
  <1>2. PICK L \in [1 .. m -> Node] : Inv(L, m)
    BY <1>1
  <1>3. Types'
    BY DEF Ind, Inv
  <1>4. CASE Next
    BY <1>2, <1>3, <1>4, SizesNext
  <1>5. CASE UNCHANGED vars
    <2>1. UNCHANGED << qSize, spoiled, pc, local >>
      BY <1>5 DEF vars, size
    <2>2. Contents' = Contents
      BY <1>2, <1>5, InvStutter, KeptContents
    <2>3. Drift' = Drift /\ At(Producers, PushPlaces)' = At(Producers, PushPlaces)
          /\ At(Consumers, PopPlaces)' = At(Consumers, PopPlaces)
      BY <2>1, <2>2 DEF Drift, At, Uncounted
    <2> QED
      BY <2>1, <2>3 DEF Sizes
  <1> QED
    BY <1>4, <1>5

LEMMA InitSizes == Init => Sizes
  <1> SUFFICES ASSUME Init PROVE Sizes
    OBVIOUS
  <1>1. PICK m \in Nat \ {0} : \E L \in [1 .. m -> Node] : Inv(L, m)
    BY InitInd DEF Ind
  <1>2. PICK L \in [1 .. m -> Node] : Inv(L, m)
    BY <1>1
  <1>3. At(Producers, PushPlaces) = {} /\ At(Consumers, PopPlaces) = {}
    BY DEF Init, At, PushPlaces, PopPlaces, Threads
  <1>4. Uncounted(Producers, PushPlaces) = 0 /\ Uncounted(Consumers, PopPlaces) = 0
    BY <1>3, FS_EmptySet DEF Uncounted, At
  <1>5. Len(Contents) = 0
    BY <1>2, InitEmpty, ContentsLength
  <1>6. Drift = 0 /\ spoiled = 0
    BY <1>4, <1>5 DEF Init, Drift
  <1>7. \A t \in Threads : pc[t] # "store size"
    BY DEF Init
  <1>8. - spoiled <= Drift /\ Drift <= spoiled
    BY ONLY <1>6
  <1> QED
    BY <1>3, <1>7, <1>8, FS_EmptySet DEF Sizes

(***************************************************************************)
(* qSize, which is the queue depth that logQDepth records, is the length of*)
(* the queue but for the calls that have not counted yet and the stores    *)
(* that are lost because ++qSize and --qSize are not atomic.               *)
(***************************************************************************)
THEOREM SizeDriftHolds == Spec => []SizeDrift
  <1>1. Spec => []Sizes
    BY InitSizes, SizesStep, IndHolds, PTL DEF Spec
  <1>2. Ind /\ Sizes => SizeDrift
    <2> SUFFICES ASSUME Ind, Sizes PROVE SizeDrift
      OBVIOUS
    <2>1. Len(Contents) \in Nat /\ Types
      BY ContentsCount DEF ContentsCounted, Ind, Inv
    <2>2. Drift \in Int /\ spoiled \in Nat
      BY <2>1, DriftType DEF Types
    <2>3. - spoiled <= Drift /\ Drift <= spoiled
      BY DEF Sizes
    <2>4. Drift \in (- spoiled) .. spoiled
      BY ONLY <2>2, <2>3
    <2> QED
      BY <2>4 DEF SizeDrift, Drift, PushPlaces, PopPlaces
  <1> QED
    BY <1>1, <1>2, IndHolds, PTL
=============================================================================
