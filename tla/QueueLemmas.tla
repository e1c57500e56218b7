------------------------------ MODULE QueueLemmas ------------------------------
(***************************************************************************)
(* Lemmas about the operators of LinkedQueue and AllocQueue: their types,  *)
(* for any record of the type, and the effect of a push, a pop, a removal, *)
(* and a sorted push at an end of the queue on lists and queues of any     *)
(* length.                                                                 *)
(***************************************************************************)
EXTENDS QueueShapes, SeqLemmas

-----------------------------------------------------------------------------
(* Types. *)

\* What a list's type says of its fields, and back.
LEMMA ListFields ==
    ASSUME NEW Node, NEW l \in ListType(Node, Int)
    PROVE  /\ l.head \in Node \cup {NULL}
           /\ l.tail \in Node \cup {NULL}
           /\ l.size \in Int
           /\ l.next \in [Node -> Node \cup {NULL}]
           /\ l.prev \in [Node -> Node \cup {NULL}]
BY DEF ListType

LEMMA ListIntro ==
    ASSUME NEW Node, NEW h \in Node \cup {NULL}, NEW t \in Node \cup {NULL},
           NEW s \in Int,
           NEW nx \in [Node -> Node \cup {NULL}],
           NEW pv \in [Node -> Node \cup {NULL}]
    PROVE  [head |-> h, tail |-> t, size |-> s, next |-> nx, prev |-> pv]
              \in ListType(Node, Int)
BY DEF ListType

\* An assignment to a link keeps the links within the array.
LEMMA AssignType ==
    ASSUME NEW Node, NEW f \in [Node -> Node \cup {NULL}],
           NEW m, NEW v \in Node \cup {NULL}
    PROVE  /\ Assign(f, m, v) \in [Node -> Node \cup {NULL}]
           /\ [f EXCEPT ![m] = v] \in [Node -> Node \cup {NULL}]
BY DEF Assign

\* A node found by the scan of a sorted push is a node of the list's array.
LEMMA SuccessorType ==
    ASSUME NEW Node, NEW l \in ListType(Node, Int), NEW Stops
    PROVE  Successor(l, Stops) \in Node \cup {NULL}
BY ListFields DEF Successor, Visited

\* push_node of the sorted queue keeps the links within the array.
LEMMA SortedPushNodeType ==
    ASSUME NEW Node, NEW l \in ListType(Node, Int),
           NEW n \in Node, NEW Stops
    PROVE  SortedPushNode(l, n, Stops) \in ListType(Node, Int)
<1>1. /\ l.head \in Node \cup {NULL}
      /\ l.tail \in Node \cup {NULL}
      /\ l.size + 1 \in Int
      /\ l.next \in [Node -> Node \cup {NULL}]
      /\ l.prev \in [Node -> Node \cup {NULL}]
    BY ListFields
<1>2. PushFirst(l, n) \in ListType(Node, Int)
  <2>1. /\ [l.next EXCEPT ![n] = NULL] \in [Node -> Node \cup {NULL}]
        /\ [l.prev EXCEPT ![n] = NULL] \in [Node -> Node \cup {NULL}]
      BY <1>1, AssignType
  <2>2. n \in Node \cup {NULL} /\ 1 \in Int
      OBVIOUS
  <2>3. QED
      BY <2>1, <2>2, ListIntro DEF PushFirst
<1>3. PushTail(l, n) \in ListType(Node, Int)
  <2>1. [l.next EXCEPT ![n] = NULL] \in [Node -> Node \cup {NULL}]
      BY <1>1, AssignType
  <2>2. Assign([l.next EXCEPT ![n] = NULL], l.tail, n)
            \in [Node -> Node \cup {NULL}]
      BY <2>1, AssignType
  <2>3. [l.prev EXCEPT ![n] = l.tail] \in [Node -> Node \cup {NULL}]
      BY <1>1, AssignType
  <2>4. QED
      BY <1>1, <2>2, <2>3, ListIntro DEF PushTail
<1>4. ASSUME NEW it \in Node
      PROVE  PushBefore(l, n, it) \in ListType(Node, Int)
  <2>1. l.prev[it] \in Node \cup {NULL}
      BY <1>1
  <2>2. [l.prev EXCEPT ![n] = l.prev[it]] \in [Node -> Node \cup {NULL}]
      BY <1>1, <2>1, AssignType
  <2>3. Assign([l.prev EXCEPT ![n] = l.prev[it]], it, n)
            \in [Node -> Node \cup {NULL}]
      BY <2>2, AssignType
  <2>4. [l.next EXCEPT ![n] = it] \in [Node -> Node \cup {NULL}]
      BY <1>1, AssignType
  <2>5. CASE it = l.head
      BY <1>1, <2>3, <2>4, <2>5 DEF PushBefore, ListType
  <2>6. CASE it # l.head
      BY <1>1, <2>3, <2>4, <2>6 DEF PushBefore, ListType
  <2>7. QED
      BY <2>5, <2>6
<1>5. QED
    BY <1>2, <1>3, <1>4, SuccessorType DEF SortedPushNode

\* push_node of the FIFO queue keeps the links within the array.
LEMMA PushNodeType ==
    ASSUME NEW Node, NULL \notin Node, NEW l \in ListType(Node, Int),
           NEW n \in Node
    PROVE  PushNode(l, n) \in ListType(Node, Int)
<1>1. /\ l.head \in Node \cup {NULL}
      /\ l.tail \in Node \cup {NULL}
      /\ l.size + 1 \in Int
      /\ l.next \in [Node -> Node \cup {NULL}]
      /\ l.prev \in [Node -> Node \cup {NULL}]
      /\ n \in Node \cup {NULL} /\ 1 \in Int
    BY ListFields
<1>2. /\ [l.next EXCEPT ![n] = l.head] \in [Node -> Node \cup {NULL}]
      /\ [l.next EXCEPT ![n] = NULL] \in [Node -> Node \cup {NULL}]
      /\ [l.prev EXCEPT ![n] = NULL] \in [Node -> Node \cup {NULL}]
    BY <1>1, AssignType
<1>3. [Assign(l.prev, l.head, n) EXCEPT ![n] = NULL]
          \in [Node -> Node \cup {NULL}]
  <2>1. Assign(l.prev, l.head, n) \in [Node -> Node \cup {NULL}]
      BY <1>1, AssignType
  <2>2. QED
      BY <1>1, <2>1, AssignType
<1>4. PushFirst(l, n) \in ListType(Node, Int)
    BY <1>1, <1>2, ListIntro DEF PushFirst
<1>5. QED
    BY <1>1, <1>2, <1>3, <1>4, ListIntro DEF PushNode

\* pop_node keeps the links within the array.
LEMMA PopNodeType ==
    ASSUME NEW Node, NULL \notin Node, NEW l \in ListType(Node, Int)
    PROVE  PopNode(l) \in ListType(Node, Int)
<1>1. /\ l.head \in Node \cup {NULL}
      /\ l.tail \in Node \cup {NULL}
      /\ l.size - 1 \in Int
      /\ l.next \in [Node -> Node \cup {NULL}]
      /\ l.prev \in [Node -> Node \cup {NULL}]
    BY ListFields
<1>2. CASE l.tail # NULL
  <2>1. l.prev[l.tail] \in Node \cup {NULL}
      BY <1>1, <1>2
  <2>2. Assign(l.next, l.prev[l.tail], NULL) \in [Node -> Node \cup {NULL}]
      BY <1>1, AssignType
  <2>3. (IF l.prev[l.tail] = NULL THEN NULL ELSE l.head) \in Node \cup {NULL}
      BY <1>1
  <2>4. QED
      BY <1>1, <1>2, <2>1, <2>2, <2>3, ListIntro DEF PopNode
<1>3. QED
    BY <1>2 DEF PopNode

\* remove_node keeps the links within the array.
LEMMA RemoveNodeType ==
    ASSUME NEW Node, NULL \notin Node, NEW l \in ListType(Node, Int),
           NEW n \in Node
    PROVE  RemoveNode(l, n) \in ListType(Node, Int)
<1>1. /\ l.head \in Node \cup {NULL}
      /\ l.tail \in Node \cup {NULL}
      /\ l.size - 1 \in Int
      /\ l.next \in [Node -> Node \cup {NULL}]
      /\ l.prev \in [Node -> Node \cup {NULL}]
      /\ l.next[n] \in Node \cup {NULL}
      /\ l.prev[n] \in Node \cup {NULL}
    BY ListFields
<1>2. RemoveHead(l, n) \in ListType(Node, Int)
  <2>1. Assign(l.prev, l.next[n], NULL) \in [Node -> Node \cup {NULL}]
      BY <1>1, AssignType
  <2>2. (IF l.next[n] = NULL THEN NULL ELSE l.tail) \in Node \cup {NULL}
      BY <1>1
  <2>3. QED
      BY <1>1, <2>1, <2>2, ListIntro DEF RemoveHead
<1>3. RemoveTail(l, n) \in ListType(Node, Int)
  <2>1. Assign(l.next, l.prev[n], NULL) \in [Node -> Node \cup {NULL}]
      BY <1>1, AssignType
  <2>2. QED
      BY <1>1, <2>1, ListIntro DEF RemoveTail
<1>4. RemoveMiddle(l, n) \in ListType(Node, Int)
  <2>1. Assign(l.next, l.prev[n], l.next[n]) \in [Node -> Node \cup {NULL}]
      BY <1>1, AssignType
  <2>2. Assign(l.prev, l.next[n], l.prev[n]) \in [Node -> Node \cup {NULL}]
      BY <1>1, AssignType
  <2>3. QED
      BY <1>1, <2>1, <2>2, ListIntro DEF RemoveMiddle
<1>5. QED
    BY <1>2, <1>3, <1>4 DEF RemoveNode

\* What a queue's type says of its fields, and back.
LEMMA QueueFields ==
    ASSUME NEW Size, NEW T, NEW q \in QueueType(Size, T)
    PROVE  /\ q.list \in ListType(1 .. Size, Int)
           /\ q.data \in [1 .. Size -> T]
           /\ q.free \in Seq(1 .. Size)
BY DEF QueueType

LEMMA QueueIntro ==
    ASSUME NEW Size, NEW T,
           NEW l \in ListType(1 .. Size, Int), NEW d \in [1 .. Size -> T],
           NEW f \in Seq(1 .. Size)
    PROVE  [list |-> l, data |-> d, free |-> f] \in QueueType(Size, T)
BY DEF QueueType

\* The node a push takes is a node of the queue, or none.
LEMMA NextNodeType ==
    ASSUME NEW Size, NEW T, NEW q \in QueueType(Size, T)
    PROVE  /\ NextNode(q) \in 1 .. Size \cup {NULL}
           /\ ~PoolEmpty(q) => /\ NextNode(q) \in 1 .. Size
                               /\ Tail(q.free) \in Seq(1 .. Size)
<1>1. q.free \in Seq(1 .. Size)
    BY QueueFields
<1>2. q.free # <<>> => /\ Head(q.free) \in 1 .. Size
                       /\ Tail(q.free) \in Seq(1 .. Size)
    BY <1>1, HeadTailProperties
<1>3. QED
    BY <1>2 DEF NextNode, PoolEmpty

\* The sorted queue's push, the queue's pop and its remove keep its type.
LEMMA SortedPushType ==
    ASSUME NEW Size, NEW T, NEW q \in QueueType(Size, T),
           NEW obj \in T, NEW Sort
    PROVE  SortedPush(q, obj, Sort) \in QueueType(Size, T)
<1>1. CASE PoolEmpty(q)
    BY <1>1 DEF SortedPush
<1>2. CASE ~PoolEmpty(q)
  <2> DEFINE n == NextNode(q)
             stored == [q.data EXCEPT ![n] = obj]
             Stops == {it \in DOMAIN stored : <<stored[it], obj>> \in Sort}
  <2>1. n \in 1 .. Size /\ Tail(q.free) \in Seq(1 .. Size)
      BY <1>2, NextNodeType
  <2>2. stored \in [1 .. Size -> T]
      BY <2>1, QueueFields
  <2>3. SortedPushNode(q.list, n, Stops) \in ListType(1 .. Size, Int)
      BY <2>1, QueueFields, SortedPushNodeType
  <2>4. SortedPush(q, obj, Sort) =
            [list |-> SortedPushNode(q.list, n, Stops),
             data |-> stored, free |-> Tail(q.free)]
      BY <1>2 DEF SortedPush
  <2> HIDE DEF stored, Stops, n
  <2>5. QED
      BY <2>1, <2>2, <2>3, <2>4, QueueIntro
<1>3. QED
    BY <1>1, <1>2

LEMMA FreeNodeType ==
    ASSUME NEW Size, NEW T, NEW q \in QueueType(Size, T), NEW n \in 1 .. Size
    PROVE  FreeNode(q, n) \in Seq(1 .. Size)
<1>1. q.free \in Seq(1 .. Size)
    BY QueueFields
<1>2. Append(q.free, n) \in Seq(1 .. Size)
    BY <1>1
<1>3. QED
    BY <1>1, <1>2 DEF FreeNode

LEMMA PopType ==
    ASSUME NEW Size, NULL \notin 1 .. Size, NEW T, NEW q \in QueueType(Size, T)
    PROVE  Pop(q) \in QueueType(Size, T)
<1>1. CASE Peek(q) # NULL
  <2>1. Peek(q) \in 1 .. Size
      BY <1>1, QueueFields, ListFields DEF Peek
  <2>2. PopNode(q.list) \in ListType(1 .. Size, Int)
      BY QueueFields, PopNodeType
  <2>3. FreeNode(q, Peek(q)) \in Seq(1 .. Size)
      BY <2>1, FreeNodeType
  <2>4. QED
      BY <1>1, <2>2, <2>3, QueueFields, QueueIntro DEF Pop
<1>2. QED
    BY <1>1 DEF Pop

LEMMA RemoveType ==
    ASSUME NEW Size, NULL \notin 1 .. Size, NEW T, NEW q \in QueueType(Size, T),
           NEW n \in 1 .. Size
    PROVE  Remove(q, n) \in QueueType(Size, T)
<1>1. RemoveNode(q.list, n) \in ListType(1 .. Size, Int)
    BY QueueFields, RemoveNodeType
<1>2. FreeNode(q, n) \in Seq(1 .. Size)
    BY FreeNodeType
<1>3. QED
    BY <1>1, <1>2, QueueFields, QueueIntro DEF Remove

\* The empty queue.
LEMMA EmptyQueueType ==
    ASSUME NEW Size \in Nat, NEW T, NEW noData \in T
    PROVE  EmptyQueue(Size, noData) \in QueueType(Size, T)
<1>1. EmptyList(1 .. Size) \in ListType(1 .. Size, Int)
  <2>1. [n \in 1 .. Size |-> NULL] \in [1 .. Size -> 1 .. Size \cup {NULL}]
      OBVIOUS
  <2>2. QED
      BY <2>1, ListIntro DEF EmptyList
<1>2. /\ [n \in 1 .. Size |-> noData] \in [1 .. Size -> T]
      /\ [i \in 1 .. Size |-> i] \in Seq(1 .. Size)
    OBVIOUS
<1>3. QED
    BY <1>1, <1>2, QueueIntro DEF EmptyQueue

-----------------------------------------------------------------------------
(* The pool behind a list. *)

\* From q to r, node n has become live.
Takes(q, r, n) ==
    n \notin LiveNodes(q) /\ LiveNodes(r) = LiveNodes(q) \cup {n}

\* A push takes a node that is not live; the others stay live.
LEMMA SortedPushLive ==
    ASSUME NEW Size, NEW T, NEW q \in QueueType(Size, T), NEW obj \in T,
           NEW Sort, NoDuplicates(q.free), ~PoolEmpty(q)
    PROVE  /\ NextNode(q) \in 1 .. Size
           /\ NoDuplicates(SortedPush(q, obj, Sort).free)
           /\ Takes(q, SortedPush(q, obj, Sort), NextNode(q))
           /\ SortedPush(q, obj, Sort).data
                 = [q.data EXCEPT ![NextNode(q)] = obj]
<1> DEFINE r == SortedPush(q, obj, Sort)
<1>1. /\ q.free \in Seq(1 .. Size)
      /\ q.data \in [1 .. Size -> T]
      /\ q.free # <<>>
      /\ NextNode(q) = Head(q.free)
      /\ r.free = Tail(q.free)
      /\ r.data = [q.data EXCEPT ![NextNode(q)] = obj]
    BY QueueFields DEF PoolEmpty, NextNode, SortedPush
<1>2. NextNode(q) \in 1 .. Size
  <2>1. Head(q.free) \in 1 .. Size
      BY <1>1, HeadTailProperties
  <2>2. QED
      BY <1>1, <2>1
<1>3. DOMAIN q.data = 1 .. Size /\ DOMAIN r.data = 1 .. Size
    BY <1>1
<1>4. \E i \in 1 .. Len(q.free) : q.free[i] = NextNode(q)
  <2>1. q.free[1] = NextNode(q) /\ 1 \in 1 .. Len(q.free)
      BY <1>1, LenProperties, EmptySeq
  <2>2. QED
      BY <2>1
<1>5. /\ NoDuplicates(r.free)
      /\ \A n \in 1 .. Size : (\A i \in 1 .. Len(r.free) : r.free[i] # n)
             <=> n = NextNode(q) \/ (\A i \in 1 .. Len(q.free) : q.free[i] # n)
    BY <1>1, TakeFree
<1> HIDE DEF r
<1>6. Takes(q, r, NextNode(q))
    BY <1>2, <1>3, <1>4, <1>5 DEF LiveNodes, Takes
<1>7. QED
    BY <1>1, <1>2, <1>5, <1>6 DEF r

\* From q to r, node n has been given back.
Gives(q, r, n) == LiveNodes(r) = LiveNodes(q) \ {n}

\* Freeing a live node ends its life and no other.
LEMMA FreeNodeLive ==
    ASSUME NEW Size, NEW T, NEW q \in QueueType(Size, T),
           NoDuplicates(q.free), NEW n \in LiveNodes(q),
           NEW r, r.free = FreeNode(q, n), r.data = q.data
    PROVE  NoDuplicates(r.free) /\ LiveNodes(r) = LiveNodes(q) \ {n}
<1>1. /\ q.free \in Seq(1 .. Size)
      /\ q.data \in [1 .. Size -> T]
    BY QueueFields
<1>2. n \in 1 .. Size /\ \A i \in 1 .. Len(q.free) : q.free[i] # n
    BY <1>1 DEF LiveNodes
<1>3. r.free = Append(q.free, n)
    BY <1>2 DEF FreeNode
<1>4. /\ NoDuplicates(Append(q.free, n))
      /\ \A m \in 1 .. Size :
            (\A i \in 1 .. Len(Append(q.free, n)) : Append(q.free, n)[i] # m)
               <=> m # n /\ (\A i \in 1 .. Len(q.free) : q.free[i] # m)
  <2> DEFINE f == q.free
             Node == 1 .. Size
  <2>1. /\ f \in Seq(Node)
        /\ NoDuplicates(f)
        /\ n \in Node
        /\ \A i \in 1 .. Len(f) : f[i] # n
      BY <1>1, <1>2
  <2> HIDE DEF f, Node
  <2>2. /\ NoDuplicates(Append(f, n))
        /\ \A m \in Node :
              (\A i \in 1 .. Len(Append(f, n)) : Append(f, n)[i] # m)
                 <=> m # n /\ (\A i \in 1 .. Len(f) : f[i] # m)
      BY <2>1, GiveFree
  <2>3. QED
      BY <2>2 DEF f, Node
<1>5. QED
    BY <1>1, <1>3, <1>4 DEF LiveNodes

-----------------------------------------------------------------------------
(* Chains of links. *)

\* Following the links of a sequence finds the sequence.
LEMMA ChainFollows ==
    ASSUME NEW Node, NULL \notin Node, NEW s \in Seq(Node),
           NEW link, NEW start, start = IF s = << >> THEN NULL ELSE s[1],
           \A i \in 1 .. Len(s) :
               link[s[i]] = IF i = Len(s) THEN NULL ELSE s[i + 1],
           NEW k \in Nat, Len(s) <= k
    PROVE  Chain(link, start, k) = s
<1> DEFINE Extend(c) ==
               LET n == IF c = << >> THEN start ELSE link[c[Len(c)]]
               IN  IF n = NULL THEN c ELSE Append(c, n)
           Step(f) == [i \in 0 .. k |-> IF i = 0 THEN << >> ELSE Extend(f[i - 1])]
           upTo(i) == IF i <= Len(s) THEN i ELSE Len(s)
           w == [i \in 0 .. k |-> Prefix(s, upTo(i))]
           chain == CHOOSE f : f = Step(f)
<1>1. Len(s) \in Nat /\ \A i \in 1 .. Len(s) : s[i] \in Node /\ s[i] # NULL
    BY LenProperties, ElementOfSeq
<1>2. ASSUME NEW i \in 1 .. k
      PROVE  Extend(w[i - 1]) = w[i]
  <2> DEFINE m == upTo(i - 1)
  <2>1. /\ m \in 0 .. Len(s) /\ i - 1 \in 0 .. k /\ i \in 0 .. k
        /\ w[i - 1] = Prefix(s, m) /\ w[i] = Prefix(s, upTo(i))
      BY <1>1
  <2>2. Prefix(s, m) \in Seq(Node) /\ Len(Prefix(s, m)) = m
      BY <2>1, PrefixGrows
  <2>3. m = 0 <=> Prefix(s, m) = << >>
      BY <2>1, <2>2, EmptySeq
  <2>4. m # 0 => Prefix(s, m)[m] = s[m] /\ m \in 1 .. Len(s)
      BY <1>1, <2>1 DEF Prefix
  <2>5. (IF Prefix(s, m) = << >> THEN start ELSE link[Prefix(s, m)[m]])
            = IF m = Len(s) THEN NULL ELSE s[m + 1]
    <3>1. CASE m = 0
      <4>1. s = << >> <=> Len(s) = 0
          BY EmptySeq
      <4>2. QED
          BY <1>1, <2>3, <3>1, <4>1
    <3>2. CASE m # 0
        BY <2>3, <2>4, <3>2
    <3>3. QED
        BY <3>1, <3>2
  <2>6. Extend(Prefix(s, m)) = IF m = Len(s) THEN Prefix(s, m)
                               ELSE Append(Prefix(s, m), s[m + 1])
    <3>1. m # Len(s) => m + 1 \in 1 .. Len(s)
        BY <1>1, <2>1
    <3> HIDE DEF m
    <3>2. QED
        BY <1>1, <2>2, <2>5, <3>1
  <2>7. m # Len(s) => m < Len(s) /\ upTo(i) = m + 1
      BY <1>1
  <2>8. m = Len(s) => upTo(i) = m
      BY <1>1
  <2> HIDE DEF m
  <2>9. QED
      BY <2>1, <2>6, <2>7, <2>8, PrefixGrows
<1>3. w = Step(w)
  <2>1. w[0] = << >>
    <3>1. Prefix(s, 0) \in Seq(Node) /\ Len(Prefix(s, 0)) = 0
        BY <1>1, PrefixGrows
    <3>2. 0 <= Len(s) /\ 0 \in 0 .. k
        BY <1>1
    <3>3. QED
        BY <3>1, <3>2, EmptySeq
  <2>2. \A i \in 0 .. k : w[i] = IF i = 0 THEN << >> ELSE Extend(w[i - 1])
    <3> HIDE DEF w, Extend
    <3>1. \A i \in 0 .. k : i = 0 \/ i \in 1 .. k
        OBVIOUS
    <3>2. QED
        BY <1>2, <2>1, <3>1
  <2>3. w = [i \in 0 .. k |-> w[i]]
      OBVIOUS
  <2> HIDE DEF w, Extend
  <2>4. QED
      BY <2>2, <2>3
<1>4. chain = Step(chain)
  <2> HIDE DEF w, Step
  <2>1. QED
      BY <1>3
<1>5. Chain(link, start, k) = chain[k]
    BY DEF Chain
<1>6. chain[k] = w[k]
  <2> DEFINE T == {i \in 0 .. k : chain[i] # w[i]}
  <2> HIDE DEF w, chain, Extend
  <2>1. SUFFICES ASSUME T # {} PROVE FALSE
      BY <1>1
  <2>2. T \subseteq Nat
      OBVIOUS
  <2>3. PICK i \in T : \A j \in T : <<j, i>> \notin OpToRel(<, Nat)
      BY <2>1, <2>2, NatLessThanWellFounded, WFMin, Zenon
  <2>4. \A j \in T : ~(j < i)
      BY <2>2, <2>3 DEF OpToRel
  <2>5. i \in 0 .. k /\ chain[i] # w[i]
      BY <2>3
  <2>6. \A j \in 0 .. k : chain[j] = (IF j = 0 THEN << >> ELSE Extend(chain[j - 1]))
                          /\ w[j] = (IF j = 0 THEN << >> ELSE Extend(w[j - 1]))
      BY <1>3, <1>4
  <2>7. CASE i = 0
      BY <2>5, <2>6, <2>7
  <2>8. CASE i # 0
    <3>1. i - 1 \in 0 .. k /\ i - 1 < i
        BY <2>5, <2>8
    <3>2. chain[i - 1] = w[i - 1]
        BY <2>4, <3>1
    <3>3. QED
        BY <2>5, <2>6, <2>8, <3>2
  <2>9. QED
      BY <2>7, <2>8
<1>7. w[k] = s
  <2>1. w[k] = Prefix(s, Len(s))
      BY <1>1
  <2>2. /\ Prefix(s, Len(s)) \in Seq(Node) /\ Len(Prefix(s, Len(s))) = Len(s)
        /\ \A i \in 1 .. Len(s) : Prefix(s, Len(s))[i] = s[i]
      BY <1>1, PrefixGrows DEF Prefix
  <2>3. QED
      BY <2>1, <2>2, SeqEqual
<1>8. QED
    BY <1>5, <1>6, <1>7

-----------------------------------------------------------------------------
(* Lists of any length. *)

\* The empty list holds the empty sequence.
LEMMA EmptyHolds ==
    ASSUME NEW Node
    PROVE  HoldsList(EmptyList(Node), << >>)
BY DEF HoldsList, EmptyList, NoDuplicates

\* Popping a list yields its sequence, and iterating yields the reverse.
LEMMA HeldOrders ==
    ASSUME NEW Node, NULL \notin Node, NEW l, NEW s \in Seq(Node),
           HoldsList(l, s), NEW k \in Nat, Len(s) <= k
    PROVE  /\ PopOrder(l, k) = s
           /\ IterateOrder(l, k) = [i \in 1 .. Len(s) |-> s[Len(s) - i + 1]]
<1> DEFINE r == [i \in 1 .. Len(s) |-> s[Len(s) - i + 1]]
<1>1. Len(s) \in Nat /\ \A i \in 1 .. Len(s) : s[i] \in Node
    BY LenProperties, ElementOfSeq
<1>2. PopOrder(l, k) = s
  <2>1. /\ l.tail = IF s = << >> THEN NULL ELSE s[1]
        /\ \A i \in 1 .. Len(s) :
              l.prev[s[i]] = IF i = Len(s) THEN NULL ELSE s[i + 1]
      BY DEF HoldsList
  <2>2. QED
      BY <2>1, ChainFollows DEF PopOrder
<1>3. r \in Seq(Node) /\ Len(r) = Len(s)
  <2>1. \A i \in 1 .. Len(s) : s[Len(s) - i + 1] \in Node
      BY <1>1
  <2>2. QED
      BY <1>1, <2>1, IsASeq
<1>4. r = << >> <=> s = << >>
    BY <1>1, <1>3, EmptySeq
<1>5. l.head = IF r = << >> THEN NULL ELSE r[1]
  <2>1. l.head = IF s = << >> THEN NULL ELSE s[Len(s)]
      BY DEF HoldsList
  <2>2. s # << >> => 1 \in 1 .. Len(s) /\ Len(s) - 1 + 1 = Len(s)
      BY <1>1, EmptySeq
  <2>3. QED
      BY <1>4, <2>1, <2>2
<1>6. \A i \in 1 .. Len(r) :
          l.next[r[i]] = IF i = Len(r) THEN NULL ELSE r[i + 1]
  <2> SUFFICES ASSUME NEW i \in 1 .. Len(s)
               PROVE  l.next[r[i]] = IF i = Len(s) THEN NULL ELSE r[i + 1]
      BY <1>3
  <2>1. \A j \in 1 .. Len(s) : l.next[s[j]] = IF j = 1 THEN NULL ELSE s[j - 1]
      BY DEF HoldsList
  <2>2. Len(s) - i + 1 \in 1 .. Len(s) /\ r[i] = s[Len(s) - i + 1]
      BY <1>1
  <2>3. Len(s) - i + 1 = 1 <=> i = Len(s)
      BY <1>1
  <2>4. i # Len(s) => /\ i + 1 \in 1 .. Len(s)
                      /\ Len(s) - i + 1 - 1 = Len(s) - (i + 1) + 1
      BY <1>1
  <2>5. i # Len(s) => r[i + 1] = s[Len(s) - i + 1 - 1]
      BY <2>4
  <2> HIDE DEF r
  <2>6. QED
      BY <2>1, <2>2, <2>3, <2>5
<1>7. IterateOrder(l, k) = r
  <2> HIDE DEF r
  <2>1. QED
      BY <1>3, <1>5, <1>6, ChainFollows DEF IterateOrder
<1>8. QED
    BY <1>2, <1>7

\* A node that is pushed is popped last.
LEMMA PushHolds ==
    ASSUME NEW Node, NULL \notin Node, NEW l \in ListType(Node, Int),
           NEW s \in Seq(Node), HoldsList(l, s),
           NEW n \in Node, \A i \in 1 .. Len(s) : s[i] # n
    PROVE  /\ HoldsList(PushNode(l, n), Append(s, n))
           /\ PushNode(l, n) \in ListType(Node, Int)
<1> DEFINE h == l.head
           r == Append(s, n)
           p == PushNode(l, n)
<1>1. /\ Len(s) \in Nat
      /\ \A i \in 1 .. Len(s) : s[i] \in Node
      /\ s = << >> <=> Len(s) = 0
    BY LenProperties, ElementOfSeq, EmptySeq
<1>2. /\ NoDuplicates(s)
      /\ l.size = Len(s)
      /\ l.tail = IF s = << >> THEN NULL ELSE s[1]
      /\ h = IF s = << >> THEN NULL ELSE s[Len(s)]
      /\ \A i \in 1 .. Len(s) : l.prev[s[i]] = IF i = Len(s) THEN NULL ELSE s[i + 1]
      /\ \A i \in 1 .. Len(s) : l.next[s[i]] = IF i = 1 THEN NULL ELSE s[i - 1]
    BY DEF HoldsList
<1>3. /\ r # << >> /\ Len(r) = Len(s) + 1 /\ r[Len(s) + 1] = n
      /\ \A i \in 1 .. Len(s) : r[i] = s[i]
    BY AppendProperties
<1>4. NoDuplicates(r)
    BY <1>2, GiveFree
<1>5. /\ l.next \in [Node -> Node \cup {NULL}]
      /\ l.prev \in [Node -> Node \cup {NULL}]
      /\ l.size \in Int
      /\ l.tail \in Node \cup {NULL}
    BY ListFields
<1>6. h = NULL <=> s = << >>
    BY <1>1, <1>2
<1>7. /\ p.head = n
      /\ p.tail = IF s = << >> THEN n ELSE s[1]
      /\ p.size = Len(s) + 1
      /\ p.next = [l.next EXCEPT ![n] = IF s = << >> THEN NULL ELSE s[Len(s)]]
      /\ p.prev = IF s = << >> THEN [l.prev EXCEPT ![n] = NULL]
                  ELSE [[l.prev EXCEPT ![s[Len(s)]] = n] EXCEPT ![n] = NULL]
  <2>1. CASE s = << >>
      BY <1>1, <1>6, <2>1 DEF PushNode, PushFirst
  <2>2. CASE s # << >>
      BY <1>1, <1>2, <1>6, <2>2 DEF PushNode, Assign
  <2>3. QED
      BY <2>1, <2>2
<1>8. p \in ListType(Node, Int)
    BY PushNodeType
<1> HIDE DEF p, r
<1>9. ASSUME NEW i \in 1 .. Len(r)
      PROVE  /\ p.prev[r[i]] = IF i = Len(r) THEN NULL ELSE r[i + 1]
             /\ p.next[r[i]] = IF i = 1 THEN NULL ELSE r[i - 1]
  <2>1. CASE i = Len(s) + 1
    <3>1. r[i] = n /\ p.prev[n] = NULL
        BY <1>3, <1>5, <1>7, <2>1
    <3>2. p.next[n] = IF s = << >> THEN NULL ELSE s[Len(s)]
        BY <1>5, <1>7
    <3>3. s # << >> => i # 1 /\ i - 1 = Len(s) /\ r[i - 1] = s[Len(s)]
        BY <1>1, <1>3, <2>1
    <3>4. s = << >> => i = 1
        BY <1>1, <2>1
    <3>5. QED
        BY <1>3, <2>1, <3>1, <3>2, <3>3, <3>4
  <2>2. CASE i # Len(s) + 1
    <3>1. /\ i \in 1 .. Len(s) /\ r[i] = s[i] /\ s[i] \in Node /\ s[i] # n
          /\ i # Len(r) /\ s # << >>
        BY <1>1, <1>3, <2>2
    <3>2. p.next[s[i]] = l.next[s[i]]
        BY <1>5, <1>7, <3>1
    <3>3. i # 1 => i - 1 \in 1 .. Len(s)
        BY <1>1, <3>1
    <3>4. p.next[r[i]] = IF i = 1 THEN NULL ELSE r[i - 1]
        BY <1>2, <1>3, <3>1, <3>2, <3>3
    <3>5. CASE i = Len(s)
      <4>1. p.prev[s[i]] = n
          BY <1>5, <1>7, <3>1, <3>5
      <4>2. r[i + 1] = n
          BY <1>3, <3>5
      <4>3. QED
          BY <3>1, <3>4, <4>1, <4>2
    <3>6. CASE i # Len(s)
      <4>1. Len(s) \in 1 .. Len(s) /\ i + 1 \in 1 .. Len(s)
          BY <1>1, <3>1, <3>6
      <4>2. s[i] # s[Len(s)]
          BY <1>2, <3>1, <3>6, <4>1 DEF NoDuplicates
      <4>3. p.prev[s[i]] = l.prev[s[i]]
          BY <1>5, <1>7, <3>1, <4>2
      <4>4. QED
          BY <1>2, <1>3, <3>1, <3>4, <3>6, <4>1, <4>3
    <3>7. QED
        BY <3>5, <3>6
  <2>3. QED
      BY <2>1, <2>2
<1>10. /\ p.size = Len(r)
       /\ p.tail = IF r = << >> THEN NULL ELSE r[1]
       /\ p.head = IF r = << >> THEN NULL ELSE r[Len(r)]
  <2>1. s # << >> => 1 \in 1 .. Len(s)
      BY <1>1
  <2>2. s = << >> => r[1] = n
      BY <1>1, <1>3
  <2>3. QED
      BY <1>3, <1>7, <2>1, <2>2
<1>11. HoldsList(p, r)
    BY <1>4, <1>9, <1>10 DEF HoldsList
<1>12. QED
    BY <1>8, <1>11 DEF p, r

\* The node that is popped is the first of the sequence.
LEMMA PopHolds ==
    ASSUME NEW Node, NULL \notin Node, NEW l \in ListType(Node, Int),
           NEW s \in Seq(Node), HoldsList(l, s), s # << >>
    PROVE  HoldsList(PopNode(l), Tail(s))
<1> DEFINE r == Tail(s)
           p == PopNode(l)
<1>1. /\ Len(s) \in Nat \ {0}
      /\ \A i \in 1 .. Len(s) : s[i] \in Node
      /\ r \in Seq(Node) /\ Len(r) = Len(s) - 1
      /\ \A i \in 1 .. Len(r) : r[i] = s[i + 1]
    BY LenProperties, ElementOfSeq, EmptySeq, HeadTailProperties
<1>2. /\ NoDuplicates(s)
      /\ l.size = Len(s)
      /\ l.tail = s[1]
      /\ l.head = s[Len(s)]
      /\ \A i \in 1 .. Len(s) : l.prev[s[i]] = IF i = Len(s) THEN NULL ELSE s[i + 1]
      /\ \A i \in 1 .. Len(s) : l.next[s[i]] = IF i = 1 THEN NULL ELSE s[i - 1]
    BY DEF HoldsList
<1>3. NoDuplicates(r)
    BY <1>2, TakeFree
<1>4. r = << >> <=> Len(s) = 1
  <2> HIDE DEF r
  <2>1. r = << >> <=> Len(r) = 0
      BY <1>1, EmptySeq
  <2>2. QED
      BY <1>1, <2>1
<1>5. l.next \in [Node -> Node \cup {NULL}]
    BY ListFields
<1>6. l.tail # NULL /\ l.prev[l.tail] = IF Len(s) = 1 THEN NULL ELSE s[2]
  <2>1. 1 \in 1 .. Len(s) /\ 1 + 1 = 2
      BY <1>1
  <2>2. l.tail = s[1] /\ s[1] \in Node
      BY <1>1, <1>2, <2>1
  <2>3. l.prev[s[1]] = IF 1 = Len(s) THEN NULL ELSE s[1 + 1]
      BY <1>2, <2>1
  <2>4. QED
      BY <2>1, <2>2, <2>3
<1>7. /\ p.head = IF Len(s) = 1 THEN NULL ELSE l.head
      /\ p.tail = IF Len(s) = 1 THEN NULL ELSE s[2]
      /\ p.size = Len(s) - 1
      /\ p.next = IF Len(s) = 1 THEN l.next ELSE [l.next EXCEPT ![s[2]] = NULL]
      /\ p.prev = l.prev
  <2>1. Len(s) # 1 => s[2] \in Node /\ s[2] # NULL
      BY <1>1
  <2>2. QED
      BY <1>2, <1>6, <2>1 DEF PopNode, Assign
<1> HIDE DEF p, r
<1>8. ASSUME NEW i \in 1 .. Len(r)
      PROVE  /\ p.prev[r[i]] = IF i = Len(r) THEN NULL ELSE r[i + 1]
             /\ p.next[r[i]] = IF i = 1 THEN NULL ELSE r[i - 1]
  <2>1. /\ i + 1 \in 1 .. Len(s) /\ r[i] = s[i + 1] /\ s[i + 1] \in Node
        /\ i + 1 # 1 /\ i + 1 - 1 = i /\ Len(s) # 1 /\ 2 \in 1 .. Len(s)
        /\ i = Len(r) <=> i + 1 = Len(s)
      BY <1>1
  <2>2. i # Len(r) => i + 1 \in 1 .. Len(r)
      BY <1>1
  <2>3. p.prev[r[i]] = IF i = Len(r) THEN NULL ELSE r[i + 1]
      BY <1>1, <1>2, <1>7, <2>1, <2>2
  <2>4. CASE i = 1
      BY <1>5, <1>7, <2>1, <2>3, <2>4
  <2>5. CASE i # 1
    <3>1. s[i + 1] # s[2]
        BY <1>2, <2>1, <2>5 DEF NoDuplicates
    <3>2. p.next[s[i + 1]] = s[i]
        BY <1>2, <1>5, <1>7, <2>1, <3>1
    <3>3. i - 1 \in 1 .. Len(r) /\ i - 1 + 1 = i
        BY <1>1, <2>5
    <3>4. QED
        BY <1>1, <2>1, <2>3, <2>5, <3>2, <3>3
  <2>6. QED
      BY <2>4, <2>5
<1>9. /\ p.size = Len(r)
      /\ p.tail = IF r = << >> THEN NULL ELSE r[1]
      /\ p.head = IF r = << >> THEN NULL ELSE r[Len(r)]
  <2>1. Len(s) # 1 => /\ 1 \in 1 .. Len(r) /\ Len(r) \in 1 .. Len(r)
                      /\ Len(r) + 1 = Len(s) /\ 1 + 1 = 2
      BY <1>1
  <2>2. Len(s) # 1 => r[1] = s[2] /\ r[Len(r)] = s[Len(s)]
      BY <1>1, <2>1
  <2>3. QED
      BY <1>1, <1>2, <1>4, <1>7, <2>2
<1>10. HoldsList(p, r)
    BY <1>3, <1>8, <1>9 DEF HoldsList
<1>11. QED
    BY <1>10 DEF p, r

\* A node that is removed is cut out of the sequence, wherever it is.
LEMMA RemoveHolds ==
    ASSUME NEW Node, NULL \notin Node, NEW l \in ListType(Node, Int),
           NEW s \in Seq(Node), HoldsList(l, s), NEW k \in 1 .. Len(s)
    PROVE  HoldsList(RemoveNode(l, s[k]), Without(s, k))
<1> DEFINE m == Len(s)
           r == Without(s, k)
           p == RemoveNode(l, s[k])
           Src(i) == IF i < k THEN i ELSE i + 1
<1>1. /\ m \in Nat /\ k \in 1 .. m
      /\ \A i \in 1 .. m : s[i] \in Node /\ s[i] # NULL
      /\ s # << >>
    BY LenProperties, ElementOfSeq, EmptySeq
<1>2. /\ NoDuplicates(s)
      /\ l.size = m
      /\ l.tail = s[1]
      /\ l.head = s[m]
      /\ \A i \in 1 .. m : l.prev[s[i]] = IF i = m THEN NULL ELSE s[i + 1]
      /\ \A i \in 1 .. m : l.next[s[i]] = IF i = 1 THEN NULL ELSE s[i - 1]
    BY <1>1 DEF HoldsList
<1>3. /\ r \in Seq(Node) /\ Len(r) = m - 1
      /\ \A i \in 1 .. m - 1 : r[i] = s[Src(i)]
  <2>1. /\ r \in Seq(Node) /\ Len(r) = m - 1
        /\ \A i \in 1 .. m - 1 : r[i] = IF i < k THEN s[i] ELSE s[i + 1]
      BY WithoutProperties
  <2>2. QED
      BY <2>1
<1>4. /\ l.next \in [Node -> Node \cup {NULL}]
      /\ l.prev \in [Node -> Node \cup {NULL}]
    BY ListFields
<1>5. \A i, j \in 1 .. m : s[i] = s[j] => i = j
    BY <1>2 DEF NoDuplicates
<1> HIDE DEF r, m
<1>6. NoDuplicates(r)
  <2>1. ASSUME NEW i \in 1 .. m - 1, NEW j \in 1 .. m - 1, r[i] = r[j]
        PROVE  i = j
    <3>1. /\ i < k => i \in 1 .. m
          /\ ~(i < k) => i + 1 \in 1 .. m
          /\ j < k => j \in 1 .. m
          /\ ~(j < k) => j + 1 \in 1 .. m
        BY <1>1
    <3>2. QED
        BY <1>1, <1>3, <1>5, <2>1, <3>1
  <2>2. QED
      BY <1>3, <2>1 DEF NoDuplicates
<1>7. /\ p.head = IF k = m THEN (IF m = 1 THEN NULL ELSE s[m - 1]) ELSE s[m]
      /\ p.tail = IF k = 1 THEN (IF m = 1 THEN NULL ELSE s[2]) ELSE s[1]
      /\ p.size = m - 1
      /\ p.next = IF k = m THEN l.next
                  ELSE [l.next EXCEPT ![s[k + 1]] = IF k = 1 THEN NULL ELSE s[k - 1]]
      /\ p.prev = IF k = 1 THEN l.prev
                  ELSE [l.prev EXCEPT ![s[k - 1]] = IF k = m THEN NULL ELSE s[k + 1]]
  <2>1. /\ s[k] = l.head <=> k = m
        /\ s[k] = l.tail <=> k = 1
    <3>1. 1 \in 1 .. m /\ m \in 1 .. m
        BY <1>1
    <3>2. QED
        BY <1>1, <1>2, <1>5, <3>1
  <2>2. /\ l.next[s[k]] = IF k = 1 THEN NULL ELSE s[k - 1]
        /\ l.prev[s[k]] = IF k = m THEN NULL ELSE s[k + 1]
      BY <1>1, <1>2
  <2>3. /\ k # 1 => s[k - 1] # NULL
        /\ k # m => s[k + 1] # NULL
        /\ k = 1 => k + 1 = 2
      BY <1>1
  <2>4. CASE k = m
    <3>1. p = RemoveHead(l, s[k])
        BY <2>1, <2>4 DEF RemoveNode
    <3>2. /\ p.head = l.next[s[k]]
          /\ p.tail = IF l.next[s[k]] = NULL THEN NULL ELSE l.tail
          /\ p.size = l.size - 1
          /\ p.next = l.next
          /\ p.prev = Assign(l.prev, l.next[s[k]], NULL)
        BY <3>1 DEF RemoveHead
    <3> HIDE DEF p
    <3>3. QED
        BY <1>2, <2>2, <2>3, <2>4, <3>2 DEF Assign
  <2>5. CASE k # m /\ k = 1
    <3>1. p = RemoveTail(l, s[k])
        BY <2>1, <2>5 DEF RemoveNode
    <3>2. /\ p.head = l.head
          /\ p.tail = l.prev[s[k]]
          /\ p.size = l.size - 1
          /\ p.next = Assign(l.next, l.prev[s[k]], NULL)
          /\ p.prev = l.prev
        BY <3>1 DEF RemoveTail
    <3> HIDE DEF p
    <3>3. QED
        BY <1>1, <1>2, <2>2, <2>3, <2>5, <3>2 DEF Assign
  <2>6. CASE k # m /\ k # 1
    <3>1. p = RemoveMiddle(l, s[k])
        BY <2>1, <2>6 DEF RemoveNode
    <3>2. /\ p.head = l.head
          /\ p.tail = l.tail
          /\ p.size = l.size - 1
          /\ p.next = Assign(l.next, l.prev[s[k]], l.next[s[k]])
          /\ p.prev = Assign(l.prev, l.next[s[k]], l.prev[s[k]])
        BY <3>1 DEF RemoveMiddle
    <3> HIDE DEF p
    <3>3. QED
        BY <1>1, <1>2, <2>2, <2>3, <2>6, <3>2 DEF Assign
  <2>7. QED
      BY <2>4, <2>5, <2>6
<1> HIDE DEF p
<1>8. ASSUME NEW i \in 1 .. m - 1
      PROVE  p.next[r[i]] = IF i = 1 THEN NULL ELSE r[i - 1]
  <2>1. CASE i < k
    <3>1. /\ i \in 1 .. m /\ r[i] = s[i] /\ s[i] \in Node /\ i # k + 1
          /\ k # m => k + 1 \in 1 .. m
        BY <1>1, <1>3, <2>1
    <3>2. p.next[s[i]] = l.next[s[i]]
      <4>1. k # m => s[i] # s[k + 1]
          BY <1>5, <3>1
      <4>2. QED
          BY <1>4, <1>7, <3>1, <4>1
    <3>3. i # 1 => i - 1 \in 1 .. m - 1 /\ i - 1 < k
        BY <1>1, <2>1
    <3>4. QED
        BY <1>2, <1>3, <3>1, <3>2, <3>3
  <2>2. CASE i = k
    <3>1. r[i] = s[k + 1] /\ k # m /\ s[k + 1] \in Node
        BY <1>1, <1>3, <2>2
    <3>2. p.next[s[k + 1]] = IF k = 1 THEN NULL ELSE s[k - 1]
        BY <1>4, <1>7, <3>1
    <3>3. i # 1 => i - 1 \in 1 .. m - 1 /\ i - 1 < k
        BY <1>1, <2>2
    <3>4. QED
        BY <1>3, <2>2, <3>1, <3>2, <3>3
  <2>3. CASE i > k
    <3>1. /\ i + 1 \in 1 .. m /\ r[i] = s[i + 1] /\ s[i + 1] \in Node
          /\ i + 1 # k + 1 /\ k + 1 \in 1 .. m /\ i + 1 # 1 /\ i + 1 - 1 = i
        BY <1>1, <1>3, <2>3
    <3>2. p.next[s[i + 1]] = s[i]
      <4>1. s[i + 1] # s[k + 1]
          BY <1>5, <3>1
      <4>2. QED
          BY <1>2, <1>4, <1>7, <3>1, <4>1
    <3>3. i # 1 /\ i - 1 \in 1 .. m - 1 /\ ~(i - 1 < k) /\ i - 1 + 1 = i
        BY <1>1, <2>3
    <3>4. QED
        BY <1>3, <3>1, <3>2, <3>3
  <2>4. QED
      BY <1>1, <2>1, <2>2, <2>3
<1>9. ASSUME NEW i \in 1 .. m - 1
      PROVE  p.prev[r[i]] = IF i = m - 1 THEN NULL ELSE r[i + 1]
  <2>1. k # 1 => k - 1 \in 1 .. m
      BY <1>1
  <2>2. CASE i >= k
    <3>1. /\ i + 1 \in 1 .. m /\ r[i] = s[i + 1] /\ s[i + 1] \in Node
          /\ i + 1 # k - 1 /\ (i + 1 = m <=> i = m - 1)
        BY <1>1, <1>3, <2>2
    <3>2. p.prev[s[i + 1]] = l.prev[s[i + 1]]
      <4>1. k # 1 => s[i + 1] # s[k - 1]
          BY <1>5, <2>1, <3>1
      <4>2. QED
          BY <1>4, <1>7, <3>1, <4>1
    <3>3. i # m - 1 => i + 1 \in 1 .. m - 1 /\ ~(i + 1 < k)
        BY <1>1, <2>2
    <3>4. QED
        BY <1>2, <1>3, <3>1, <3>2, <3>3
  <2>3. CASE i = k - 1
    <3>1. /\ r[i] = s[k - 1] /\ k # 1 /\ s[k - 1] \in Node
          /\ (i = m - 1 <=> k = m)
        BY <1>1, <1>3, <2>1, <2>3
    <3>2. p.prev[s[k - 1]] = IF k = m THEN NULL ELSE s[k + 1]
        BY <1>4, <1>7, <3>1
    <3>3. i # m - 1 => i + 1 \in 1 .. m - 1 /\ ~(i + 1 < k) /\ i + 1 + 1 = k + 1
        BY <1>1, <2>3
    <3>4. QED
        BY <1>3, <3>1, <3>2, <3>3
  <2>4. CASE i < k - 1
    <3>1. /\ i \in 1 .. m /\ r[i] = s[i] /\ s[i] \in Node
          /\ i # k - 1 /\ i # m /\ i # m - 1
          /\ i + 1 \in 1 .. m - 1 /\ i + 1 < k
        BY <1>1, <1>3, <2>4
    <3>2. p.prev[s[i]] = s[i + 1]
      <4>1. k # 1 => s[i] # s[k - 1]
          BY <1>5, <2>1, <3>1
      <4>2. QED
          BY <1>2, <1>4, <1>7, <3>1, <4>1
    <3>3. QED
        BY <1>3, <3>1, <3>2
  <2>5. QED
      BY <1>1, <2>2, <2>3, <2>4
<1>10. /\ p.size = Len(r)
       /\ p.tail = IF r = << >> THEN NULL ELSE r[1]
       /\ p.head = IF r = << >> THEN NULL ELSE r[Len(r)]
  <2>1. r = << >> <=> m = 1
      BY <1>1, <1>3, EmptySeq
  <2>2. m # 1 => 1 \in 1 .. m - 1 /\ m - 1 \in 1 .. m - 1 /\ 1 + 1 = 2 /\ m - 1 + 1 = m
      BY <1>1
  <2>3. m # 1 => r[1] = IF k = 1 THEN s[2] ELSE s[1]
      BY <1>1, <1>3, <2>2
  <2>4. m # 1 => r[m - 1] = IF k = m THEN s[m - 1] ELSE s[m]
      BY <1>1, <1>3, <2>2
  <2>5. QED
      BY <1>1, <1>3, <1>7, <2>1, <2>3, <2>4
<1>11. QED
    BY <1>3, <1>6, <1>8, <1>9, <1>10 DEF HoldsList, p, r
-----------------------------------------------------------------------------
(* Sorted pushes at the ends of a list. *)

\* The scan stops at once when it is to stop at the head.
LEMMA SuccessorHead ==
    ASSUME NEW Node, NULL \notin Node, NEW l \in ListType(Node, Int),
           NEW Stops, l.head \in Node, l.head \in Stops
    PROVE  Successor(l, Stops) = l.head
<1>1. DOMAIN l.next = Node
    BY ListFields
<1>2. ScanClosed(l, {l.head}, Stops)
    BY DEF ScanClosed
<1>3. Visited(l, Stops) = {l.head}
    BY <1>1, <1>2 DEF Visited, ScanClosed
<1>4. QED
    BY <1>3 DEF Successor

\* The scan looks at nothing but the list's nodes, and passes them all when
\* it is to stop at none.
LEMMA SuccessorNone ==
    ASSUME NEW Node, NULL \notin Node, NEW l \in ListType(Node, Int),
           NEW s \in Seq(Node), HoldsList(l, s), s # << >>,
           NEW Stops, \A i \in 1 .. Len(s) : s[i] \notin Stops
    PROVE  Successor(l, Stops) = NULL
<1> DEFINE R == {s[i] : i \in 1 .. Len(s)}
<1>1. /\ DOMAIN l.next = Node
      /\ Len(s) \in Nat \ {0}
      /\ \A i \in 1 .. Len(s) : s[i] \in Node
    BY ListFields, LenProperties, ElementOfSeq, EmptySeq
<1>2. /\ l.head = s[Len(s)]
      /\ \A i \in 1 .. Len(s) : l.next[s[i]] = IF i = 1 THEN NULL ELSE s[i - 1]
    BY DEF HoldsList
<1>3. l.head \in R
    BY <1>1, <1>2
<1>4. ASSUME NEW i \in 1 .. Len(s), l.next[s[i]] # NULL
      PROVE  l.next[s[i]] \in R
  <2>1. i # 1 /\ l.next[s[i]] = s[i - 1]
      BY <1>2, <1>4
  <2>2. i - 1 \in 1 .. Len(s)
      BY <1>1, <2>1
  <2>3. QED
      BY <2>1, <2>2
<1>5. ScanClosed(l, R, Stops)
    BY <1>3, <1>4 DEF ScanClosed
<1>6. R \subseteq Node /\ R \cap Stops = {}
    BY <1>1
<1> HIDE DEF R
<1>7. Visited(l, Stops) \subseteq R
    BY <1>1, <1>5, <1>6 DEF Visited
<1>8. Visited(l, Stops) \cap Stops = {}
    BY <1>6, <1>7
<1>9. QED
    BY <1>8 DEF Successor

\* A node that the head is popped before becomes the head.
LEMMA SortedPushAtHead ==
    ASSUME NEW Node, NULL \notin Node, NEW l \in ListType(Node, Int),
           NEW s \in Seq(Node), HoldsList(l, s),
           NEW n \in Node, \A i \in 1 .. Len(s) : s[i] # n,
           NEW Stops, s = << >> \/ s[Len(s)] \in Stops
    PROVE  HoldsList(SortedPushNode(l, n, Stops), Append(s, n))
<1>1. /\ Len(s) \in Nat
      /\ \A i \in 1 .. Len(s) : s[i] \in Node
      /\ s = << >> <=> Len(s) = 0
    BY LenProperties, ElementOfSeq, EmptySeq
<1>2. SortedPushNode(l, n, Stops) = PushNode(l, n)
  <2>1. CASE s = << >>
      BY <2>1 DEF HoldsList, SortedPushNode, PushNode
  <2>2. CASE s # << >>
    <3> DEFINE h == l.head
    <3>1. Len(s) \in 1 .. Len(s)
        BY <1>1, <2>2
    <3>2. h = s[Len(s)] /\ l.prev[h] = NULL
        BY <2>2, <3>1 DEF HoldsList
    <3>3. h \in Node /\ h # NULL /\ h # n /\ h \in Stops
        BY <1>1, <2>2, <3>1, <3>2
    <3>4. Successor(l, Stops) = h
        BY <3>3, SuccessorHead
    <3>5. l.prev \in [Node -> Node \cup {NULL}]
        BY ListFields
    <3>6. [[l.prev EXCEPT ![n] = NULL] EXCEPT ![h] = n]
              = [[l.prev EXCEPT ![h] = n] EXCEPT ![n] = NULL]
      <4> HIDE DEF h
      <4>1. QED
          BY <3>3, <3>5
    <3>7. SortedPushNode(l, n, Stops) = PushBefore(l, n, h)
        BY <3>3, <3>4 DEF SortedPushNode
    <3>8. PushBefore(l, n, h) = PushNode(l, n)
        BY <3>2, <3>3, <3>6 DEF PushBefore, PushNode, Assign
    <3>9. QED
        BY <3>7, <3>8
  <2>3. QED
      BY <2>1, <2>2
<1>3. QED
    BY <1>2, PushHolds

\* A node that is popped before every other becomes the tail.
LEMMA SortedPushAtTail ==
    ASSUME NEW Node, NULL \notin Node, NEW l \in ListType(Node, Int),
           NEW s \in Seq(Node), HoldsList(l, s), s # << >>,
           NEW n \in Node, \A i \in 1 .. Len(s) : s[i] # n,
           NEW Stops, \A i \in 1 .. Len(s) : s[i] \notin Stops
    PROVE  HoldsList(SortedPushNode(l, n, Stops), <<n>> \o s)
<1> DEFINE r == <<n>> \o s
           p == SortedPushNode(l, n, Stops)
<1>1. /\ Len(s) \in Nat \ {0}
      /\ \A i \in 1 .. Len(s) : s[i] \in Node /\ s[i] # NULL
    BY LenProperties, ElementOfSeq, EmptySeq
<1>2. /\ NoDuplicates(s)
      /\ l.size = Len(s)
      /\ l.tail = s[1]
      /\ l.head = s[Len(s)]
      /\ \A i \in 1 .. Len(s) : l.prev[s[i]] = IF i = Len(s) THEN NULL ELSE s[i + 1]
      /\ \A i \in 1 .. Len(s) : l.next[s[i]] = IF i = 1 THEN NULL ELSE s[i - 1]
    BY DEF HoldsList
<1>3. 1 \in 1 .. Len(s) /\ Len(s) \in 1 .. Len(s)
    BY <1>1
<1>4. p = PushTail(l, n)
  <2>1. l.head # NULL
      BY <1>1, <1>2, <1>3
  <2>2. Successor(l, Stops) = NULL
      BY SuccessorNone
  <2>3. QED
      BY <2>1, <2>2 DEF SortedPushNode
<1>5. /\ p.head = s[Len(s)]
      /\ p.tail = n
      /\ p.size = Len(s) + 1
      /\ p.next = [[l.next EXCEPT ![n] = NULL] EXCEPT ![s[1]] = n]
      /\ p.prev = [l.prev EXCEPT ![n] = s[1]]
    BY <1>1, <1>2, <1>3, <1>4 DEF PushTail, Assign
<1>6. /\ r \in Seq(Node)
      /\ Len(r) = Len(s) + 1
      /\ r[1] = n
      /\ \A i \in 2 .. Len(s) + 1 : r[i] = s[i - 1]
    BY FrontProperties
<1>7. /\ l.next \in [Node -> Node \cup {NULL}]
      /\ l.prev \in [Node -> Node \cup {NULL}]
    BY ListFields
<1> HIDE DEF p, r
<1>8. NoDuplicates(r)
  <2>1. ASSUME NEW i \in 1 .. Len(r), NEW j \in 1 .. Len(r), r[i] = r[j]
        PROVE  i = j
    <3>1. /\ i # 1 => i \in 2 .. Len(s) + 1 /\ i - 1 \in 1 .. Len(s)
          /\ j # 1 => j \in 2 .. Len(s) + 1 /\ j - 1 \in 1 .. Len(s)
        BY <1>1, <1>6
    <3>2. CASE i # 1 /\ j # 1
      <4>1. s[i - 1] = r[i] /\ s[j - 1] = r[j]
          BY <1>6, <3>1, <3>2
      <4>2. \A x, y \in 1 .. Len(s) : s[x] = s[y] => x = y
          BY <1>2 DEF NoDuplicates
      <4>3. i - 1 = j - 1
          BY <2>1, <3>1, <3>2, <4>1, <4>2
      <4>4. QED
          BY <1>1, <1>6, <4>3
    <3>3. i = 1 <=> j = 1
        BY <1>6, <2>1, <3>1
    <3>4. QED
        BY <3>2, <3>3
  <2>2. QED
      BY <2>1 DEF NoDuplicates
<1>9. ASSUME NEW i \in 1 .. Len(r)
      PROVE  /\ p.prev[r[i]] = IF i = Len(r) THEN NULL ELSE r[i + 1]
             /\ p.next[r[i]] = IF i = 1 THEN NULL ELSE r[i - 1]
  <2>1. CASE i = 1
    <3>1. i # Len(r) /\ r[i + 1] = s[1]
      <4>1. 2 \in 2 .. Len(s) + 1 /\ 1 + 1 = 2 /\ 2 - 1 = 1
          BY <1>1
      <4>2. QED
          BY <1>1, <1>6, <2>1, <4>1
    <3>2. p.prev[n] = s[1]
        BY <1>5, <1>7
    <3>3. p.next[n] = NULL
        BY <1>3, <1>5, <1>7
    <3>4. QED
        BY <1>6, <2>1, <3>1, <3>2, <3>3
  <2>2. CASE i # 1
    <3> DEFINE k == i - 1
    <3>1. /\ k \in 1 .. Len(s) /\ i = k + 1 /\ i \in 2 .. Len(s) + 1
          /\ r[i] = s[k] /\ (i = Len(r) <=> k = Len(s))
        BY <1>1, <1>6, <2>2
    <3>2. s[k] \in Node /\ s[k] # n
        BY <1>1, <3>1
    <3>3. p.prev[s[k]] = l.prev[s[k]]
        BY <1>5, <1>7, <3>2
    <3>4. k # Len(s) => i + 1 \in 2 .. Len(s) + 1 /\ i + 1 - 1 = k + 1
        BY <1>1, <3>1
    <3>5. k # Len(s) => r[i + 1] = s[k + 1]
        BY <1>6, <3>4
    <3> HIDE DEF k
    <3>6. p.prev[r[i]] = IF i = Len(r) THEN NULL ELSE r[i + 1]
        BY <1>2, <3>1, <3>3, <3>5
    <3>7. CASE k = 1
      <4>1. p.next[s[k]] = n
          BY <1>5, <1>7, <3>2, <3>7
      <4>2. i - 1 = 1
          BY <3>1, <3>7
      <4>3. QED
          BY <1>6, <2>2, <3>1, <3>6, <4>1, <4>2
    <3>8. CASE k # 1
      <4>1. s[k] # s[1]
          BY <1>2, <1>3, <3>1, <3>8 DEF NoDuplicates
      <4>2. p.next[s[k]] = l.next[s[k]]
          BY <1>5, <1>7, <3>2, <4>1
      <4>3. l.next[s[k]] = s[k - 1]
          BY <1>2, <3>1, <3>8
      <4>4. i - 1 = k /\ k \in 2 .. Len(s) + 1
          BY <1>1, <3>1, <3>8
      <4>5. r[i - 1] = s[k - 1]
          BY <1>6, <4>4
      <4>6. QED
          BY <2>2, <3>1, <3>6, <4>2, <4>3, <4>5
    <3>9. QED
        BY <3>7, <3>8
  <2>3. QED
      BY <2>1, <2>2
<1>10. /\ p.size = Len(r)
       /\ p.tail = IF r = << >> THEN NULL ELSE r[1]
       /\ p.head = IF r = << >> THEN NULL ELSE r[Len(r)]
  <2>1. r # << >>
      BY <1>1, <1>6, EmptySeq
  <2>2. Len(s) + 1 \in 2 .. Len(s) + 1 /\ Len(s) + 1 - 1 = Len(s)
      BY <1>1
  <2>3. r[Len(r)] = s[Len(s)]
      BY <1>6, <2>2
  <2>4. QED
      BY <1>5, <1>6, <2>1, <2>3
<1>11. HoldsList(p, r)
    BY <1>8, <1>9, <1>10 DEF HoldsList
<1>12. QED
    BY <1>11 DEF p, r

-----------------------------------------------------------------------------
(* Queues that hold a sequence. *)

\* What a queue that holds s says of its nodes.
LEMMA HeldNodes ==
    ASSUME NEW Size, NEW T, NEW q \in QueueType(Size, T), NEW s,
           HoldsQueue(q, s)
    PROVE  /\ s \in Seq(1 .. Size)
           /\ Len(s) \in Nat
           /\ NoDuplicates(s)
           /\ DOMAIN q.data = 1 .. Size
           /\ Range(s) = {s[i] : i \in 1 .. Len(s)}
           /\ LiveNodes(q) = {s[i] : i \in 1 .. Len(s)}
           /\ LiveNodes(q) \subseteq 1 .. Size
<1>1. DOMAIN q.data = 1 .. Size
    BY QueueFields
<1>2. /\ s \in Seq(1 .. Size)
      /\ NoDuplicates(s)
      /\ Range(s) = LiveNodes(q)
    BY <1>1 DEF HoldsQueue, HoldsList
<1>3. Len(s) \in Nat /\ Range(s) = {s[i] : i \in 1 .. Len(s)}
    BY <1>2, LenProperties, RangeEquality
<1>4. LiveNodes(q) \subseteq 1 .. Size
    BY <1>1 DEF LiveNodes
<1>5. QED
    BY <1>1, <1>2, <1>3, <1>4

\* The empty queue.
LEMMA EmptyQueueHolds ==
    ASSUME NEW Size \in Nat, NEW noData
    PROVE  HoldsQueue(EmptyQueue(Size, noData), << >>)
<1> DEFINE f == [i \in 1 .. Size |-> i]
           q == EmptyQueue(Size, noData)
<1>1. /\ q.list = EmptyList(1 .. Size)
      /\ q.free = f
      /\ DOMAIN q.data = 1 .. Size
    BY DEF EmptyQueue
<1>2. Len(f) = Size /\ \A i \in 1 .. Size : f[i] = i
    OBVIOUS
<1> HIDE DEF f, q
<1>3. NoDuplicates(q.free) /\ LiveNodes(q) = {}
    BY <1>1, <1>2 DEF NoDuplicates, LiveNodes
<1>4. Range(<< >>) = {} /\ << >> \in Seq(1 .. Size)
    BY DEF Range
<1>5. HoldsList(q.list, << >>)
    BY <1>1, EmptyHolds
<1>6. QED
    BY <1>1, <1>3, <1>4, <1>5 DEF HoldsQueue, q

\* A sorted push of an object that is to be popped after all that are queued
\* puts it last, and of one that is to be popped before them all, first.
LEMMA SortedPushHolds ==
    ASSUME NEW Size, NULL \notin 1 .. Size, NEW T,
           NEW q \in QueueType(Size, T), NEW obj \in T, NEW Sort,
           NEW s, HoldsQueue(q, s), ~PoolEmpty(q)
    PROVE  /\ (\A m \in LiveNodes(q) : <<q.data[m], obj>> \in Sort)
                 => HoldsQueue(SortedPush(q, obj, Sort), Append(s, NextNode(q)))
           /\ (\A m \in LiveNodes(q) : <<q.data[m], obj>> \notin Sort)
                 => HoldsQueue(SortedPush(q, obj, Sort), <<NextNode(q)>> \o s)
<1> DEFINE n == NextNode(q)
           r == SortedPush(q, obj, Sort)
           stored == [q.data EXCEPT ![n] = obj]
           Stops == {it \in DOMAIN stored : <<stored[it], obj>> \in Sort}
           Node == 1 .. Size
<1>1. /\ s \in Seq(Node) /\ Len(s) \in Nat
      /\ LiveNodes(q) = {s[i] : i \in 1 .. Len(s)}
      /\ LiveNodes(q) \subseteq Node
      /\ Range(s) = LiveNodes(q)
      /\ HoldsList(q.list, s)
      /\ NoDuplicates(q.free)
    BY HeldNodes DEF HoldsQueue
<1>2. /\ n \in Node
      /\ NoDuplicates(r.free)
      /\ Takes(q, r, n)
      /\ r.data = stored
    BY <1>1, SortedPushLive
<1>3. q.list \in ListType(Node, Int) /\ q.data \in [Node -> T]
    BY QueueFields
<1>4. r.list = SortedPushNode(q.list, n, Stops)
    BY DEF SortedPush
<1>5. \A i \in 1 .. Len(s) : s[i] # n
    BY <1>1, <1>2 DEF Takes
<1>6. \A m \in LiveNodes(q) : m \in Stops <=> <<q.data[m], obj>> \in Sort
    BY <1>1, <1>2, <1>3 DEF Takes
<1>7. DOMAIN r.data = Node
    BY <1>2, <1>3
<1>8. NULL \notin Node
    OBVIOUS
<1>9. LiveNodes(r) = Range(s) \cup {n}
    BY <1>1, <1>2 DEF Takes
<1>10. s # << >> => Len(s) \in 1 .. Len(s)
    BY <1>1, EmptySeq
<1> HIDE DEF n, r, Stops, Node
<1>11. ASSUME s = << >> \/ \A m \in LiveNodes(q) : m \in Stops
       PROVE  HoldsQueue(r, Append(s, n))
  <2>1. s = << >> \/ s[Len(s)] \in Stops
      BY <1>1, <1>10, <1>11
  <2>2. HoldsList(r.list, Append(s, n))
      BY <1>1, <1>2, <1>3, <1>4, <1>5, <1>8, <2>1, SortedPushAtHead
  <2>3. Append(s, n) \in Seq(Node) /\ Range(Append(s, n)) = Range(s) \cup {n}
      BY <1>1, <1>2, AppendProperties, RangeAppend
  <2>4. QED
      BY <1>2, <1>7, <1>9, <2>2, <2>3 DEF HoldsQueue
<1>12. ASSUME s # << >>, \A m \in LiveNodes(q) : m \notin Stops
       PROVE  HoldsQueue(r, <<n>> \o s)
  <2>1. \A i \in 1 .. Len(s) : s[i] \notin Stops
      BY <1>1, <1>12
  <2>2. HoldsList(r.list, <<n>> \o s)
      BY <1>1, <1>2, <1>3, <1>4, <1>5, <1>8, <1>12, <2>1, SortedPushAtTail
  <2>3. <<n>> \o s \in Seq(Node) /\ Range(<<n>> \o s) = Range(s) \cup {n}
      BY <1>1, <1>2, FrontProperties
  <2>4. QED
      BY <1>2, <1>7, <1>9, <2>2, <2>3 DEF HoldsQueue
<1>13. s = << >> => <<n>> \o s = Append(s, n)
    OBVIOUS
<1>14. (\A m \in LiveNodes(q) : <<q.data[m], obj>> \notin Sort)
           => HoldsQueue(r, <<n>> \o s)
  <2>1. CASE s = << >>
      BY <1>11, <1>13, <2>1
  <2>2. CASE s # << >>
      BY <1>6, <1>12, <2>2
  <2>3. QED
      BY <2>1, <2>2
<1>15. (\A m \in LiveNodes(q) : <<q.data[m], obj>> \in Sort)
           => HoldsQueue(r, Append(s, n))
    BY <1>6, <1>11
<1>16. QED
    BY <1>14, <1>15 DEF r, n

\* Removing a node cuts it out of the sequence.
LEMMA RemoveHoldsQueue ==
    ASSUME NEW Size, NULL \notin 1 .. Size, NEW T,
           NEW q \in QueueType(Size, T), NEW s, HoldsQueue(q, s),
           NEW k \in 1 .. Len(s)
    PROVE  /\ HoldsQueue(Remove(q, s[k]), Without(s, k))
           /\ Remove(q, s[k]).data = q.data
           /\ Gives(q, Remove(q, s[k]), s[k])
<1> DEFINE n == s[k]
           r == Remove(q, n)
           Node == 1 .. Size
<1>1. /\ s \in Seq(Node) /\ Len(s) \in Nat
      /\ LiveNodes(q) = {s[i] : i \in 1 .. Len(s)}
      /\ NoDuplicates(s)
      /\ Range(s) = LiveNodes(q)
      /\ DOMAIN q.data = Node
      /\ HoldsList(q.list, s)
      /\ NoDuplicates(q.free)
    BY HeldNodes DEF HoldsQueue
<1>2. /\ r.list = RemoveNode(q.list, n)
      /\ r.data = q.data
      /\ r.free = FreeNode(q, n)
      /\ n \in LiveNodes(q)
    BY <1>1 DEF Remove
<1>3. NoDuplicates(r.free) /\ LiveNodes(r) = LiveNodes(q) \ {n}
    BY <1>1, <1>2, FreeNodeLive
<1>4. q.list \in ListType(Node, Int) /\ NULL \notin Node
    BY QueueFields
<1> HIDE DEF r, Node
<1>5. HoldsList(r.list, Without(s, k))
    BY <1>1, <1>2, <1>4, RemoveHolds
<1>6. Without(s, k) \in Seq(Node) /\ Range(Without(s, k)) = Range(s) \ {n}
    BY <1>1, WithoutProperties, RangeWithout
<1>7. HoldsQueue(r, Without(s, k))
    BY <1>1, <1>2, <1>3, <1>5, <1>6 DEF HoldsQueue
<1>8. QED
    BY <1>2, <1>3, <1>7 DEF r, Gives

\* A pop takes the first of the sequence, and it takes one unless there is
\* none.
LEMMA PopHoldsQueue ==
    ASSUME NEW Size, NULL \notin 1 .. Size, NEW T,
           NEW q \in QueueType(Size, T), NEW s, HoldsQueue(q, s),
           Peek(q) # NULL
    PROVE  /\ 1 \in 1 .. Len(s)
           /\ Peek(q) = s[1]
           /\ HoldsQueue(Pop(q), Without(s, 1))
           /\ Pop(q).data = q.data
           /\ Gives(q, Pop(q), s[1])
<1> DEFINE n == s[1]
           r == Pop(q)
           Node == 1 .. Size
<1>1. /\ s \in Seq(Node) /\ Len(s) \in Nat
      /\ LiveNodes(q) = {s[i] : i \in 1 .. Len(s)}
      /\ NoDuplicates(s)
      /\ Range(s) = LiveNodes(q)
      /\ DOMAIN q.data = Node
      /\ HoldsList(q.list, s)
      /\ NoDuplicates(q.free)
    BY HeldNodes DEF HoldsQueue
<1>2. s # << >> /\ Peek(q) = n
    BY <1>1 DEF HoldsList, Peek
<1>3. 1 \in 1 .. Len(s)
    BY <1>1, <1>2, EmptySeq
<1>4. /\ r.list = PopNode(q.list)
      /\ r.data = q.data
      /\ r.free = FreeNode(q, n)
      /\ n \in LiveNodes(q)
    BY <1>1, <1>2, <1>3 DEF Pop
<1>5. NoDuplicates(r.free) /\ LiveNodes(r) = LiveNodes(q) \ {n}
    BY <1>1, <1>4, FreeNodeLive
<1>6. q.list \in ListType(Node, Int) /\ NULL \notin Node
    BY QueueFields
<1> HIDE DEF r, Node
<1>7. HoldsList(r.list, Tail(s))
    BY <1>1, <1>2, <1>4, <1>6, PopHolds
<1>8. Tail(s) = Without(s, 1)
    BY <1>1, <1>2, RangeTail
<1>9. Without(s, 1) \in Seq(Node) /\ Range(Without(s, 1)) = Range(s) \ {n}
    BY <1>1, <1>3, WithoutProperties, RangeWithout
<1>10. HoldsQueue(r, Without(s, 1))
    BY <1>1, <1>4, <1>5, <1>7, <1>8, <1>9 DEF HoldsQueue
<1>11. QED
    BY <1>2, <1>3, <1>4, <1>5, <1>10 DEF r, Gives
================================================================================
