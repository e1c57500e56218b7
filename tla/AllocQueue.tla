------------------------------ MODULE AllocQueue ------------------------------
(***************************************************************************)
(* queue/allocated_queue.h: alloc::Queue and alloc::SortedQueue, a linked  *)
(* list over a pool of SIZE nodes.  A queue is a record:                   *)
(*   list  the members inherited from SimpleQueue and the nodes' links,    *)
(*   data  node->data,                                                     *)
(*   free  the nodes the pool can hand out, next one first (PoolSpec's     *)
(*         view of m_pool; Pool.tla shows that pool.h implements it).      *)
(* The pointer push returns, &node->data, is the node itself here: remove  *)
(* recovers the node from it with container_of.                            *)
(***************************************************************************)
EXTENDS LinkedQueue

EmptyQueue(Size, noData) ==
    [list |-> EmptyList(1 .. Size),
     data |-> [n \in 1 .. Size |-> noData],
     free |-> [i \in 1 .. Size |-> i]]

\* The type of a queue of Size nodes that holds objects of the set T.
QueueType(Size, T) ==
    [list : ListType(1 .. Size, Int), data : [1 .. Size -> T],
     free : Seq(1 .. Size)]

\* m_pool.alloc()
PoolEmpty(q) == q.free = <<>>
NextNode(q)  == IF PoolEmpty(q) THEN NULL ELSE Head(q.free)

\* Mutant: the node is never given back to the pool.
FreeNodeLeaks(q, n) == q.free

\* m_pool.free(node), refused for a node that is not allocated.
FreeNode(q, n) ==
    IF \E i \in 1 .. Len(q.free) : q.free[i] = n THEN q.free
    ELSE Append(q.free, n)

\* alloc::Queue::push; it returns NextNode(q).
Push(q, obj) ==
    IF PoolEmpty(q)
    THEN q
    ELSE LET n == NextNode(q)
         IN  [list |-> PushNode(q.list, n),
              data |-> [q.data EXCEPT ![n] = obj],
              free |-> Tail(q.free)]

\* alloc::SortedQueue::push; Sort is the set of the pairs <<fst, snd>> for
\* which m_sort(fst, snd) holds: fst is to be popped before snd.
SortedPush(q, obj, Sort) ==
    IF PoolEmpty(q)
    THEN q
    ELSE LET n == NextNode(q)
             stored == [q.data EXCEPT ![n] = obj]
             Stops == {it \in DOMAIN stored : <<stored[it], obj>> \in Sort}
         IN  [list |-> SortedPushNode(q.list, n, Stops),
              data |-> stored,
              free |-> Tail(q.free)]

\* peek(): the node at the tail, NULL when the queue is empty.
Peek(q) == q.list.tail

\* pop()
Pop(q) ==
    IF Peek(q) = NULL
    THEN q
    ELSE [list |-> PopNode(q.list), data |-> q.data,
          free |-> FreeNode(q, Peek(q))]

\* remove(obj)
Remove(q, n) ==
    [list |-> RemoveNode(q.list, n), data |-> q.data,
     free |-> FreeNode(q, n)]

\* size()
QueueSize(q) == q.list.size
================================================================================
