------------------------------ MODULE LinkedQueue ------------------------------
(***************************************************************************)
(* The intrusive doubly linked lists of queue/queue_simple.h: SimpleQueue  *)
(* (FIFO) and SimpleSortedQueue, as operators on a record of the members   *)
(* the C++ objects hold.  A node is pushed at the head and popped at the   *)
(* tail; `next' leads from the head to the tail, `prev' back from the tail *)
(* to the head.                                                            *)
(*                                                                         *)
(* The links are the fields of the nodes themselves, so the links of a     *)
(* node that has left the list keep their last values, as in the code.     *)
(***************************************************************************)
EXTENDS Integers, Sequences

CONSTANT NULL

EmptyList(Node) ==
    [head |-> NULL, tail |-> NULL, size |-> 0,
     next |-> [n \in Node |-> NULL], prev |-> [n \in Node |-> NULL]]

\* The type of a list whose nodes are drawn from Node.
ListType(Node, Size) ==
    [head : Node \cup {NULL}, tail : Node \cup {NULL}, size : Size,
     next : [Node -> Node \cup {NULL}], prev : [Node -> Node \cup {NULL}]]

\* n->link = v; the code's writes through a null n are skipped.
Assign(link, n, v) == IF n = NULL THEN link ELSE [link EXCEPT ![n] = v]

\* Both classes start an empty list in the same way.
PushFirst(q, n) ==
    [head |-> n, tail |-> n, size |-> 1,
     next |-> [q.next EXCEPT ![n] = NULL],
     prev |-> [q.prev EXCEPT ![n] = NULL]]

\* Mutant: the node is linked in at the tail, so the last pushed comes first.
PushNodeAtTail(q, n) ==
    IF q.head = NULL
    THEN PushFirst(q, n)
    ELSE [head |-> q.head, tail |-> n, size |-> q.size + 1,
          next |-> [Assign(q.next, q.tail, n) EXCEPT ![n] = NULL],
          prev |-> [q.prev EXCEPT ![n] = q.tail]]

\* SimpleQueue::push_node
PushNode(q, n) ==
    IF q.head = NULL
    THEN PushFirst(q, n)
    ELSE [head |-> n, tail |-> q.tail, size |-> q.size + 1,
          next |-> [q.next EXCEPT ![n] = q.head],
          prev |-> [Assign(q.prev, q.head, n) EXCEPT ![n] = NULL]]

\* Mutant: popping the last node does not reset m_head.
PopNodeKeepsHead(q) ==
    IF q.tail = NULL
    THEN q
    ELSE [head |-> q.head, tail |-> q.prev[q.tail], size |-> q.size - 1,
          next |-> Assign(q.next, q.prev[q.tail], NULL),
          prev |-> q.prev]

\* SimpleQueue::pop_node; the node it returns is q.tail.
PopNode(q) ==
    IF q.tail = NULL
    THEN q
    ELSE LET last == q.prev[q.tail]
         IN  [head |-> IF last = NULL THEN NULL ELSE q.head,
              tail |-> last, size |-> q.size - 1,
              next |-> Assign(q.next, last, NULL),
              prev |-> q.prev]

\* The head branch of remove_node: the new head is found through `next'.
RemoveHead(q, n) ==
    [head |-> q.next[n],
     tail |-> IF q.next[n] = NULL THEN NULL ELSE q.tail,
     size |-> q.size - 1,
     next |-> q.next,
     prev |-> Assign(q.prev, q.next[n], NULL)]

\* Mutants: the tail stays, and the predecessor is not relinked.
RemoveTailStuck(q, n) == [q EXCEPT !.size = @ - 1]
RemoveMiddleOneWay(q, n) ==
    [q EXCEPT !.size = @ - 1, !.prev = Assign(@, q.next[n], q.prev[n])]

\* The tail branch, and the branch for a node in the middle.
RemoveTail(q, n) ==
    [head |-> q.head, tail |-> q.prev[n], size |-> q.size - 1,
     next |-> Assign(q.next, q.prev[n], NULL),
     prev |-> q.prev]
RemoveMiddle(q, n) ==
    [head |-> q.head, tail |-> q.tail, size |-> q.size - 1,
     next |-> Assign(q.next, q.prev[n], q.next[n]),
     prev |-> Assign(q.prev, q.next[n], q.prev[n])]

\* SimpleQueue::remove_node
RemoveNode(q, n) ==
    IF n = q.head THEN RemoveHead(q, n)
    ELSE IF n = q.tail THEN RemoveTail(q, n)
    ELSE RemoveMiddle(q, n)

(***************************************************************************)
(* SimpleSortedQueue::push_node scans from the head along `next' and stops *)
(* at the first node `it' for which m_sort(it->data, node->data) holds,    *)
(* that is, which is popped before the new node.  Stops is the set of the  *)
(* nodes for which it holds, on the list or not.  Visited is the set of    *)
(* the nodes that the scan looks at: the least set that holds the head and *)
(* the successor of each node that the scan does not stop at.              *)
(***************************************************************************)
ScanClosed(q, S, Stops) ==
    /\ q.head \in S
    /\ \A m \in S \ Stops : q.next[m] # NULL => q.next[m] \in S

Visited(q, Stops) ==
    {m \in DOMAIN q.next :
        \A S \in SUBSET DOMAIN q.next : ScanClosed(q, S, Stops) => m \in S}

Successor(q, Stops) ==
    LET found == Visited(q, Stops) \cap Stops
    IN  IF found = {} THEN NULL ELSE CHOOSE m \in found : TRUE

\* The loop found no successor: the node becomes the tail.
PushTail(q, n) ==
    [head |-> q.head, tail |-> n, size |-> q.size + 1,
     next |-> Assign([q.next EXCEPT ![n] = NULL], q.tail, n),
     prev |-> [q.prev EXCEPT ![n] = q.tail]]

\* The node goes between it->prev and `it'.  The code leaves the `next' of
\* it->prev alone, so that link still skips the new node.
PushBefore(q, n, it) ==
    [head |-> IF it = q.head THEN n ELSE q.head,
     tail |-> q.tail, size |-> q.size + 1,
     next |-> [q.next EXCEPT ![n] = it],
     prev |-> Assign([q.prev EXCEPT ![n] = q.prev[it]], it, n)]

\* SimpleSortedQueue::push_node
SortedPushNode(q, n, Stops) ==
    IF q.head = NULL
    THEN PushFirst(q, n)
    ELSE LET it == Successor(q, Stops)
         IN  IF it = NULL THEN PushTail(q, n) ELSE PushBefore(q, n, it)

(***************************************************************************)
(* The list as sequences, for the properties: the order in which nodes are *)
(* popped (tail first, along `prev') and the order in which an iterator    *)
(* or a sorted push sees them (head first, along `next').  At most k nodes *)
(* are followed, so that a corrupted list has a chain as well.             *)
(***************************************************************************)
Chain(link, start, k) ==
    LET Extend(c) ==
            LET n == IF c = <<>> THEN start ELSE link[c[Len(c)]]
            IN  IF n = NULL THEN c ELSE Append(c, n)
        chain[i \in 0 .. k] == IF i = 0 THEN <<>> ELSE Extend(chain[i - 1])
    IN  chain[k]

PopOrder(q, k)     == Chain(q.prev, q.tail, k)
IterateOrder(q, k) == Chain(q.next, q.head, k)
================================================================================
