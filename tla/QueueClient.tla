------------------------------ MODULE QueueClient ------------------------------
(***************************************************************************)
(* A client of one alloc::Queue: it pushes objects, pops and peeks, and    *)
(* removes an entry it knows to be queued with the pointer push returned,  *)
(* which is how sched.cpp uses its ready queue.                            *)
(***************************************************************************)
EXTENDS AllocQueue, Functions

CONSTANTS Room,    \* SIZE
          Object   \* the objects pushed

ASSUME QueueAssumption == Room \in Nat /\ NULL \notin 1 .. Room

Seqs == INSTANCE SequencesExt

VARIABLES q,       \* the queue
          live,    \* the pointers to entries that are still queued
          pushed,  \* the result of the last push
          peeked   \* the object the last peek returned

queueVars == <<q, live, pushed, peeked>>

QueueInit ==
    /\ q = EmptyQueue(Room, NULL)
    /\ live = {}
    /\ pushed = NULL
    /\ peeked = NULL

DoPush(obj) ==
    /\ q' = Push(q, obj)
    /\ pushed' = NextNode(q)
    /\ live' = live \cup ({NextNode(q)} \ {NULL})
    /\ UNCHANGED peeked

DoPop ==
    /\ q' = Pop(q)
    /\ live' = live \ {Peek(q)}
    /\ UNCHANGED <<pushed, peeked>>

\* Mutant: the node is returned, not what it holds.
DoPeekNode ==
    /\ peeked' = Peek(q)
    /\ UNCHANGED <<q, live, pushed>>

DoPeek ==
    /\ peeked' = IF Peek(q) = NULL THEN NULL ELSE q.data[Peek(q)]
    /\ UNCHANGED <<q, live, pushed>>

\* "if 'obj' was not allocated by the queue, bad things will happen"
DoRemove(n) ==
    /\ n \in live
    /\ q' = Remove(q, n)
    /\ live' = live \ {n}
    /\ UNCHANGED <<pushed, peeked>>

QueueNext ==
    \/ \E obj \in Object : DoPush(obj)
    \/ DoPop
    \/ DoPeek
    \/ \E n \in 1 .. Room : DoRemove(n)

QueueSystem == QueueInit /\ [][QueueNext]_queueVars

-----------------------------------------------------------------------------
QueueTypeOK ==
    /\ q \in QueueType(Room, Object \cup {NULL})
    /\ live \in SUBSET (1 .. Room)
    /\ pushed \in 1 .. Room \cup {NULL}
    /\ peeked \in Object \cup {NULL}

Popped  == PopOrder(q.list, Room + 1)
Content == LET nodes == Popped
           IN  [i \in 1 .. Len(nodes) |->
                   [at |-> nodes[i], obj |-> q.data[nodes[i]]]]

(***************************************************************************)
(* The two chains of links are the same nodes in opposite orders, the size *)
(* is their number, and the nodes that are not queued are those the pool   *)
(* can hand out: no push, pop or remove loses a node or links one twice.   *)
(***************************************************************************)
ChainsAgree ==
    LET nodes == Popped
    IN  /\ IterateOrder(q.list, Room + 1) = Seqs!Reverse(nodes)
        /\ QueueSize(q) = Len(nodes)
        /\ Range(nodes) = live
        /\ Range(q.free) = 1 .. Room \ live
        /\ Len(q.free) + Len(nodes) = Room

(***************************************************************************)
(* The queue implements FifoQueue: what is queued, read from the tail      *)
(* along `prev', is FifoQueue's content.                                   *)
(***************************************************************************)
Fifo == INSTANCE FifoQueue WITH content <- Content, Handle <- 1 .. Room, Size <- Room

ImplementsFifo == Fifo!Spec
================================================================================
