------------------------------ MODULE QueueShapes ------------------------------
(***************************************************************************)
(* The shapes of lists and queues, in terms of the members, links and free *)
(* list of LinkedQueue's and AllocQueue's records: a list whose nodes are  *)
(* popped in the order of a sequence, and a queue that is such a list of   *)
(* the nodes its pool has handed out.                                      *)
(***************************************************************************)
EXTENDS AllocQueue, FreeList, Functions

\* The nodes of s are on the list, and are popped in this order: both chains
\* of links lead through them and end there.
HoldsList(l, s) ==
    /\ NoDuplicates(s)
    /\ l.size = Len(s)
    /\ l.tail = IF s = << >> THEN NULL ELSE s[1]
    /\ l.head = IF s = << >> THEN NULL ELSE s[Len(s)]
    /\ \A i \in 1 .. Len(s) :
           /\ l.prev[s[i]] = IF i = Len(s) THEN NULL ELSE s[i + 1]
           /\ l.next[s[i]] = IF i = 1 THEN NULL ELSE s[i - 1]

\* The nodes the pool has handed out.
LiveNodes(q) ==
    {n \in DOMAIN q.data : \A i \in 1 .. Len(q.free) : q.free[i] # n}

\* The queue's list holds the nodes the pool has handed out, and no other;
\* they are popped in the order of s.
HoldsQueue(q, s) ==
    /\ NoDuplicates(q.free)
    /\ s \in Seq(DOMAIN q.data)
    /\ HoldsList(q.list, s)
    /\ Range(s) = LiveNodes(q)
================================================================================
