----------------------------- MODULE MCPrimitives -----------------------------
(***************************************************************************)
(* The primitives under the scheduler and the drivers, checked side by     *)
(* side: a pool of three objects, a queue of three nodes with two distinct *)
(* objects, and a semaphore of two permits with four tasks.  The part      *)
(* chosen at the start moves and the others rest, so that the behaviours   *)
(* of each are those of its own specification.                             *)
(***************************************************************************)
EXTENDS Pool, QueueClient, Semaphore

CONSTANTS other,            \* an object of another pool
          t1, t2, t3, t4

MCForeign == {other}
Nobody    == {}

VARIABLE part
primVars == <<part, poolVars, queueVars, vars>>

PrimInit ==
    /\ part \in {"pool", "queue", "semaphore"}
    /\ PoolInit /\ QueueInit /\ Init

PrimNext ==
    /\ UNCHANGED part
    /\ \/ part = "pool" /\ PoolNext /\ UNCHANGED <<queueVars, vars>>
       \/ part = "queue" /\ QueueNext /\ UNCHANGED <<poolVars, vars>>
       \/ part = "semaphore" /\ Next /\ UNCHANGED <<poolVars, queueVars>>

\* No task is ready in a semaphore that rests, and none waits: its fairness
\* asks nothing of the other parts.
PrimSpec == PrimInit /\ [][PrimNext]_primVars /\ Fairness
===============================================================================
