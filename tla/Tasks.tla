--------------------------------- MODULE Tasks ---------------------------------
(***************************************************************************)
(* What the scheduler promises to the code that runs on it: one task runs  *)
(* at a time and until it returns; the tasks that may run are called in    *)
(* the order in which they were started, woken or returned; a task that    *)
(* sleeps or blocks is not called before it is woken.  Sched.tla           *)
(* implements this specification as long as its queues do not fail; the    *)
(* modules of the code above the scheduler are built on it.                *)
(***************************************************************************)
EXTENDS Naturals, Sequences

CONSTANTS Tid,    \* the task ids
          System  \* what `dispatched' is when no task runs

VARIABLES state,      \* of each task
          readyQ,     \* the tasks that wait to be called, next one first
          dispatched  \* the task that runs

taskVars == <<state, readyQ, dispatched>>

TasksInit ==
    /\ state = [t \in Tid |-> "UNALLOCATED"]
    /\ readyQ = <<>>
    /\ dispatched = System

Suspended(t) == state[t] \in {"SLEEPING", "BLOCKED"}

\* Task t may run again: it was started, or something it waited for happened.
MakeReady(t) ==
    /\ state' = [state EXCEPT ![t] = "ACTIVE"]
    /\ readyQ' = Append(readyQ, t)

Start(t) ==
    /\ state[t] = "UNALLOCATED"
    /\ MakeReady(t)
    /\ UNCHANGED dispatched

Wake(t) ==
    /\ Suspended(t)
    /\ t # dispatched
    /\ MakeReady(t)
    /\ UNCHANGED dispatched

Call ==
    /\ dispatched = System
    /\ readyQ # <<>>
    /\ dispatched' = Head(readyQ)
    /\ readyQ' = Tail(readyQ)
    /\ UNCHANGED state

\* The task that runs, and may go on running.
Running(t) == dispatched = t /\ state[t] = "ACTIVE"

\* SLEEP or BLOCK; all that is left to the task is to return.
Suspend(t, s) ==
    /\ state' = [state EXCEPT ![t] = s]
    /\ UNCHANGED <<readyQ, dispatched>>

Return ==
    /\ dispatched # System
    /\ readyQ' = IF state[dispatched] = "ACTIVE"
                 THEN Append(readyQ, dispatched) ELSE readyQ
    /\ dispatched' = System
    /\ UNCHANGED state

\* The task ends, whether it is active or not, and is not called again.
ReturnError(t) ==
    /\ dispatched = t
    /\ state' = [state EXCEPT ![t] = "UNALLOCATED"]
    /\ dispatched' = System
    /\ UNCHANGED readyQ

TasksNext ==
    \/ Call
    \/ Return
    \/ \E t \in Tid :
          \/ Start(t)
          \/ Wake(t)
          \/ ReturnError(t)
          \/ \E s \in {"SLEEPING", "BLOCKED"} : Running(t) /\ Suspend(t, s)

TasksSpec == TasksInit /\ [][TasksNext]_taskVars
================================================================================
