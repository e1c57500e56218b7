------------------------------- MODULE SchedInv -------------------------------
(***************************************************************************)
(* The inductive invariant of the scheduler when no task waits on a UART,  *)
(* none ends while it sleeps, and every task goes to sleep at an end of    *)
(* the sleep queue: the push then never takes the branch of                *)
(* SimpleSortedQueue::push_node that loses a link (queue_simple.h:153-162),*)
(* and every claim the comments of sched.cpp make about the two queues is  *)
(* true.                                                                   *)
(***************************************************************************)
EXTENDS Sched, QueueShapes

\* A task that goes to sleep is to be woken after every task that sleeps, or
\* no later than any of them: it becomes the head or the tail of sleep_q.
SleepsAtEnds ==
    \A t \in Tid : state[t] # "SLEEPING" /\ state'[t] = "SLEEPING" =>
        LET asleep == {u \in Tid : state[u] = "SLEEPING"}
        IN  \/ \A u \in asleep : WakeTime(u) < WakeTime(t)'
            \/ \A u \in asleep : WakeTime(t)' <= WakeTime(u)

\* The scheduler, when its tasks do so.
EndsSpec == Spec /\ [][SleepsAtEnds]_vars

\* While at most two tasks ever sleep they cannot do otherwise.
AtMostTwoSleepers == \A a, b, c \in Sleepers : a = b \/ a = c \/ b = c

\* Which task the scheduler has called, and what it may be.
ControlInv ==
    /\ pc \in {"main", "wakeup"} => dispatched = System
    /\ pc = "run" => dispatched \in Tid /\ state[dispatched] = "ACTIVE"
    /\ pc = "suspended" =>
          dispatched \in Tid /\ state[dispatched] \in {"SLEEPING", "BLOCKED"}

ReadyInv ==
    /\ NoDuplicates(readyQ)
    /\ \A t \in Tid : readyLoc[t] <=> IsReady(t)
    /\ \A t \in Tid : IsReady(t) => state[t] = "ACTIVE" /\ dispatched # t
    /\ \A t \in Tid : state[t] = "ACTIVE" => IsReady(t) \/ dispatched = t

\* The nodes of the sleep queue, the one to be popped first.
Asleep == PopOrder(sleepQ.list, NumTasks)

\* The sleep queue is a list of all its nodes in use, and sleep_loc and these
\* nodes point at each other.
SleepInv ==
    /\ HoldsQueue(sleepQ, Asleep)
    /\ \A t \in Tid : sleepLoc[t] # NULL <=> state[t] = "SLEEPING"
    /\ \A t \in Tid : state[t] = "SLEEPING" =>
          t \in Sleepers /\ sleepLoc[t] \in LiveNodes(sleepQ)
                         /\ sleepQ.data[sleepLoc[t]] = t
    /\ \A n \in LiveNodes(sleepQ) : sleepLoc[sleepQ.data[n]] = n

\* Of two tasks on the sleep queue, the one popped first is due no later.
SortedInv ==
    \A i, j \in 1 .. Len(Asleep) :
        i <= j => WakeTime(sleepQ.data[Asleep[i]]) <= WakeTime(sleepQ.data[Asleep[j]])

SchedInvariant == TypeOK /\ ControlInv /\ ReadyInv /\ SleepInv /\ SortedInv

(***************************************************************************)
(* "a task cannot be on more than one queue at once" (sched.cpp:175, and   *)
(* :223): sched_sleep and sched_block rely on it when they take a task off *)
(* one queue and do not look at the other.                                 *)
(***************************************************************************)
IsAsleep(t) == \E i \in 1 .. Len(Asleep) : sleepQ.data[Asleep[i]] = t
OnOneQueue  == \A t \in Tid : ~(IsReady(t) /\ IsAsleep(t))

-----------------------------------------------------------------------------
(***************************************************************************)
(* What is left of it when tasks that do not sleep wait on a UART: such a  *)
(* task may be called in any state, be queued twice and take the place of  *)
(* another on the ready queue, but the sleep queue and the other tasks'    *)
(* records stay as they should.                                            *)
(***************************************************************************)
NoReaderSleeps == UartReaders \cap Sleepers = {}

OthersControlInv ==
    /\ pc \in {"main", "wakeup"} => dispatched = System
    /\ pc = "run" /\ dispatched \notin UartReaders => state[dispatched] = "ACTIVE"

\* A task that waits on no UART is on the ready queue at most once, with a
\* ready_loc that says so, and only while it is active and does not run.
OthersReadyInv ==
    \A t \in Tid \ UartReaders :
        /\ AtMostOnce(readyQ, t)
        /\ readyLoc[t] <=> IsReady(t)
        /\ IsReady(t) => state[t] = "ACTIVE" /\ dispatched # t

OthersInvariant == TypeOK /\ OthersControlInv /\ OthersReadyInv /\ SleepInv /\ SortedInv
================================================================================
