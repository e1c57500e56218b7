------------------------------- MODULE Semaphore -------------------------------
(***************************************************************************)
(* sync/BlockingSemaphore.h, with the spin lock of sync/Semaphore.h inside *)
(* it, and the tasks that use it.  A task acquires the semaphore, waits    *)
(* elsewhere (for a device, or for time to pass) as it likes, and releases *)
(* it.  The scheduler is Tasks.                                            *)
(*                                                                         *)
(* A task that runs is interleaved with no other task, so acquire() and    *)
(* release() are one step each, up to the BLOCK() in acquire: a task that  *)
(* is woken there runs its next round of the loop as a step of its own.    *)
(***************************************************************************)
EXTENDS Tasks, FiniteSets

CONSTANTS Permits,    \* the argument of the constructor
          StrayWoken  \* the tasks that are also woken by others than release

ASSUME SemaphoreAssumption ==
    /\ IsFiniteSet(Tid)
    /\ System \notin Tid
    /\ Permits \in Nat
    /\ StrayWoken \subseteq Tid

VARIABLES count,    \* m_count
          waiters,  \* m_queue, next task first
          locked,   \* m_lock.m_val = 0
          where     \* what each task does with the semaphore

semVars == <<count, waiters, locked, where>>
vars == <<taskVars, semVars>>

Init ==
    /\ TasksInit
    /\ count = Permits
    /\ waiters = <<>>
    /\ locked = FALSE
    /\ where = [t \in Tid |-> "outside"]

\* The spin lock's acquire() returns at once.  While m_lock is held the task
\* spins, for ever because no other task runs.
LockFree == ~locked

-----------------------------------------------------------------------------
(* acquire *)

\* Mutants: a permit is taken without a look at the count; it is not counted.
TakeUnchecked(t) ==
    /\ count' = count - 1
    /\ where' = [where EXCEPT ![t] = "inside"]
    /\ UNCHANGED <<waiters, locked, taskVars>>
TakeUncounted(t) ==
    /\ count # 0
    /\ where' = [where EXCEPT ![t] = "inside"]
    /\ UNCHANGED <<count, waiters, locked, taskVars>>

Take(t) ==
    /\ count # 0
    /\ count' = count - 1
    /\ where' = [where EXCEPT ![t] = "inside"]
    /\ UNCHANGED <<waiters, locked, taskVars>>

WaitRoom == Len(waiters) < Cardinality(Tid)

\* Mutant: the task that came last is the next to be woken.
QueueUpFront(t) ==
    /\ waiters' = <<t>> \o waiters
    /\ where' = [where EXCEPT ![t] = "waiting"]
    /\ Suspend(t, "BLOCKED")
    /\ UNCHANGED <<count, locked>>

\* The task queues up and blocks.
QueueUp(t) ==
    /\ waiters' = Append(waiters, t)
    /\ where' = [where EXCEPT ![t] = "waiting"]
    /\ Suspend(t, "BLOCKED")
    /\ UNCHANGED <<count, locked>>

\* "no room on queue, uh oh": acquire fails, and m_lock is not released.
Refuse(t) ==
    /\ locked' = TRUE
    /\ where' = [where EXCEPT ![t] = "outside"]
    /\ UNCHANGED <<count, waiters, taskVars>>

WaitInLine(t) ==
    /\ count = 0
    /\ IF WaitRoom THEN QueueUp(t) ELSE Refuse(t)

\* The call of acquire(), or the next round of its loop.
Acquire(t) ==
    /\ Running(t)
    /\ where[t] \in {"outside", "waiting"}
    /\ LockFree
    /\ Take(t) \/ WaitInLine(t)

-----------------------------------------------------------------------------
(* release *)

\* Mutant: the task is taken off the wait queue and stays blocked.
WakeNobody(t) == UNCHANGED <<state, readyQ>>

\* WAKE(t), which does nothing when t is awake.
WakeIfSuspended(t) ==
    IF Suspended(t) THEN MakeReady(t) ELSE UNCHANGED <<state, readyQ>>

\* Mutants: only the first free permit wakes a task; the task that is woken
\* stays on the wait queue.
ReleaseFirstOnly(t) ==
    /\ Running(t)
    /\ where[t] = "inside"
    /\ LockFree
    /\ count' = count + 1
    /\ where' = [where EXCEPT ![t] = "outside"]
    /\ IF waiters = <<>> \/ count # 0
       THEN UNCHANGED <<waiters, state, readyQ>>
       ELSE /\ waiters' = Tail(waiters)
            /\ WakeIfSuspended(Head(waiters))
    /\ UNCHANGED <<locked, dispatched>>
ReleaseKeepsWaiter(t) ==
    /\ Running(t)
    /\ where[t] = "inside"
    /\ LockFree
    /\ count' = count + 1
    /\ where' = [where EXCEPT ![t] = "outside"]
    /\ IF waiters = <<>>
       THEN UNCHANGED <<waiters, state, readyQ>>
       ELSE /\ WakeIfSuspended(Head(waiters))
            /\ UNCHANGED waiters
    /\ UNCHANGED <<locked, dispatched>>

Release(t) ==
    /\ Running(t)
    /\ where[t] = "inside"
    /\ LockFree
    /\ count' = count + 1
    /\ where' = [where EXCEPT ![t] = "outside"]
    /\ IF waiters = <<>>
       THEN UNCHANGED <<waiters, state, readyQ>>
       ELSE /\ waiters' = Tail(waiters)
            /\ WakeIfSuspended(Head(waiters))
    /\ UNCHANGED <<locked, dispatched>>

-----------------------------------------------------------------------------
(* What the tasks and the scheduler do besides. *)

\* No task is in the middle of acquire().
BetweenCalls == dispatched # System => where[dispatched] # "waiting"

StartTask(t) ==
    /\ BetweenCalls
    /\ Start(t)
    /\ UNCHANGED semVars

CallTask == Call /\ UNCHANGED semVars

ReturnTask ==
    /\ dispatched # System
    /\ where[dispatched] = "waiting" => state[dispatched] = "BLOCKED"
    /\ Return
    /\ UNCHANGED semVars

\* A task ends, suspended or not, only when it neither holds the semaphore nor
\* waits for it.  (The callbacks of the C drivers, which take RET_BLOCKED for
\* an error, would let it end there; L3GD20H.h:866.)
EndTask(t) ==
    /\ where[t] = "outside"
    /\ ReturnError(t)
    /\ UNCHANGED semVars

WaitElsewhere(t, s) ==
    /\ Running(t)
    /\ where[t] # "waiting"
    /\ Suspend(t, s)
    /\ UNCHANGED semVars

\* The dispatcher, another task or a device's poll wakes a task.
WakeElsewhere(t) ==
    /\ BetweenCalls
    /\ where[t] # "waiting" \/ t \in StrayWoken
    /\ Wake(t)
    /\ UNCHANGED semVars

-----------------------------------------------------------------------------
Next ==
    \/ CallTask
    \/ ReturnTask
    \/ \E t \in Tid :
          \/ Acquire(t)
          \/ Release(t)
          \/ StartTask(t)
          \/ EndTask(t)
          \/ \E s \in {"SLEEPING", "BLOCKED"} : WaitElsewhere(t, s)
          \/ WakeElsewhere(t)

Spec == Init /\ [][Next]_vars

(***************************************************************************)
(* The main loop calls the tasks, which return; a task that runs in        *)
(* acquire() goes on; a task that holds the semaphore is woken from what   *)
(* it waits for (its transfer ends or times out), and releases the         *)
(* semaphore some day, though it may run and return many times before.     *)
(***************************************************************************)
Fairness ==
    /\ WF_vars(CallTask)
    /\ WF_vars(ReturnTask)
    /\ \A t \in Tid :
          /\ WF_vars(where[t] = "waiting" /\ Acquire(t))
          /\ WF_vars(where[t] = "inside" /\ WakeElsewhere(t))
          /\ SF_vars(Release(t))

FairSpec == Spec /\ Fairness

-----------------------------------------------------------------------------
TaskStates == {"UNALLOCATED", "ACTIVE", "SLEEPING", "BLOCKED"}

TypeOK ==
    /\ state \in [Tid -> TaskStates]
    /\ readyQ \in Seq(Tid)
    /\ dispatched \in Tid \cup {System}
    /\ count \in Nat
    /\ waiters \in Seq(Tid)
    /\ locked \in BOOLEAN
    /\ where \in [Tid -> {"outside", "waiting", "inside"}]

Holders == {t \in Tid : where[t] = "inside"}
Queued(t) == \E i \in 1 .. Len(waiters) : waiters[i] = t

\* The tasks that were woken in acquire() and have not looked at m_count yet.
Woken == {t \in Tid : where[t] = "waiting" /\ state[t] = "ACTIVE"}

(***************************************************************************)
(* "we can obtain now" (BlockingSemaphore.h:64): no permit is lost or      *)
(* invented on the way from one task to another, so no more tasks hold the *)
(* semaphore at once than its constructor was told.                        *)
(***************************************************************************)
PermitsConserved == count + Cardinality(Holders) = Permits

(***************************************************************************)
(* "queue of waiting tasks" (BlockingSemaphore.h:77): the queue holds the  *)
(* tasks that are blocked in acquire(), each once.                         *)
(***************************************************************************)
WaitersExact ==
    /\ \A i, j \in 1 .. Len(waiters) : waiters[i] = waiters[j] => i = j
    /\ \A t \in Tid : Queued(t) <=> where[t] = "waiting" /\ state[t] = "BLOCKED"
    /\ \A t \in Tid : where[t] = "waiting" => state[t] \in {"ACTIVE", "BLOCKED"}

(***************************************************************************)
(* "unblock the next task waiting, if there is one" (:33): while tasks     *)
(* wait, each free permit has a task on its way to take it.                *)
(***************************************************************************)
NoLostWakeup == waiters # <<>> => count <= Cardinality(Woken)

(***************************************************************************)
(* acquire() never finds its wait queue full (:56-59), after which m_lock  *)
(* would be held and every call of acquire() and release() spin for ever.  *)
(***************************************************************************)
LockNeverKept == ~locked

(***************************************************************************)
(* Liveness of release(): a task that is blocked in acquire() is woken,    *)
(* however many others acquire and release the semaphore in between.       *)
(***************************************************************************)
WaiterWoken ==
    \A t \in Tid :
        where[t] = "waiting" /\ state[t] = "BLOCKED" ~> state[t] # "BLOCKED"

(***************************************************************************)
(* "release the lock so the next waiter can use the device"                *)
(* (HAL_I2CDevice.h:128): a task that waits for the semaphore gets it.     *)
(***************************************************************************)
NextWaiterAcquires == \A t \in Tid : where[t] = "waiting" ~> where[t] = "inside"
================================================================================
