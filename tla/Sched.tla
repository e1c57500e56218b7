--------------------------------- MODULE Sched ---------------------------------
(***************************************************************************)
(* sched/sched.cpp: the cooperative scheduler.  The main loop calls        *)
(* sched_dispatch for ever; sched_dispatch moves the sleeping tasks that   *)
(* are due to the ready queue, takes the next ready task and calls its     *)
(* function, which runs until it returns.  Between its call and its return *)
(* a task starts, wakes, sleeps or blocks tasks through the macros of      *)
(* sched/macros.                                                           *)
(*                                                                         *)
(* The ready queue is a FIFO sequence of task ids: QueueClient.tla shows   *)
(* that alloc::Queue is one.  A task's ready_loc points to its last pushed *)
(* entry or is NULL, so a Boolean is enough for it.  The sleep queue is    *)
(* the alloc::SortedQueue itself, nodes, links and pool (AllocQueue.tla),  *)
(* because it does not behave like a sorted queue.                         *)
(*                                                                         *)
(* clock counts the ticks since boot and never wraps; get_time() is its    *)
(* value modulo TimeMod (2^32 in the code).                                *)
(***************************************************************************)
EXTENDS AllocQueue

CONSTANTS NumTasks,     \* MAX_NUM_TASKS
          TimeMod,      \* the number of values of the uint32_t time
          Durations,    \* the arguments tasks pass to SLEEP
          Sleepers,     \* the task ids whose functions call SLEEP
          UartReaders,  \* the task ids whose functions call HAL_UARTDevice::wait
          ErrorAsleep,  \* the task ids whose functions may return RET_ERROR
                        \* after a function they called went to SLEEP
          Horizon       \* bound: the ticks that are explored

Tid  == 0 .. NumTasks - 1
Time == 0 .. TimeMod - 1

\* sched_dispatched holds this value when no task runs.
System == NumTasks

ASSUME SchedAssumption ==
    /\ NumTasks \in Nat \ {0}
    /\ TimeMod \in Nat \ {0}
    /\ Durations \subseteq Nat
    /\ Sleepers \subseteq Tid
    /\ UartReaders \subseteq Tid
    /\ ErrorAsleep \subseteq Tid
    /\ Horizon \in Nat
    /\ NULL \notin 1 .. NumTasks

VARIABLES state,       \* tasks[t].state
          deadline,    \* the tick tasks[t] asked to be woken at
          readyLoc,    \* tasks[t].ready_loc # NULL
          sleepLoc,    \* tasks[t].sleep_loc, a node of sleepQ or NULL
          readyQ,      \* ready_q, next task first
          sleepQ,      \* sleep_q
          dispatched,  \* sched_dispatched
          pc,          \* where the main loop is
          clock        \* ticks since boot

taskVars == <<state, deadline, readyLoc, sleepLoc>>
vars == <<state, deadline, readyLoc, sleepLoc, readyQ, sleepQ, dispatched, pc,
          clock>>

States == {"UNALLOCATED", "ACTIVE", "SLEEPING", "BLOCKED"}

Init ==
    /\ state = [t \in Tid |-> "UNALLOCATED"]
    /\ deadline = [t \in Tid |-> 0]
    /\ readyLoc = [t \in Tid |-> FALSE]
    /\ sleepLoc = [t \in Tid |-> NULL]
    /\ readyQ = <<>>
    /\ sleepQ = EmptyQueue(NumTasks, 0)
    /\ dispatched = System
    /\ pc = "main"
    /\ clock = 0

-----------------------------------------------------------------------------
(* Time and the two queues. *)

\* get_time() and tasks[t].wake_time
GetTime     == clock % TimeMod
WakeTime(t) == deadline[t] % TimeMod

\* Mutant: the comparison is the wrong way round.
SleepSortLatestFirst(d) ==
    {pair \in Tid \X Tid : d[pair[2]] % TimeMod < d[pair[1]] % TimeMod}

\* sleep_sort, when the tasks' deadlines are those of d
SleepSort(d) ==
    {pair \in Tid \X Tid : d[pair[2]] % TimeMod > d[pair[1]] % TimeMod}

\* Mutants: the queue is one place short; a task is pushed at the front.
ReadyRoomShort == Len(readyQ) < NumTasks - 1
PushReadyFront(t) ==
    /\ readyQ' = IF Len(readyQ) < NumTasks THEN <<t>> \o readyQ ELSE readyQ
    /\ readyLoc' = [readyLoc EXCEPT ![t] = Len(readyQ) < NumTasks]

\* task->ready_loc = ready_q.push(task): refused when the queue is full.
ReadyRoom == Len(readyQ) < NumTasks
PushReady(t) ==
    /\ readyQ' = IF ReadyRoom THEN Append(readyQ, t) ELSE readyQ
    /\ readyLoc' = [readyLoc EXCEPT ![t] = ReadyRoom]

\* ready_q.remove(task->ready_loc): the entry of t that was pushed last.
LastEntry(t) ==
    CHOOSE i \in 1 .. Len(readyQ) :
        /\ readyQ[i] = t
        /\ \A j \in i + 1 .. Len(readyQ) : readyQ[j] # t
ReadyWithout(t) ==
    SubSeq(readyQ, 1, LastEntry(t) - 1)
        \o SubSeq(readyQ, LastEntry(t) + 1, Len(readyQ))
RemoveReady(t) ==
    /\ readyQ' = ReadyWithout(t)
    /\ readyLoc' = [readyLoc EXCEPT ![t] = FALSE]

\* Mutant: the task stays on the sleep queue.
WithSleeper(t) == sleepQ

\* sleep_q.remove(task->sleep_loc), when the task is on the sleep queue.
WithoutSleeper(t) ==
    IF sleepLoc[t] = NULL THEN sleepQ ELSE Remove(sleepQ, sleepLoc[t])

-----------------------------------------------------------------------------
(* Starting a task: sched_start, by main or by the task that runs. *)

FreeTids == {t \in Tid : state[t] = "UNALLOCATED"}

Start ==
    /\ pc \in {"main", "run"}
    /\ \E t \in FreeTids :
        /\ \A u \in FreeTids : t <= u
        /\ state' = [state EXCEPT ![t] = "ACTIVE"]
        /\ sleepLoc' = [sleepLoc EXCEPT ![t] = NULL]
        /\ PushReady(t)
    /\ UNCHANGED <<deadline, sleepQ, dispatched, pc, clock>>

-----------------------------------------------------------------------------
(* sched_dispatch. *)

Dispatch ==
    /\ pc = "main"
    /\ pc' = "wakeup"
    /\ UNCHANGED <<taskVars, readyQ, sleepQ, dispatched, clock>>

\* The task at the end of the sleep queue, and whether its time has come.
FirstSleeper == sleepQ.data[Peek(sleepQ)]
\* Mutants: a task is woken one tick late, or without looking at the time.
SleeperDueLate ==
    /\ Peek(sleepQ) # NULL
    /\ GetTime > WakeTime(FirstSleeper)
SleeperDueAlways == Peek(sleepQ) # NULL

SleeperDue ==
    /\ Peek(sleepQ) # NULL
    /\ GetTime >= WakeTime(FirstSleeper)

\* One iteration of the loop of _sched_wakeup_tasks that wakes a task.
WakeSleeper ==
    /\ pc = "wakeup"
    /\ SleeperDue
    /\ sleepQ' = Pop(sleepQ)
    /\ state' = [state EXCEPT ![FirstSleeper] = "ACTIVE"]
    /\ sleepLoc' = [sleepLoc EXCEPT ![FirstSleeper] = NULL]
    /\ PushReady(FirstSleeper)
    /\ UNCHANGED <<deadline, dispatched, pc, clock>>

\* _sched_wakeup_tasks returns and there is nothing to dispatch.
Idle ==
    /\ pc = "wakeup"
    /\ ~SleeperDue
    /\ readyQ = <<>>
    /\ dispatched' = System
    /\ pc' = "main"
    /\ UNCHANGED <<taskVars, readyQ, sleepQ, clock>>

\* _sched_wakeup_tasks returns and the next ready task is called.
CallTask ==
    /\ pc = "wakeup"
    /\ ~SleeperDue
    /\ readyQ # <<>>
    /\ readyQ' = Tail(readyQ)
    /\ readyLoc' = [readyLoc EXCEPT ![Head(readyQ)] = FALSE]
    /\ dispatched' = Head(readyQ)
    /\ pc' = "run"
    /\ UNCHANGED <<state, deadline, sleepLoc, sleepQ, clock>>

\* task->func returned RET_ERROR, perhaps because it took the RET_BLOCKED or
\* the RET_SLEEP of a function it called for an error.  Nothing else changes:
\* a task that sleeps keeps its sleep_loc and its place on the sleep queue.
ReturnError ==
    /\ pc \in {"run", "suspended"}
    /\ pc = "suspended" /\ state[dispatched] = "SLEEPING" =>
          dispatched \in ErrorAsleep
    /\ state' = [state EXCEPT ![dispatched] = "UNALLOCATED"]
    /\ dispatched' = System
    /\ pc' = "main"
    /\ UNCHANGED <<deadline, readyLoc, sleepLoc, readyQ, sleepQ, clock>>

\* task->func returned anything else: RET_YIELD, RET_SLEEP, RET_BLOCKED, ...
Return ==
    /\ pc \in {"run", "suspended"}
    /\ IF state[dispatched] = "ACTIVE"
       THEN PushReady(dispatched)
       ELSE UNCHANGED <<readyLoc, readyQ>>
    /\ dispatched' = System
    /\ pc' = "main"
    /\ UNCHANGED <<state, deadline, sleepLoc, sleepQ, clock>>
-----------------------------------------------------------------------------
(* What the task that runs does through the macros, and WAKE. *)

\* Mutant: the wake time lies before the sleep.
WakeAtPast(d) == clock - d

\* The tick at which a task that sleeps for d ticks is to be woken.
WakeAt(d) == clock + d

\* SLEEP(d): sched_sleep(sched_dispatched, d), then the task returns
\* RET_SLEEP.  sleep_sort(fst, snd) compares wake times, the new one of the
\* task that goes to sleep included.
Sleep(d) ==
    LET t == dispatched
    IN  /\ pc = "run"
        /\ t \in Sleepers
        /\ WakeAt(d) <= Horizon
        /\ IF sleepLoc[t] = NULL /\ readyLoc[t]
           THEN RemoveReady(t)
           ELSE UNCHANGED <<readyQ, readyLoc>>
        /\ state' = [state EXCEPT ![t] = "SLEEPING"]
        /\ deadline' = [deadline EXCEPT ![t] = WakeAt(d)]
        /\ sleepQ' = SortedPush(WithoutSleeper(t), t, SleepSort(deadline'))
        /\ sleepLoc' = [sleepLoc EXCEPT ![t] = NextNode(WithoutSleeper(t))]
        /\ pc' = "suspended"
        /\ UNCHANGED <<dispatched, clock>>

\* BLOCK(): sched_block(sched_dispatched), then the task returns RET_BLOCKED.
Block ==
    LET t == dispatched
    IN  /\ pc = "run"
        /\ IF readyLoc[t]
           THEN /\ RemoveReady(t)
                /\ UNCHANGED <<sleepQ, sleepLoc>>
           ELSE /\ sleepQ' = WithoutSleeper(t)
                /\ sleepLoc' = [sleepLoc EXCEPT ![t] = NULL]
                /\ UNCHANGED <<readyQ, readyLoc>>
        /\ state' = [state EXCEPT ![t] = "BLOCKED"]
        /\ pc' = "suspended"
        /\ UNCHANGED <<deadline, dispatched, clock>>

\* Mutant: the test of the task's state is missing.
WakeUnchecked(t) ==
    /\ pc \in {"main", "run"}
    /\ ~readyLoc[t]
    /\ sleepQ' = WithoutSleeper(t)
    /\ sleepLoc' = [sleepLoc EXCEPT ![t] = NULL]
    /\ PushReady(t)
    /\ state' = [state EXCEPT ![t] = "ACTIVE"]
    /\ UNCHANGED <<deadline, dispatched, pc, clock>>

\* WAKE(t): sched_wake, called by the task that runs or by the main loop.
Wake(t) ==
    /\ pc \in {"main", "run"}
    /\ state[t] \in {"BLOCKED", "SLEEPING"}
    /\ ~readyLoc[t]
    /\ sleepQ' = WithoutSleeper(t)
    /\ sleepLoc' = [sleepLoc EXCEPT ![t] = NULL]
    /\ PushReady(t)
    /\ state' = [state EXCEPT ![t] = "ACTIVE"]
    /\ UNCHANGED <<deadline, dispatched, pc, clock>>

\* HAL_UARTDevice::wait when the data is there already: the task that runs
\* calls sched_block on itself, which takes it off a queue and sets BLOCKED,
\* and sched_wake, which therefore always pushes it and sets ACTIVE; it runs
\* on.  (The place a task leaves on the ready queue is there for its push.)
UartWait ==
    LET t == dispatched
    IN  /\ pc = "run"
        /\ t \in UartReaders
        /\ IF readyLoc[t]
           THEN /\ readyQ' = Append(ReadyWithout(t), t)
                /\ UNCHANGED readyLoc
           ELSE PushReady(t)
        /\ sleepQ' = WithoutSleeper(t)
        /\ sleepLoc' = [sleepLoc EXCEPT ![t] = NULL]
        /\ state' = [state EXCEPT ![t] = "ACTIVE"]
        /\ UNCHANGED <<deadline, dispatched, pc, clock>>

Tick ==
    /\ clock < Horizon
    /\ clock' = clock + 1
    /\ UNCHANGED <<taskVars, readyQ, sleepQ, dispatched, pc>>

-----------------------------------------------------------------------------
Next ==
    \/ Start
    \/ Dispatch
    \/ WakeSleeper
    \/ Idle
    \/ CallTask
    \/ ReturnError
    \/ Return
    \/ \E d \in Durations : Sleep(d)
    \/ Block
    \/ \E t \in Tid : Wake(t)
    \/ UartWait
    \/ Tick

Spec == Init /\ [][Next]_vars

(***************************************************************************)
(* The main loop calls sched_dispatch for ever, a task function returns to *)
(* it (the tasks are cooperative), and time passes.                        *)
(***************************************************************************)
Fairness ==
    /\ WF_vars(Dispatch)
    /\ WF_vars(WakeSleeper \/ Idle \/ CallTask)
    /\ WF_vars(Return)
    /\ WF_vars(Tick)

FairSpec == Spec /\ Fairness

-----------------------------------------------------------------------------
TypeOK ==
    /\ state \in [Tid -> States]
    /\ deadline \in [Tid -> Nat]
    /\ readyLoc \in [Tid -> BOOLEAN]
    /\ sleepLoc \in [Tid -> 1 .. NumTasks \cup {NULL}]
    /\ readyQ \in Seq(Tid)
    /\ sleepQ \in QueueType(NumTasks, Tid)
    /\ dispatched \in Tid \cup {System}
    /\ pc \in {"main", "wakeup", "run", "suspended"}
    /\ clock \in Nat

\* Task t is on the ready queue.
IsReady(t) == \E i \in 1 .. Len(readyQ) : readyQ[i] = t

(***************************************************************************)
(* "we assume we never fail to place a task on the ready queue"            *)
(* (sched.cpp:83-85), because it has a place for every task: an active     *)
(* task is always on the ready queue or running, so none is forgotten.     *)
(***************************************************************************)
NoActiveTaskLost ==
    \A t \in Tid : state[t] = "ACTIVE" => IsReady(t) \/ dispatched = t

(***************************************************************************)
(* "sort by nearest wakeup time first" (sched.cpp:27): when the dispatcher *)
(* stops waking tasks, no task whose time has come still sleeps.           *)
(***************************************************************************)
NoOverdueSleeper ==
    [][pc = "wakeup" /\ pc' # "wakeup" =>
          \A t \in Tid : state[t] = "SLEEPING" => deadline[t] > clock]_vars

(***************************************************************************)
(* "sleep the currently running task for 'N' ticks" (macros/sleep.h:22):   *)
(* the dispatcher does not wake a task before its ticks have elapsed.      *)
(***************************************************************************)
NoEarlyWake ==
    [][\A t \in Tid :
          pc = "wakeup" /\ state[t] = "SLEEPING" /\ state'[t] # "SLEEPING"
             => deadline[t] <= clock]_vars

(***************************************************************************)
(* Liveness of sched_dispatch: a ready task is called, however many others *)
(* are started, woken or yield meanwhile; a task that sleeps is woken.     *)
(***************************************************************************)
ReadyTaskRuns == \A t \in Tid : IsReady(t) ~> dispatched = t
SleeperWakes  == \A t \in Tid : state[t] = "SLEEPING" ~> state[t] # "SLEEPING"

(***************************************************************************)
(* The scheduler implements Tasks: what the sleep queue, the pointers and  *)
(* the phases of the dispatcher do is invisible to the code that runs on   *)
(* it, a started or woken task is never dropped, and tasks are called in   *)
(* the order in which they became ready.                                   *)
(***************************************************************************)
Promise == INSTANCE Tasks

ImplementsTasks == Promise!TasksSpec
================================================================================
