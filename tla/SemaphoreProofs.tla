---------------------------- MODULE SemaphoreProofs ----------------------------
(***************************************************************************)
(* The semaphore, and the bus drivers that use one as their lock.          *)
(*                                                                         *)
(* The semaphore keeps its promises for every number of tasks and permits, *)
(* as long as only release() wakes the tasks that wait in acquire().       *)
(* MCSemaphoreStray shows that this condition cannot be dropped.           *)
(*                                                                         *)
(* The drivers, for any number of tasks that share a bus, use the lock as  *)
(* the semaphore expects it, the poll wakes only a task that waits for the *)
(* bus, and a reported success is one.  The lock has one permit, as the    *)
(* drivers construct it.                                                   *)
(***************************************************************************)
EXTENDS Bus, SeqLemmas, FiniteSetTheorems

SemaphoreInvariant ==
    TypeOK /\ PermitsConserved /\ WaitersExact /\ NoLostWakeup /\ LockNeverKept

-----------------------------------------------------------------------------
(* The tasks: what a step of the scheduler keeps. *)

TasksType ==
    /\ state \in [Tid -> TaskStates]
    /\ readyQ \in Seq(Tid)
    /\ dispatched \in Tid \cup {System}

\* MakeReady is typed.
LEMMA MakeReadyType ==
    ASSUME TasksType, NEW t \in Tid, MakeReady(t), UNCHANGED dispatched
    PROVE  TasksType'
<1>1. readyQ' \in Seq(Tid)
    BY AppendProperties DEF TasksType, MakeReady
<1>2. state' \in [Tid -> TaskStates]
    BY DEF TasksType, MakeReady, TaskStates
<1>3. QED
    BY <1>1, <1>2 DEF TasksType

\* The steps of the scheduler that the semaphore does not see: its tasks that
\* wait in acquire() keep their states.
LEMMA SchedulerStep ==
    ASSUME TypeOK, WaitersExact, StrayWoken = {},
           \/ CallTask
           \/ ReturnTask
           \/ \E t \in Tid : \/ StartTask(t)
                             \/ EndTask(t)
                             \/ \E s \in {"SLEEPING", "BLOCKED"} : WaitElsewhere(t, s)
                             \/ WakeElsewhere(t)
    PROVE  /\ TasksType'
           /\ UNCHANGED semVars
           /\ \A u \in Tid : where[u] = "waiting" => state'[u] = state[u]
<1> DEFINE Kept == \A u \in Tid : where[u] = "waiting" => state'[u] = state[u]
<1>types. TasksType
    BY DEF TypeOK, TasksType
<1>waiting. \A u \in Tid : where[u] = "waiting" => state[u] \in {"ACTIVE", "BLOCKED"}
    BY DEF WaitersExact
<1>1. CASE CallTask
  <2>1. readyQ \in Seq(Tid) /\ readyQ # <<>>
      BY <1>1, <1>types DEF CallTask, Call, TasksType
  <2>2. Head(readyQ) \in Tid /\ Tail(readyQ) \in Seq(Tid)
      BY <2>1, HeadTailProperties
  <2>3. QED
      BY <1>1, <1>types, <2>2 DEF CallTask, Call, TasksType
<1>2. CASE ReturnTask
  <2>1. /\ dispatched \in Tid
        /\ dispatched' = System
        /\ readyQ' \in {Append(readyQ, dispatched), readyQ}
        /\ UNCHANGED <<state, semVars>>
      BY <1>2, <1>types DEF ReturnTask, Return, TasksType
  <2>2. readyQ' \in Seq(Tid)
      BY <1>types, <2>1, AppendProperties DEF TasksType
  <2>3. QED
      BY <1>types, <2>1, <2>2 DEF TasksType
<1>3. ASSUME NEW t \in Tid, StartTask(t)
      PROVE  TasksType' /\ UNCHANGED semVars /\ Kept
  <2>1. /\ state[t] = "UNALLOCATED"
        /\ MakeReady(t)
        /\ UNCHANGED <<dispatched, semVars>>
      BY <1>3 DEF StartTask, Start
  <2>2. TasksType'
      BY <1>types, <2>1, MakeReadyType
  <2>3. Kept
      BY <1>types, <1>waiting, <2>1 DEF MakeReady, TasksType
  <2>4. QED
      BY <2>1, <2>2, <2>3
<1>4. ASSUME NEW t \in Tid, EndTask(t)
      PROVE  TasksType' /\ UNCHANGED semVars /\ Kept
  <2>1. /\ where[t] = "outside"
        /\ state' = [state EXCEPT ![t] = "UNALLOCATED"]
        /\ dispatched' = System
        /\ UNCHANGED <<readyQ, semVars>>
      BY <1>4 DEF EndTask, ReturnError
  <2>2. QED
      BY <1>types, <2>1 DEF TasksType, TaskStates
<1>5. ASSUME NEW t \in Tid, NEW s \in {"SLEEPING", "BLOCKED"}, WaitElsewhere(t, s)
      PROVE  TasksType' /\ UNCHANGED semVars /\ Kept
  <2>1. /\ where[t] # "waiting"
        /\ state' = [state EXCEPT ![t] = s]
        /\ UNCHANGED <<readyQ, dispatched, semVars>>
      BY <1>5 DEF WaitElsewhere, Suspend
  <2>2. QED
      BY <1>types, <2>1 DEF TasksType, TaskStates
<1>6. ASSUME NEW t \in Tid, WakeElsewhere(t)
      PROVE  TasksType' /\ UNCHANGED semVars /\ Kept
  <2>1. /\ where[t] # "waiting"
        /\ MakeReady(t)
        /\ UNCHANGED <<dispatched, semVars>>
      BY <1>6 DEF WakeElsewhere, Wake
  <2>2. TasksType'
      BY <1>types, <2>1, MakeReadyType
  <2>3. Kept
      BY <1>types, <2>1 DEF MakeReady, TasksType
  <2>4. QED
      BY <2>1, <2>2, <2>3
<1>7. QED
    BY <1>1, <1>2, <1>3, <1>4, <1>5, <1>6

-----------------------------------------------------------------------------
(* The sets of tasks that the invariant counts. *)

LEMMA SetsFinite ==
    /\ IsFiniteSet(Holders) /\ Cardinality(Holders) \in Nat
    /\ IsFiniteSet(Woken) /\ Cardinality(Woken) \in Nat
<1>1. IsFiniteSet(Tid) /\ Holders \in SUBSET Tid /\ Woken \in SUBSET Tid
    BY SemaphoreAssumption DEF Holders, Woken
<1>2. IsFiniteSet(Holders) /\ IsFiniteSet(Woken)
    BY <1>1, FS_Subset
<1>3. QED
    BY <1>2, FS_CardinalityType

\* A task that is not on the wait queue finds room there.
LEMMA RoomToWait ==
    ASSUME TypeOK, WaitersExact, NEW t \in Tid, ~Queued(t)
    PROVE  WaitRoom
<1> DEFINE S == 1 .. Len(waiters)
           T == Tid \ {t}
<1>1. waiters \in Seq(Tid) /\ Len(waiters) \in Nat
    BY LenProperties DEF TypeOK
<1>2. waiters \in [S -> T]
  <2>1. waiters \in [S -> Tid]
      BY <1>1, LenProperties
  <2>2. \A i \in S : waiters[i] # t
      BY DEF Queued
  <2>3. QED
      BY <2>1, <2>2
<1>3. IsFiniteSet(S) /\ Cardinality(S) = Len(waiters)
  <2>1. 1 \in Int /\ Len(waiters) \in Int
      BY <1>1
  <2>2. /\ IsFiniteSet(S)
        /\ Cardinality(S) = IF 1 > Len(waiters) THEN 0 ELSE Len(waiters) - 1 + 1
      BY <2>1, FS_Interval
  <2> HIDE DEF S
  <2>3. QED
      BY <1>1, <2>2
<1>4. /\ IsFiniteSet(Tid)
      /\ Cardinality(Tid) \in Nat
      /\ IsFiniteSet(T)
      /\ Cardinality(T) = Cardinality(Tid) - 1
    BY SemaphoreAssumption, FS_CardinalityType, FS_RemoveElement
<1>5. SUFFICES ASSUME ~(Len(waiters) < Cardinality(Tid))
               PROVE  FALSE
    BY DEF WaitRoom
<1>6. Cardinality(T) < Cardinality(S)
    BY <1>1, <1>3, <1>4, <1>5
<1> HIDE DEF S, T
<1>7. \E x, y \in S : x # y /\ waiters[x] = waiters[y]
    BY <1>2, <1>3, <1>4, <1>6, FS_PigeonHole
<1>8. QED
    BY <1>7 DEF WaitersExact, S

-----------------------------------------------------------------------------
(* acquire and release. *)

\* A task finds a permit.
LEMMA TakeKeeps ==
    ASSUME SemaphoreInvariant, NEW t \in Tid, Running(t),
           where[t] \in {"outside", "waiting"}, Take(t)
    PROVE  SemaphoreInvariant'
<1>1. TypeOK /\ PermitsConserved /\ WaitersExact /\ NoLostWakeup /\ ~locked
    BY DEF SemaphoreInvariant, LockNeverKept
<1>2. /\ count \in Nat \ {0}
      /\ count' = count - 1
      /\ where' = [where EXCEPT ![t] = "inside"]
      /\ where \in [Tid -> {"outside", "waiting", "inside"}]
      /\ state[t] = "ACTIVE"
      /\ UNCHANGED <<waiters, locked, state, readyQ, dispatched>>
    BY <1>1 DEF Take, taskVars, TypeOK, Running
<1>3. TypeOK'
    BY <1>1, <1>2 DEF TypeOK
<1>4. PermitsConserved'
  <2>1. Holders' = Holders \cup {t} /\ t \notin Holders
      BY <1>2 DEF Holders
  <2>2. Cardinality(Holders') = Cardinality(Holders) + 1
      BY <2>1, SetsFinite, FS_AddElement
  <2>3. QED
      BY <1>1, <1>2, <2>2, SetsFinite DEF PermitsConserved
<1>5. WaitersExact'
    BY <1>1, <1>2 DEF WaitersExact, Queued
<1>6. NoLostWakeup'
  <2>1. Woken' = Woken \ {t}
      BY <1>2 DEF Woken
  <2>2. Cardinality(Woken') >= Cardinality(Woken) - 1
    <3>1. Cardinality(Woken \ {t}) =
              IF t \in Woken THEN Cardinality(Woken) - 1 ELSE Cardinality(Woken)
        BY SetsFinite, FS_RemoveElement
    <3>2. Cardinality(Woken) \in Nat
        BY SetsFinite
    <3>3. QED
        BY <2>1, <3>1, <3>2
  <2>3. Cardinality(Woken') \in Nat
    <3>1. IsFiniteSet(Woken')
        BY <2>1, SetsFinite, FS_RemoveElement
    <3>2. QED
        BY <3>1, FS_CardinalityType
  <2>4. QED
      BY <1>1, <1>2, <2>2, <2>3, SetsFinite DEF NoLostWakeup
<1>7. QED
    BY <1>1, <1>2, <1>3, <1>4, <1>5, <1>6 DEF SemaphoreInvariant, LockNeverKept

\* A task finds none, and waits.
LEMMA WaitInLineKeeps ==
    ASSUME SemaphoreInvariant, NEW t \in Tid, Running(t),
           where[t] \in {"outside", "waiting"}, WaitInLine(t)
    PROVE  SemaphoreInvariant'
<1>1. TypeOK /\ PermitsConserved /\ WaitersExact /\ NoLostWakeup /\ ~locked
    BY DEF SemaphoreInvariant, LockNeverKept
<1>2. state[t] = "ACTIVE" /\ ~Queued(t)
    BY <1>1 DEF Running, WaitersExact
<1>3. QueueUp(t) /\ count = 0
  <2>1. WaitRoom
      BY <1>1, <1>2, RoomToWait
  <2>2. WaitRoom = TRUE
      BY <2>1 DEF WaitRoom
  <2>3. QED
      BY <2>2 DEF WaitInLine
<1>4. /\ waiters' = Append(waiters, t)
      /\ where' = [where EXCEPT ![t] = "waiting"]
      /\ state' = [state EXCEPT ![t] = "BLOCKED"]
      /\ waiters \in Seq(Tid)
      /\ where \in [Tid -> {"outside", "waiting", "inside"}]
      /\ state \in [Tid -> TaskStates]
      /\ UNCHANGED <<count, locked, readyQ, dispatched>>
    BY <1>1, <1>3 DEF QueueUp, Suspend, TypeOK
<1>5. TypeOK'
  <2>1. waiters' \in Seq(Tid)
      BY <1>4, AppendProperties
  <2>2. QED
      BY <1>1, <1>4, <2>1 DEF TypeOK, TaskStates
<1>6. PermitsConserved'
  <2>1. Holders' = Holders
      BY <1>4 DEF Holders
  <2>2. QED
      BY <1>1, <1>4, <2>1 DEF PermitsConserved
<1>7. WaitersExact'
  <2>1. /\ NoDuplicates(waiters')
        /\ \A u \in Tid : (\A i \in 1 .. Len(waiters') : waiters'[i] # u)
               <=> u # t /\ (\A i \in 1 .. Len(waiters) : waiters[i] # u)
    <3>1. NoDuplicates(waiters) /\ \A i \in 1 .. Len(waiters) : waiters[i] # t
        BY <1>1, <1>2 DEF NoDuplicates, WaitersExact, Queued
    <3>2. QED
        BY <1>4, <3>1, GiveFree
  <2>2. \A u \in Tid : Queued(u)' <=> u = t \/ Queued(u)
      BY <2>1 DEF Queued
  <2>3. \A u \in Tid : Queued(u)' <=> where'[u] = "waiting" /\ state'[u] = "BLOCKED"
      BY <1>1, <1>4, <2>2 DEF WaitersExact
  <2>4. \A u \in Tid : where'[u] = "waiting" => state'[u] \in {"ACTIVE", "BLOCKED"}
      BY <1>1, <1>4 DEF WaitersExact
  <2>5. QED
      BY <2>1, <2>3, <2>4 DEF WaitersExact, NoDuplicates
<1>8. NoLostWakeup'
  <2>1. Woken' = Woken \ {t}
      BY <1>4 DEF Woken
  <2>2. IsFiniteSet(Woken')
      BY <2>1, SetsFinite, FS_RemoveElement
  <2>3. Cardinality(Woken') \in Nat
      BY <2>2, FS_CardinalityType
  <2>4. count' = 0
      BY <1>3, <1>4
  <2>5. QED
      BY <2>3, <2>4 DEF NoLostWakeup
<1>9. QED
    BY <1>1, <1>4, <1>5, <1>6, <1>7, <1>8 DEF SemaphoreInvariant, LockNeverKept

\* A permit is given back, and the first waiter is woken.
LEMMA ReleaseKeeps ==
    ASSUME SemaphoreInvariant, NEW t \in Tid, Release(t)
    PROVE  SemaphoreInvariant'
<1>1. TypeOK /\ PermitsConserved /\ WaitersExact /\ NoLostWakeup /\ ~locked
    BY DEF SemaphoreInvariant, LockNeverKept
<1>2. /\ where[t] = "inside"
      /\ count' = count + 1
      /\ where' = [where EXCEPT ![t] = "outside"]
      /\ count \in Nat
      /\ waiters \in Seq(Tid)
      /\ where \in [Tid -> {"outside", "waiting", "inside"}]
      /\ state \in [Tid -> TaskStates]
      /\ UNCHANGED <<locked, dispatched>>
    BY <1>1 DEF Release, TypeOK
<1>3. PermitsConserved'
  <2>1. Holders' = Holders \ {t} /\ t \in Holders
      BY <1>2 DEF Holders
  <2>2. Cardinality(Holders') = Cardinality(Holders) - 1
      BY <2>1, SetsFinite, FS_RemoveElement
  <2>3. QED
      BY <1>1, <1>2, <2>2, SetsFinite DEF PermitsConserved
<1>4. CASE waiters = <<>>
  <2>1. UNCHANGED <<waiters, state, readyQ>>
      BY <1>4 DEF Release
  <2>2. TypeOK'
      BY <1>1, <1>2, <2>1 DEF TypeOK
  <2>3. WaitersExact'
      BY <1>1, <1>2, <2>1 DEF WaitersExact, Queued
  <2>4. NoLostWakeup'
      BY <1>4, <2>1 DEF NoLostWakeup
  <2>5. QED
      BY <1>1, <1>2, <1>3, <2>2, <2>3, <2>4 DEF SemaphoreInvariant, LockNeverKept
<1>5. CASE waiters # <<>>
  <2> DEFINE h == Head(waiters)
  <2>1. waiters' = Tail(waiters) /\ WakeIfSuspended(h)
      BY <1>5 DEF Release
  <2>2. /\ h \in Tid
        /\ h = waiters[1]
        /\ 1 \in 1 .. Len(waiters)
        /\ waiters' \in Seq(Tid)
      BY <1>2, <1>5, <2>1, HeadTailProperties, LenProperties, EmptySeq
  <2>3. where[h] = "waiting" /\ state[h] = "BLOCKED"
    <3>1. Queued(h)
        BY <2>2 DEF Queued
    <3>2. QED
        BY <1>1, <2>2, <3>1 DEF WaitersExact
  <2>4. MakeReady(h)
      BY <2>1, <2>3 DEF WakeIfSuspended, Suspended
  <2>5. TypeOK'
    <3>1. TasksType'
        BY <1>1, <1>2, <2>2, <2>4, MakeReadyType DEF TypeOK, TasksType
    <3>2. count' \in Nat /\ locked' \in BOOLEAN
        BY <1>1, <1>2 DEF TypeOK
    <3>3. where' \in [Tid -> {"outside", "waiting", "inside"}]
        BY <1>2
    <3>4. QED
        BY <2>2, <3>1, <3>2, <3>3 DEF TypeOK, TasksType
  <2>6. /\ NoDuplicates(waiters')
        /\ \A u \in Tid : (\A i \in 1 .. Len(waiters') : waiters'[i] # u)
               <=> u = h \/ (\A i \in 1 .. Len(waiters) : waiters[i] # u)
    <3>1. NoDuplicates(waiters)
        BY <1>1 DEF WaitersExact, NoDuplicates
    <3>2. QED
        BY <1>2, <1>5, <2>1, <3>1, TakeFree
  <2> HIDE DEF h
  <2>7. state' = [state EXCEPT ![h] = "ACTIVE"]
      BY <2>4 DEF MakeReady
  <2>8. WaitersExact'
    <3>1. \A u \in Tid : Queued(u)' <=> u # h /\ Queued(u)
        BY <2>6 DEF Queued
    <3>2. \A u \in Tid : Queued(u)' <=> where'[u] = "waiting" /\ state'[u] = "BLOCKED"
        BY <1>1, <1>2, <2>2, <2>7, <3>1 DEF WaitersExact
    <3>3. \A u \in Tid : where'[u] = "waiting" => state'[u] \in {"ACTIVE", "BLOCKED"}
        BY <1>1, <1>2, <2>7 DEF WaitersExact
    <3>4. QED
        BY <2>6, <3>2, <3>3 DEF WaitersExact, NoDuplicates
  <2>9. NoLostWakeup'
    <3>1. Woken' = Woken \cup {h} /\ h \notin Woken
        BY <1>2, <2>2, <2>3, <2>7 DEF Woken
    <3>2. Cardinality(Woken') = Cardinality(Woken) + 1
        BY <3>1, SetsFinite, FS_AddElement
    <3>3. count <= Cardinality(Woken)
        BY <1>1, <1>5 DEF NoLostWakeup
    <3>4. QED
        BY <1>2, <3>2, <3>3, SetsFinite DEF NoLostWakeup
  <2>10. QED
      BY <1>1, <1>2, <1>3, <2>5, <2>8, <2>9 DEF SemaphoreInvariant, LockNeverKept
<1>6. QED
    BY <1>4, <1>5

-----------------------------------------------------------------------------
(* The theorems. *)

LEMMA InvariantInit == Init => SemaphoreInvariant
<1> SUFFICES ASSUME Init PROVE SemaphoreInvariant
    OBVIOUS
<1>1. TypeOK
  <2>1. <<>> \in Seq(Tid)
      BY EmptySeq
  <2>2. QED
      BY <2>1, SemaphoreAssumption DEF Init, TasksInit, TypeOK, TaskStates
<1>2. PermitsConserved
  <2>1. Holders = {}
      BY DEF Init, Holders
  <2>2. QED
      BY <2>1, FS_EmptySet, SemaphoreAssumption DEF Init, PermitsConserved
<1>3. WaitersExact /\ NoLostWakeup /\ LockNeverKept
  <2>1. waiters = <<>> /\ Len(<<>>) = 0
      BY DEF Init
  <2>2. QED
      BY <2>1 DEF Init, TasksInit, WaitersExact, Queued, NoLostWakeup, LockNeverKept
<1>4. QED
    BY <1>1, <1>2, <1>3 DEF SemaphoreInvariant

LEMMA InvariantNext ==
    ASSUME StrayWoken = {}, SemaphoreInvariant, [Next]_vars
    PROVE  SemaphoreInvariant'
<1>1. ASSUME NEW t \in Tid, Acquire(t)
      PROVE  SemaphoreInvariant'
    BY <1>1, TakeKeeps, WaitInLineKeeps DEF Acquire
<1>2. ASSUME NEW t \in Tid, Release(t)
      PROVE  SemaphoreInvariant'
    BY <1>2, ReleaseKeeps
<1>3. ASSUME TasksType', UNCHANGED semVars,
             \A u \in Tid : where[u] = "waiting" => state'[u] = state[u]
      PROVE  SemaphoreInvariant'
  <2>1. /\ TypeOK /\ PermitsConserved /\ WaitersExact /\ NoLostWakeup /\ LockNeverKept
        /\ UNCHANGED <<count, waiters, locked, where>>
      BY <1>3 DEF SemaphoreInvariant, semVars
  <2>2. TypeOK'
      BY <1>3, <2>1 DEF TypeOK, TasksType
  <2>3. WaitersExact'
      BY <1>3, <2>1 DEF WaitersExact, Queued
  <2>4. Holders' = Holders /\ Woken' = Woken
      BY <1>3, <2>1 DEF Holders, Woken
  <2>5. PermitsConserved' /\ NoLostWakeup' /\ LockNeverKept'
      BY <2>1, <2>4 DEF PermitsConserved, NoLostWakeup, LockNeverKept
  <2>6. QED
      BY <2>2, <2>3, <2>5 DEF SemaphoreInvariant
<1>4. CASE UNCHANGED vars
  <2>1. TasksType' /\ UNCHANGED <<semVars, state>>
      BY <1>4 DEF vars, taskVars, semVars, SemaphoreInvariant, TypeOK, TasksType
  <2>2. QED
      BY <1>3, <2>1
<1>5. CASE \/ CallTask
           \/ ReturnTask
           \/ \E t \in Tid : \/ StartTask(t)
                             \/ EndTask(t)
                             \/ \E s \in {"SLEEPING", "BLOCKED"} : WaitElsewhere(t, s)
                             \/ WakeElsewhere(t)
  <2>1. TypeOK /\ WaitersExact
      BY DEF SemaphoreInvariant
  <2>2. QED
      BY <1>3, <1>5, <2>1, SchedulerStep
<1>6. QED
    BY <1>1, <1>2, <1>4, <1>5 DEF Next

\* As long as only release() wakes the tasks that wait in acquire(), the
\* invariant always holds.
THEOREM InvariantHolds ==
    ASSUME StrayWoken = {}
    PROVE  Spec => []SemaphoreInvariant
<1>1. Init => SemaphoreInvariant
    BY InvariantInit
<1>2. SemaphoreInvariant /\ [Next]_vars => SemaphoreInvariant'
    BY InvariantNext
<1>3. QED
    BY <1>1, <1>2, PTL DEF Spec

\* Every variable of the semaphore and its tasks keeps its type
\* (BlockingSemaphore.h:73): in particular the count never goes below 0.
THEOREM SemaphoreTyped ==
    ASSUME StrayWoken = {}
    PROVE  Spec => []TypeOK
<1>1. SemaphoreInvariant => TypeOK
    BY DEF SemaphoreInvariant
<1>2. QED
    BY <1>1, InvariantHolds, PTL

\* "queue of waiting tasks" (BlockingSemaphore.h:77): the queue then holds the
\* tasks that are blocked in acquire(), each once.
THEOREM WaitersAlwaysExact ==
    ASSUME StrayWoken = {}
    PROVE  Spec => []WaitersExact
<1>1. SemaphoreInvariant => WaitersExact
    BY DEF SemaphoreInvariant
<1>2. QED
    BY <1>1, InvariantHolds, PTL

\* "unblock the next task waiting, if there is one" (BlockingSemaphore.h:33):
\* no wake-up is lost, for any number of tasks and permits.
THEOREM NoWakeupLost ==
    ASSUME StrayWoken = {}
    PROVE  Spec => []NoLostWakeup
<1>1. SemaphoreInvariant => NoLostWakeup
    BY DEF SemaphoreInvariant
<1>2. QED
    BY <1>1, InvariantHolds, PTL

\* acquire() never runs into the full wait queue of BlockingSemaphore.h:56, so
\* m_lock is always given back.
THEOREM LockAlwaysFree ==
    ASSUME StrayWoken = {}
    PROVE  Spec => []LockNeverKept
<1>1. SemaphoreInvariant => LockNeverKept
    BY DEF SemaphoreInvariant
<1>2. QED
    BY <1>1, InvariantHolds, PTL

-----------------------------------------------------------------------------
(* Permits, whoever wakes the tasks. *)

CountInv ==
    /\ count \in Nat
    /\ where \in [Tid -> {"outside", "waiting", "inside"}]
    /\ PermitsConserved

\* "we can obtain now" (BlockingSemaphore.h:64): as many tasks hold the
\* semaphore as permits are taken, also when tasks are woken that should not
\* be, and when m_lock is never released again.
THEOREM PermitsAlwaysConserved == Spec => []PermitsConserved
<1>1. Init => CountInv
  <2> SUFFICES ASSUME Init PROVE CountInv
      OBVIOUS
  <2>1. Holders = {}
      BY DEF Init, Holders
  <2>2. QED
      BY <2>1, FS_EmptySet, SemaphoreAssumption DEF Init, CountInv, PermitsConserved
<1>2. CountInv /\ [Next]_vars => CountInv'
  <2> SUFFICES ASSUME CountInv, [Next]_vars PROVE CountInv'
      OBVIOUS
  <2>1. ASSUME NEW t \in Tid, NEW at \in {"outside", "waiting"},
               where' = [where EXCEPT ![t] = at], where[t] # "inside",
               UNCHANGED count
        PROVE  CountInv'
    <3>1. Holders' = Holders
        BY <2>1 DEF CountInv, Holders
    <3>2. QED
        BY <2>1, <3>1 DEF CountInv, PermitsConserved
  <2>2. ASSUME NEW t \in Tid, Acquire(t)
        PROVE  CountInv'
    <3>1. where[t] # "inside"
        BY <2>2 DEF Acquire
    <3>2. CASE Take(t)
      <4>1. Holders' = Holders \cup {t} /\ t \notin Holders
          BY <3>1, <3>2 DEF Take, CountInv, Holders
      <4>2. Cardinality(Holders') = Cardinality(Holders) + 1
          BY <4>1, SetsFinite, FS_AddElement
      <4>3. QED
          BY <3>2, <4>2, SetsFinite DEF Take, CountInv, PermitsConserved
    <3>3. CASE WaitInLine(t)
      <4>1. UNCHANGED count /\ \E at \in {"outside", "waiting"} :
                                  where' = [where EXCEPT ![t] = at]
          BY <3>3 DEF WaitInLine, QueueUp, Refuse
      <4>2. QED
          BY <2>1, <3>1, <4>1
    <3>4. QED
        BY <2>2, <3>2, <3>3 DEF Acquire
  <2>3. ASSUME NEW t \in Tid, Release(t)
        PROVE  CountInv'
    <3>1. Holders' = Holders \ {t} /\ t \in Holders
        BY <2>3 DEF Release, CountInv, Holders
    <3>2. Cardinality(Holders') = Cardinality(Holders) - 1
        BY <3>1, SetsFinite, FS_RemoveElement
    <3>3. QED
        BY <2>3, <3>2, SetsFinite DEF Release, CountInv, PermitsConserved
  <2>4. CASE ~ \E t \in Tid : Acquire(t) \/ Release(t)
    <3>1. UNCHANGED <<count, where>>
        BY <2>4 DEF Next, vars, semVars, CallTask, ReturnTask, StartTask, EndTask,
                    WaitElsewhere, WakeElsewhere
    <3>2. Holders' = Holders
        BY <3>1 DEF Holders
    <3>3. QED
        BY <3>1, <3>2 DEF CountInv, PermitsConserved
  <2>5. QED
      BY <2>2, <2>3, <2>4
<1>3. CountInv => PermitsConserved
    BY DEF CountInv
<1>4. QED
    BY <1>1, <1>2, <1>3, PTL DEF Spec
-----------------------------------------------------------------------------
(* The bus drivers. *)

Phases == {"outside", "first", "waits", "second", "release"}
BusTypes ==
    /\ driver \in {"i2c", "spi", "uart"}
    /\ phase \in [Tid -> Phases]
    /\ kind \in [Tid -> Kinds] /\ \A t \in Tid : kind[t] \in KindsOf(driver)
    /\ outcome \in [Tid -> {"none", "success", "error"}]
    /\ blocked \in Tid \cup {Nobody} /\ wires \in Tid \cup {Nobody}
    /\ isr \in BOOLEAN /\ late \in BOOLEAN /\ done \subseteq Tid

\* The lock is held from the acquire() of a call to its release().
HoldersMatch == \A t \in Tid : phase[t] # "outside" <=> where[t] = "inside"
\* What a task does before its transfer and after it is one run.
OneRun == \A t \in Tid : phase[t] \in {"first", "release"} => Running(t)
\* m_blocked names nobody but the task that waits, once one does, and never a
\* task that waits for the lock.
BlockedNames ==
    /\ \A t \in Tid : phase[t] \in {"waits", "second"} => blocked \in {t, Nobody}
    /\ blocked # Nobody => where[blocked] # "waiting"
\* Without a timeout only poll wakes the task, and it resets m_blocked.
Unwoken ==
    \A t \in Tid : phase[t] = "waits" /\ ~kind[t].timeout /\ blocked = t
                       => state[t] = "BLOCKED"
SecondOfTwo == \A t \in Tid : phase[t] = "second" => kind[t].twice

\* A transfer is on the wires, has ended, or poll has seen that it has.
Quiet == ~isr /\ wires = Nobody
TransferOf(t) ==
    \/ blocked = t /\ wires = t /\ ~isr
    \/ blocked = t /\ t \in done /\ wires = Nobody /\ isr
    \/ blocked = Nobody /\ t \in done /\ Quiet
Transferred ==
    /\ \A t \in Tid : phase[t] = "waits" => t \in done \/ wires = t
    /\ ~late => \A t \in Tid : phase[t] = "waits" => TransferOf(t)
    /\ ~late /\ ~Quiet => \E t \in Tid : phase[t] \in {"waits", "second"}

BusLocal ==
    /\ BusTypes /\ HoldersMatch /\ OneRun /\ BlockedNames /\ Unwoken /\ SecondOfTwo
    /\ Transferred /\ WakesTheWaiting /\ SuccessIsReal
BusInv == SemaphoreInvariant /\ BusLocal

-----------------------------------------------------------------------------
\* One task holds the lock.
LEMMA OneHolder ==
    ASSUME Permits = 1, BusInv, NEW t \in Tid, phase[t] # "outside"
    PROVE  count = 0 /\ \A u \in Tid : u # t => phase[u] = "outside"
<1>1. /\ PermitsConserved /\ HoldersMatch /\ count \in Nat
    BY DEF BusInv, BusLocal, SemaphoreInvariant, TypeOK
<1>2. IsFiniteSet(Holders) /\ Cardinality(Holders) \in Nat
    BY SetsFinite
<1>3. t \in Holders
    BY <1>1 DEF HoldersMatch, Holders
<1>4. Cardinality(Holders) = 1 /\ count = 0
  <2>1. Cardinality(Holders) # 0
      BY <1>2, <1>3, FS_EmptySet
  <2>2. QED
      BY <1>1, <1>2, <2>1 DEF PermitsConserved
<1>5. ASSUME NEW u \in Tid, u # t, phase[u] # "outside" PROVE FALSE
  <2>1. u \in Holders \ {t}
      BY <1>1, <1>5 DEF HoldersMatch, Holders
  <2>2. /\ Cardinality(Holders \ {t}) = Cardinality(Holders) - 1
        /\ IsFiniteSet(Holders \ {t})
      BY <1>2, <1>3, FS_RemoveElement
  <2>3. Holders \ {t} = {}
      BY <1>4, <2>2, FS_EmptySet
  <2>4. QED
      BY <2>1, <2>3
<1>6. QED
    BY <1>4, <1>5

\* While the lock is taken and another task runs, its holder waits.
LEMMA HolderWaits ==
    ASSUME BusInv, Permits = 1, count = 0
    PROVE  \E u \in Tid : phase[u] # "outside" /\ where[u] = "inside"
<1>1. /\ PermitsConserved /\ HoldersMatch
    BY DEF BusInv, BusLocal, SemaphoreInvariant
<1>2. Holders # {}
  <2>1. Cardinality(Holders) = 1
      BY <1>1, SetsFinite DEF PermitsConserved
  <2>2. QED
      BY <2>1, FS_EmptySet
<1>3. QED
    BY <1>1, <1>2 DEF Holders, HoldersMatch

-----------------------------------------------------------------------------
(* Every step is one of the semaphore's, or none. *)

LEMMA Refines ==
    ASSUME BusInv, [BusNext]_allBusVars
    PROVE  [Next]_vars
<1>1. /\ TypeOK /\ WaitersExact /\ BusTypes /\ HoldersMatch /\ BlockedNames
    BY DEF BusInv, BusLocal, SemaphoreInvariant
<1>2. ASSUME NEW t \in Tid, Transfers(t), Running(t), phase[t] # "outside"
      PROVE  Next
  <2>1. where[t] # "waiting"
      BY <1>1, <1>2 DEF HoldersMatch
  <2>2. \E s \in {"SLEEPING", "BLOCKED"} : WaitElsewhere(t, s)
      BY <1>2, <2>1 DEF Transfers, WaitElsewhere, semVars
  <2>3. QED
      BY <2>2 DEF Next
<1>3. ASSUME NEW t \in Tid, TaskStep(t)
      PROVE  [Next]_vars
  <2>1. CASE StartFirst(t)
      BY <1>2, <2>1 DEF StartFirst, HalRefuses
  <2>2. CASE StartSecond(t)
      BY <1>2, <2>2 DEF StartSecond, HalRefuses
  <2>3. CASE FinishFirst(t) \/ FinishSecond(t)
      BY <2>3 DEF FinishFirst, FinishSecond, Conclude
  <2>4. CASE GiveBack(t)
      BY <2>4 DEF GiveBack, Next
  <2>5. QED
      BY <1>3, <2>1, <2>2, <2>3, <2>4 DEF TaskStep
<1>4. CASE Poll
  <2>1. CASE blocked = Nobody \/ ~Suspended(blocked)
      BY <1>4, <2>1 DEF Poll, WakeIfSuspended, vars, taskVars
  <2>2. CASE blocked # Nobody /\ Suspended(blocked)
    <3>1. /\ blocked \in Tid /\ where[blocked] # "waiting" /\ blocked # dispatched
        BY <1>1, <1>4, <2>2, SemaphoreAssumption DEF BusTypes, BlockedNames, Poll
    <3>2. WakeElsewhere(blocked)
        BY <1>4, <2>2, <3>1 DEF Poll, WakeIfSuspended, WakeElsewhere, BetweenCalls, Wake
    <3>3. QED
        BY <3>1, <3>2 DEF Next
  <2>3. QED
      BY <2>1, <2>2
<1>5. ASSUME NEW t \in Tid, TimeOut(t)
      PROVE  Next
  <2>1. where[t] # "waiting"
      BY <1>1, <1>5 DEF WaitersExact, TimeOut
  <2>2. WakeElsewhere(t)
      BY <1>5, <2>1 DEF TimeOut, WakeElsewhere, BetweenCalls
  <2>3. QED
      BY <2>2 DEF Next
<1>6. ASSUME NEW t \in Tid,
             \/ Obtain(t) \/ BusStarts(t) \/ ElsewhereWakes(t)
             \/ \E s \in {"SLEEPING", "BLOCKED"} : ElsewhereWaits(t, s)
      PROVE  Next
    BY <1>6 DEF Obtain, BusStarts, ElsewhereWakes, ElsewhereWaits, Next
<1>7. CASE BusCalls \/ BusReturns
    BY <1>7 DEF BusCalls, BusReturns, Next
<1>8. CASE Interrupt \/ UNCHANGED allBusVars
    BY <1>8 DEF Interrupt, allBusVars
<1>9. QED
    BY <1>3, <1>4, <1>5, <1>6, <1>7, <1>8 DEF BusNext

-----------------------------------------------------------------------------
(* What each step keeps. *)

\* The steps of the scheduler.
LEMMA SchedulerKeeps ==
    ASSUME BusLocal, UNCHANGED <<where, busVars>>,
           \A u \in Tid : Running(u) /\ phase[u] \in {"first", "release"} => Running(u)',
           \A u \in Tid : phase[u] = "waits" /\ state[u] = "BLOCKED" => state'[u] = "BLOCKED"
    PROVE  BusLocal'
<1>1. UNCHANGED <<driver, phase, kind, outcome, blocked, isr, wires, done, late, where>>
    BY DEF busVars
<1>2. BusTypes' /\ HoldersMatch' /\ BlockedNames' /\ SecondOfTwo'
    BY <1>1 DEF BusLocal, BusTypes, HoldersMatch, BlockedNames, SecondOfTwo
<1>3. OneRun' /\ Unwoken'
    BY <1>1 DEF BusLocal, OneRun, Unwoken
<1>4. Transferred' /\ WakesTheWaiting' /\ SuccessIsReal'
    BY <1>1 DEF BusLocal, Transferred, TransferOf, Quiet, WakesTheWaiting, SuccessIsReal
<1>5. QED
    BY <1>2, <1>3, <1>4 DEF BusLocal

LEMMA SchedulerSteps ==
    ASSUME BusInv,
           \/ BusCalls \/ BusReturns
           \/ \E t \in Tid : \/ TimeOut(t) \/ BusStarts(t) \/ ElsewhereWakes(t)
                             \/ \E s \in {"SLEEPING", "BLOCKED"} : ElsewhereWaits(t, s)
    PROVE  BusLocal'
<1>1. /\ BusLocal /\ OneRun /\ TypeOK /\ state \in [Tid -> TaskStates]
    BY DEF BusInv, BusLocal, SemaphoreInvariant, TypeOK
<1>2. CASE BusCalls
  <2>1. /\ UNCHANGED <<where, busVars, state>> /\ dispatched = System
      BY <1>2 DEF BusCalls, CallTask, Call, semVars
  <2>2. \A u \in Tid : ~Running(u)
      BY <2>1, SemaphoreAssumption DEF Running
  <2>3. QED
      BY <1>1, <2>1, <2>2, SchedulerKeeps
<1>3. CASE BusReturns
  <2>1. /\ UNCHANGED <<where, busVars, state>>
        /\ \A t \in Tid : t = dispatched => Suspended(t) \/ phase[t] = "outside"
      BY <1>3 DEF BusReturns, ReturnTask, Return, semVars
  <2>2. \A u \in Tid : ~(Running(u) /\ phase[u] \in {"first", "release"})
      BY <2>1 DEF Running, Suspended
  <2>3. QED
      BY <1>1, <2>1, <2>2, SchedulerKeeps
\* A task that is waited for by nobody on this bus becomes ready.
<1>4. ASSUME NEW t \in Tid, MakeReady(t), UNCHANGED <<where, busVars, dispatched>>,
             ~(phase[t] = "waits" /\ state[t] = "BLOCKED")
      PROVE  BusLocal'
  <2>1. state' = [state EXCEPT ![t] = "ACTIVE"]
      BY <1>4 DEF MakeReady
  <2>2. \A u \in Tid : Running(u) => Running(u)'
      BY <1>1, <1>4, <2>1 DEF Running
  <2>3. \A u \in Tid : phase[u] = "waits" /\ state[u] = "BLOCKED" => state'[u] = "BLOCKED"
      BY <1>1, <1>4, <2>1
  <2>4. QED
      BY <1>1, <1>4, <2>2, <2>3, SchedulerKeeps
<1>5. ASSUME NEW t \in Tid, TimeOut(t)
      PROVE  BusLocal'
    BY <1>4, <1>5 DEF TimeOut, Wake, semVars
<1>6. ASSUME NEW t \in Tid, BusStarts(t)
      PROVE  BusLocal'
    BY <1>4, <1>6 DEF BusStarts, StartTask, Start, semVars
<1>7. ASSUME NEW t \in Tid, ElsewhereWakes(t)
      PROVE  BusLocal'
    BY <1>4, <1>7 DEF ElsewhereWakes, WakeElsewhere, Wake, semVars
<1>8. ASSUME NEW t \in Tid, NEW s \in {"SLEEPING", "BLOCKED"}, ElsewhereWaits(t, s)
      PROVE  BusLocal'
  <2>1. /\ phase[t] = "outside" /\ dispatched = t
        /\ state' = [state EXCEPT ![t] = s]
        /\ UNCHANGED <<where, busVars, dispatched>>
      BY <1>8 DEF ElsewhereWaits, WaitElsewhere, Suspend, semVars, Running
  <2>2. \A u \in Tid : Running(u) /\ phase[u] \in {"first", "release"} => Running(u)'
      BY <1>1, <2>1 DEF Running
  <2>3. \A u \in Tid : phase[u] = "waits" /\ state[u] = "BLOCKED" => state'[u] = "BLOCKED"
      BY <1>1, <2>1
  <2>4. QED
      BY <1>1, <2>1, <2>2, <2>3, SchedulerKeeps
<1>9. QED
    BY <1>2, <1>3, <1>5, <1>6, <1>7, <1>8

LEMMA InterruptKeeps ==
    ASSUME BusLocal, Interrupt
    PROVE  BusLocal'
<1>1. /\ wires # Nobody /\ wires' = Nobody /\ isr' = TRUE
      /\ done' = done \cup {wires}
      /\ UNCHANGED <<state, dispatched, where, driver, phase, kind, outcome, blocked, late>>
    BY DEF Interrupt, vars, taskVars, semVars
<1>2. BusTypes'
    BY <1>1 DEF BusLocal, BusTypes
<1>3. HoldersMatch' /\ OneRun' /\ BlockedNames' /\ Unwoken' /\ SecondOfTwo' /\ WakesTheWaiting'
    BY <1>1 DEF BusLocal, HoldersMatch, OneRun, Running, BlockedNames, Unwoken, SecondOfTwo, WakesTheWaiting
<1>4. Transferred'
    BY <1>1 DEF BusLocal, Transferred, TransferOf, Quiet
<1>5. SuccessIsReal'
    BY <1>1 DEF BusLocal, SuccessIsReal
<1>6. QED
    BY <1>2, <1>3, <1>4, <1>5 DEF BusLocal

LEMMA PollKeeps ==
    ASSUME BusInv, Poll
    PROVE  BusLocal'
<1>1. /\ isr /\ isr' = FALSE /\ blocked' = Nobody /\ dispatched = System
      /\ late' = (late /\ wires # Nobody)
      /\ UNCHANGED <<where, driver, phase, kind, outcome, wires, done>>
    BY DEF Poll, semVars
<1>2. /\ BusTypes /\ HoldersMatch /\ OneRun /\ SecondOfTwo /\ Transferred /\ SuccessIsReal
    BY DEF BusInv, BusLocal
<1>3. \A u \in Tid : ~Running(u)
    BY <1>1, SemaphoreAssumption DEF Running
<1>4. BusTypes'
  <2>1. late' \in BOOLEAN
      BY <1>1
  <2>2. QED
      BY <1>1, <1>2, <2>1 DEF BusTypes
<1>5. HoldersMatch' /\ SecondOfTwo'
    BY <1>1, <1>2 DEF HoldersMatch, SecondOfTwo
<1>6. OneRun'
    BY <1>1, <1>2, <1>3 DEF OneRun
<1>7. BlockedNames' /\ Unwoken' /\ WakesTheWaiting'
    BY <1>1, NobodyIsNoTask DEF BlockedNames, Unwoken, WakesTheWaiting
<1>8. Transferred'
  <2>1. \A t \in Tid : phase[t] = "waits" => t \in done \/ wires = t
      BY <1>2 DEF Transferred
  <2>2. CASE wires = Nobody
    <3>1. \A t \in Tid : phase[t] = "waits" => t \in done
        BY <2>1, <2>2, NobodyIsNoTask
    <3>2. QED
        BY <1>1, <2>2, <3>1 DEF Transferred, TransferOf, Quiet
  <2>3. CASE wires # Nobody
    <3>1. CASE late
        BY <1>1, <2>1, <2>3, <3>1 DEF Transferred
    <3>2. CASE ~late
      <4>1. PICK t \in Tid : phase[t] \in {"waits", "second"}
          BY <1>1, <1>2, <3>2 DEF Transferred, Quiet
      <4>2. \A u \in Tid : phase[u] = "waits" => FALSE
          BY <1>1, <1>2, <2>3, <3>2 DEF Transferred, TransferOf, Quiet
      <4>3. QED
          BY <1>1, <2>1, <4>1, <4>2 DEF Transferred
    <3>3. QED
        BY <3>1, <3>2
  <2>4. QED
      BY <2>2, <2>3
<1>9. SuccessIsReal'
    BY <1>1, <1>2, <1>3 DEF SuccessIsReal, OneRun
<1>10. QED
    BY <1>4, <1>5, <1>6, <1>7, <1>8, <1>9 DEF BusLocal

\* acquire(): whoever queues up is not in m_blocked, since the holder waits.
LEMMA ObtainKeeps ==
    ASSUME Permits = 1, BusInv, NEW t \in Tid, Obtain(t)
    PROVE  BusLocal'
<1>1. /\ BusTypes /\ HoldersMatch /\ OneRun /\ BlockedNames /\ Unwoken /\ SecondOfTwo
      /\ Transferred /\ WakesTheWaiting /\ SuccessIsReal /\ TypeOK
    BY DEF BusInv, BusLocal, SemaphoreInvariant
<1>2. /\ phase[t] = "outside" /\ Running(t) /\ where[t] # "inside"
      /\ phase' = [phase EXCEPT ![t] = IF where'[t] = "inside" THEN "first" ELSE "outside"]
      /\ \E k \in KindsOf(driver) : kind' = [kind EXCEPT ![t] = k]
      /\ outcome' = [outcome EXCEPT ![t] = "none"]
      /\ UNCHANGED <<driver, blocked, isr, wires, done, late>>
    BY DEF Obtain, Acquire
<1>3. /\ where \in [Tid -> {"outside", "waiting", "inside"}] /\ state \in [Tid -> TaskStates]
    BY <1>1 DEF TypeOK
<1>others. \A u \in Tid : u # t => phase'[u] = phase[u] /\ kind'[u] = kind[u] /\ outcome'[u] = outcome[u]
    BY <1>1, <1>2 DEF BusTypes
<1>kinds. kind'[t] \in KindsOf(driver) /\ KindsOf(driver) \subseteq Kinds
    BY <1>1, <1>2 DEF BusTypes, KindsOf
<1>4. BusTypes'
  <2>1. phase' \in [Tid -> Phases]
      BY <1>1, <1>2 DEF BusTypes, Phases
  <2>2. kind' \in [Tid -> Kinds]
      BY <1>1, <1>2, <1>kinds DEF BusTypes
  <2>3. outcome' \in [Tid -> {"none", "success", "error"}]
      BY <1>1, <1>2 DEF BusTypes
  <2>4. \A u \in Tid : kind'[u] \in KindsOf(driver)
      BY <1>1, <1>others, <1>kinds DEF BusTypes
  <2>5. QED
      BY <1>1, <1>2, <2>1, <2>2, <2>3, <2>4 DEF BusTypes
\* The task goes in, stays outside or queues up.
<1>5. ASSUME NEW at \in {"outside", "waiting", "inside"}, where' = [where EXCEPT ![t] = at],
             at = "inside" => UNCHANGED <<state, dispatched>>,
             at = "waiting" => blocked # t,
             \A u \in Tid : u # t => state'[u] = state[u],
             dispatched' = dispatched
      PROVE  BusLocal'
  <2>1. /\ where'[t] = at /\ phase'[t] \in {"first", "outside"}
        /\ phase'[t] = "first" <=> at = "inside"
        /\ \A u \in Tid : u # t => where'[u] = where[u]
      BY <1>1, <1>2, <1>3, <1>5 DEF BusTypes
  <2>2. HoldersMatch'
      BY <1>1, <1>others, <2>1 DEF HoldersMatch
  <2>3. OneRun'
      BY <1>1, <1>2, <1>5, <1>others, <2>1 DEF OneRun, Running
  <2>4. BlockedNames'
      BY <1>1, <1>2, <1>5, <1>others, <2>1 DEF BlockedNames, BusTypes
  <2>5. Unwoken' /\ SecondOfTwo'
      BY <1>1, <1>2, <1>5, <1>others, <2>1 DEF Unwoken, SecondOfTwo
  <2>6. Transferred'
    <3>1. \A u \in Tid : phase'[u] \in {"waits", "second"} <=> phase[u] \in {"waits", "second"}
        BY <1>2, <1>others, <2>1
    <3>2. \A u \in Tid : phase'[u] = "waits" => phase[u] = "waits"
        BY <1>2, <1>others, <2>1
    <3>3. UNCHANGED <<blocked, isr, wires, done, late>>
        BY <1>2
    <3>4. QED
        BY <1>1, <3>1, <3>2, <3>3 DEF Transferred, TransferOf, Quiet
  <2>7. WakesTheWaiting'
      BY <1>1, <1>2, <1>others, <2>1 DEF WakesTheWaiting, BusTypes
  <2>8. SuccessIsReal'
      BY <1>1, <1>2, <1>others, <2>1 DEF SuccessIsReal
  <2>9. QED
      BY <1>4, <2>2, <2>3, <2>4, <2>5, <2>6, <2>7, <2>8 DEF BusLocal
<1>6. CASE Take(t)
    BY <1>5, <1>6 DEF Take, taskVars
<1>7. CASE WaitInLine(t)
  <2>1. count = 0
      BY <1>7 DEF WaitInLine
\* The lock is held by a task that is not in the middle of its run.
  <2>2. PICK u \in Tid : phase[u] # "outside" /\ where[u] = "inside"
      BY <2>1, HolderWaits
  <2>3. u # t
      BY <1>2, <2>2
  <2>4. phase[u] \in {"waits", "second"}
      BY <1>1, <1>2, <2>2, <2>3 DEF OneRun, Running, BusTypes, Phases
  <2>5. blocked # t
      BY <1>1, <2>3, <2>4, NobodyIsNoTask DEF BlockedNames
  <2>6. CASE WaitRoom
    <3>1. /\ where' = [where EXCEPT ![t] = "waiting"]
          /\ state' = [state EXCEPT ![t] = "BLOCKED"] /\ dispatched' = dispatched
        BY <1>7, <2>6 DEF WaitInLine, QueueUp, Suspend
    <3>2. QED
        BY <1>3, <1>5, <2>5, <3>1
  <2>7. CASE ~WaitRoom
      BY <1>5, <1>7, <2>7 DEF WaitInLine, Refuse, taskVars
  <2>8. QED
      BY <2>6, <2>7
<1>8. QED
    BY <1>6, <1>7 DEF Obtain, Acquire

\* What the steps of the task that holds the lock have in common: the others
\* are outside.
LEMMA HolderSteps ==
    ASSUME Permits = 1, BusInv, NEW t \in Tid, phase[t] # "outside",
           NEW p \in Phases, phase' = [phase EXCEPT ![t] = p]
    PROVE  /\ phase' \in [Tid -> Phases] /\ phase'[t] = p
           /\ \A u \in Tid : u # t => phase[u] = "outside" /\ phase'[u] = "outside"
<1>1. phase \in [Tid -> Phases]
    BY DEF BusInv, BusLocal, BusTypes
<1>2. \A u \in Tid : u # t => phase[u] = "outside"
    BY OneHolder
<1>3. QED
    BY <1>1, <1>2

LEMMA GiveBackKeeps ==
    ASSUME Permits = 1, BusInv, NEW t \in Tid, GiveBack(t)
    PROVE  BusLocal'
<1>1. /\ BusTypes /\ HoldersMatch /\ OneRun /\ BlockedNames /\ Transferred /\ WakesTheWaiting
      /\ TypeOK
    BY DEF BusInv, BusLocal, SemaphoreInvariant
<1>2. /\ phase[t] = "release" /\ phase' = [phase EXCEPT ![t] = "outside"]
      /\ where' = [where EXCEPT ![t] = "outside"]
      /\ UNCHANGED <<driver, kind, outcome, blocked, isr, wires, done, late>>
    BY DEF GiveBack, Release
<1>3. \A u \in Tid : phase'[u] = "outside"
    BY <1>2, HolderSteps DEF Phases
<1>4. /\ where' \in [Tid -> {"outside", "waiting", "inside"}] /\ where'[t] = "outside"
      /\ \A u \in Tid : u # t => where'[u] = where[u] /\ phase[u] = "outside"
    BY <1>1, <1>2, HolderSteps DEF TypeOK, Phases
<1>5. BusTypes'
    BY <1>1, <1>2, HolderSteps DEF BusTypes, Phases
<1>6. HoldersMatch'
    BY <1>1, <1>3, <1>4 DEF HoldersMatch
<1>7. OneRun' /\ Unwoken' /\ SecondOfTwo' /\ SuccessIsReal'
    BY <1>3 DEF OneRun, Unwoken, SecondOfTwo, SuccessIsReal
<1>8. BlockedNames'
    BY <1>1, <1>2, <1>3, <1>4 DEF BlockedNames, BusTypes
<1>9. Transferred'
    BY <1>1, <1>2, <1>3, <1>4 DEF Transferred, Quiet
<1>10. WakesTheWaiting'
    BY <1>1, <1>2, <1>3, <1>4 DEF WakesTheWaiting, BusTypes
<1>11. QED
    BY <1>5, <1>6, <1>7, <1>8, <1>9, <1>10 DEF BusLocal

\* A transfer that is not taken ends the call.
LEMMA RefusalKeeps ==
    ASSUME Permits = 1, BusInv, NEW t \in Tid, phase[t] # "outside", Running(t),
           HalRefuses(t), UNCHANGED <<driver, kind, isr>>,
           late' \in BOOLEAN, ~late' => ~late /\ Quiet
    PROVE  BusLocal'
<1>1. /\ BusTypes /\ HoldersMatch /\ TypeOK
    BY DEF BusInv, BusLocal, SemaphoreInvariant
<1>2. /\ blocked' = Nobody
      /\ phase' = [phase EXCEPT ![t] = "release"]
      /\ outcome' = [outcome EXCEPT ![t] = "error"]
      /\ UNCHANGED <<driver, kind, isr, wires, done, state, dispatched, where>>
    BY DEF HalRefuses, vars, taskVars, semVars
<1>3. /\ phase' \in [Tid -> Phases] /\ phase'[t] = "release" /\ outcome'[t] = "error"
      /\ \A u \in Tid : u # t => phase[u] = "outside" /\ phase'[u] = "outside"
    BY <1>1, <1>2, HolderSteps DEF Phases, BusTypes
<1>4. BusTypes'
    BY <1>1, <1>2, <1>3 DEF BusTypes
<1>5. HoldersMatch' /\ OneRun' /\ BlockedNames' /\ Unwoken' /\ SecondOfTwo'
    BY <1>1, <1>2, <1>3 DEF HoldersMatch, OneRun, Running, BlockedNames, Unwoken, SecondOfTwo
<1>6. Transferred' /\ WakesTheWaiting' /\ SuccessIsReal'
    BY <1>1, <1>2, <1>3 DEF Transferred, Quiet, WakesTheWaiting, SuccessIsReal
<1>7. QED
    BY <1>4, <1>5, <1>6 DEF BusLocal

LEMMA StartFirstKeeps ==
    ASSUME Permits = 1, BusInv, NEW t \in Tid, StartFirst(t)
    PROVE  BusLocal'
<1>1. /\ BusTypes /\ HoldersMatch /\ OneRun /\ Transferred /\ SuccessIsReal /\ TypeOK
    BY DEF BusInv, BusLocal, SemaphoreInvariant
<1>2. phase[t] = "first" /\ Running(t) /\ UNCHANGED <<driver, kind, isr, late>>
    BY DEF StartFirst
<1>3. \A u \in Tid : u # t => phase[u] = "outside"
    BY <1>2, OneHolder
<1>4. ~late => Quiet
    BY <1>1, <1>2, <1>3 DEF Transferred
<1>5. CASE HalRefuses(t)
    BY <1>1, <1>2, <1>4, <1>5, RefusalKeeps DEF BusTypes
<1>6. CASE Transfers(t) /\ Claim(t) /\ phase' = [phase EXCEPT ![t] = "waits"]
  <2>1. /\ wires = Nobody /\ wires' = t /\ done' = done \ {t} /\ blocked' = t
        /\ state' = [state EXCEPT ![t] = IF kind[t].timeout THEN "SLEEPING" ELSE "BLOCKED"]
        /\ UNCHANGED <<outcome, where, dispatched>>
      BY <1>6 DEF Transfers, Claim, Suspend
  <2>2. /\ phase' \in [Tid -> Phases] /\ phase'[t] = "waits"
        /\ \A u \in Tid : u # t => phase'[u] = "outside"
      BY <1>2, <1>6, HolderSteps DEF Phases
  <2>3. state'[t] = IF kind[t].timeout THEN "SLEEPING" ELSE "BLOCKED"
      BY <1>1, <2>1 DEF TypeOK
  <2>4. BusTypes'
      BY <1>1, <1>2, <2>1, <2>2 DEF BusTypes
  <2>5. HoldersMatch' /\ OneRun' /\ BlockedNames' /\ SecondOfTwo'
      BY <1>1, <1>2, <1>3, <2>1, <2>2 DEF HoldersMatch, OneRun, BlockedNames, SecondOfTwo
  <2>6. Unwoken'
      BY <1>2, <2>1, <2>2, <2>3 DEF Unwoken
  <2>7. Transferred'
      BY <1>2, <1>4, <2>1, <2>2 DEF Transferred, TransferOf, Quiet
  <2>8. WakesTheWaiting' /\ SuccessIsReal'
      BY <2>1, <2>2 DEF WakesTheWaiting, SuccessIsReal
  <2>9. QED
      BY <2>4, <2>5, <2>6, <2>7, <2>8 DEF BusLocal
<1>7. QED
    BY <1>5, <1>6 DEF StartFirst

\* The end of a call's wait: a task that runs again without a timeout was
\* woken by poll, which has reset m_blocked.
LEMMA Woken1 ==
    ASSUME Permits = 1, BusInv, NEW t \in Tid, phase[t] = "waits", Running(t)
    PROVE  /\ blocked \in {t, Nobody}
           /\ ~TimedOut(t) => blocked = Nobody
           /\ ~TimedOut(t) /\ ~late => t \in done /\ Quiet
<1>1. /\ BusTypes /\ BlockedNames /\ Unwoken /\ Transferred
    BY DEF BusInv, BusLocal
<1>2. blocked \in {t, Nobody} /\ state[t] # "BLOCKED"
    BY <1>1 DEF BlockedNames, Running
<1>3. ~TimedOut(t) => blocked = Nobody
    BY <1>1, <1>2 DEF Unwoken, TimedOut
<1>4. ~TimedOut(t) /\ ~late => t \in done /\ Quiet
    BY <1>1, <1>3, NobodyIsNoTask DEF Transferred, TransferOf
<1>5. QED
    BY <1>2, <1>3, <1>4

\* The call's transfers are over: what remains is to release the lock.
LEMMA ConcludeKeeps ==
    ASSUME Permits = 1, BusInv, NEW t \in Tid, phase[t] # "outside", Running(t), Conclude(t),
           blocked' \in {blocked, Nobody},
           blocked' = Nobody \/ (driver = "i2c" /\ late'),
           ~late' => t \in done /\ Quiet
    PROVE  BusLocal'
<1>1. /\ BusTypes /\ HoldersMatch /\ BlockedNames /\ TypeOK
    BY DEF BusInv, BusLocal, SemaphoreInvariant
<1>2. /\ phase' = [phase EXCEPT ![t] = "release"]
      /\ outcome' = [outcome EXCEPT ![t] = IF TimedOut(t) THEN "error" ELSE "success"]
      /\ late' = (late \/ TimedOut(t) \/ kind[t].twice)
      /\ UNCHANGED <<driver, kind, isr, wires, done, state, dispatched, where>>
    BY DEF Conclude, vars, taskVars, semVars
<1>late. late' \in BOOLEAN
    BY <1>2
<1>3. /\ phase' \in [Tid -> Phases] /\ phase'[t] = "release"
      /\ \A u \in Tid : u # t => phase'[u] = "outside"
    BY <1>2, HolderSteps DEF Phases
<1>4. BusTypes'
    BY <1>1, <1>2, <1>3, <1>late DEF BusTypes
<1>5. HoldersMatch' /\ OneRun' /\ BlockedNames' /\ Unwoken' /\ SecondOfTwo'
  <2>1. HoldersMatch'
      BY <1>1, <1>2, <1>3, HolderSteps DEF HoldersMatch, Phases
  <2>2. OneRun' /\ Unwoken' /\ SecondOfTwo'
      BY <1>2, <1>3 DEF OneRun, Running, Unwoken, SecondOfTwo
  <2>3. BlockedNames'
      BY <1>1, <1>2, <1>3 DEF BlockedNames
  <2>4. QED
      BY <2>1, <2>2, <2>3
<1>6. Transferred'
    BY <1>2, <1>3 DEF Transferred, Quiet
<1>7. WakesTheWaiting'
    BY <1>2 DEF WakesTheWaiting
<1>8. SuccessIsReal'
    BY <1>2, <1>3 DEF SuccessIsReal
<1>9. QED
    BY <1>4, <1>5, <1>6, <1>7, <1>8 DEF BusLocal

LEMMA FinishFirstKeeps ==
    ASSUME Permits = 1, BusInv, NEW t \in Tid, FinishFirst(t)
    PROVE  BusLocal'
<1>1. /\ phase[t] = "waits" /\ Running(t) /\ Conclude(t)
      /\ blocked' = IF driver = "i2c" THEN blocked ELSE Nobody
      /\ late' = (late \/ TimedOut(t) \/ kind[t].twice)
    BY DEF FinishFirst, Unblock, Conclude
<1>2. CASE TimedOut(t)
  <2>1. late' = TRUE
      BY <1>1, <1>2
  <2>2. blocked' \in {blocked, Nobody} /\ (blocked' = Nobody \/ driver = "i2c")
      BY <1>1
  <2>3. QED
      BY <1>1, <2>1, <2>2, ConcludeKeeps
<1>3. CASE ~TimedOut(t)
  <2>1. blocked = Nobody /\ (~late => t \in done /\ Quiet)
      BY <1>1, <1>3, Woken1
  <2>2. blocked' = Nobody
      BY <1>1, <2>1
  <2>3. ~late' => ~late
      BY <1>1
  <2>4. ~late' => t \in done /\ Quiet
      BY <2>1, <2>3
  <2>5. phase[t] # "outside" /\ Running(t) /\ Conclude(t)
      BY <1>1
  <2>6. blocked' \in {blocked, Nobody} /\ (blocked' = Nobody \/ (driver = "i2c" /\ late'))
      BY <2>2
  <2>7. QED
      BY <2>4, <2>5, <2>6, ConcludeKeeps
<1>4. QED
    BY <1>2, <1>3

LEMMA FinishSecondKeeps ==
    ASSUME Permits = 1, BusInv, NEW t \in Tid, FinishSecond(t)
    PROVE  BusLocal'
<1>1. /\ phase[t] = "second" /\ Running(t) /\ blocked' = blocked /\ Conclude(t)
      /\ late' = (late \/ TimedOut(t) \/ kind[t].twice)
    BY DEF FinishSecond, Conclude
<1>2. kind[t] \in KindsOf(driver) /\ kind[t].twice /\ driver \in {"i2c", "spi", "uart"}
    BY <1>1 DEF BusInv, BusLocal, SecondOfTwo, BusTypes
<1>3. driver = "i2c"
  <2>1. driver = "spi" => KindsOf(driver) = {k \in Kinds : ~k.twice}
      BY DEF KindsOf
  <2>2. driver = "uart" => KindsOf(driver) = {k \in Kinds : ~k.twice /\ ~k.timeout}
      BY DEF KindsOf
  <2>3. QED
      BY <1>2, <2>1, <2>2
<1>4. late' = TRUE
    BY <1>1, <1>2
<1>5. QED
    BY <1>1, <1>3, <1>4, ConcludeKeeps

LEMMA StartSecondKeeps ==
    ASSUME Permits = 1, BusInv, NEW t \in Tid, StartSecond(t)
    PROVE  BusLocal'
<1>1. /\ BusTypes /\ HoldersMatch /\ BlockedNames /\ TypeOK
    BY DEF BusInv, BusLocal, SemaphoreInvariant
<1>2. /\ phase[t] = "waits" /\ Running(t) /\ kind[t].twice
      /\ late' = (late \/ TimedOut(t)) /\ UNCHANGED <<driver, kind, isr>>
    BY DEF StartSecond
<1>late. late' \in BOOLEAN /\ (~late' => ~late /\ t \in done /\ Quiet)
    BY <1>2, Woken1
<1>3. CASE HalRefuses(t)
    BY <1>2, <1>3, <1>late, RefusalKeeps
<1>4. CASE Transfers(t) /\ phase' = [phase EXCEPT ![t] = "second"] /\ UNCHANGED blocked
  <2>1. /\ wires = Nobody /\ wires' = t /\ done' = done \ {t}
        /\ dispatched' = dispatched
        /\ UNCHANGED <<outcome, where>>
      BY <1>4 DEF Transfers, Suspend
  <2>2. /\ phase' \in [Tid -> Phases] /\ phase'[t] = "second"
        /\ \A u \in Tid : u # t => phase[u] = "outside" /\ phase'[u] = "outside"
      BY <1>2, <1>4, HolderSteps DEF Phases
  <2>3. BusTypes'
      BY <1>1, <1>2, <1>4, <1>late, <2>1, <2>2 DEF BusTypes
  <2>4. HoldersMatch'
      BY <1>1, <1>2, <2>1, <2>2 DEF HoldersMatch
  <2>5. OneRun' /\ Unwoken' /\ SecondOfTwo' /\ SuccessIsReal'
      BY <1>2, <2>1, <2>2 DEF OneRun, Unwoken, SecondOfTwo, SuccessIsReal
  <2>6. BlockedNames'
      BY <1>1, <1>2, <1>4, <2>1, <2>2 DEF BlockedNames
  <2>7. Transferred'
      BY <1>2, <2>1, <2>2 DEF Transferred
  <2>8. WakesTheWaiting'
      BY <1>1, <1>2, <1>4, <2>2 DEF WakesTheWaiting, BlockedNames
  <2>9. QED
      BY <2>3, <2>4, <2>5, <2>6, <2>7, <2>8 DEF BusLocal
<1>5. QED
    BY <1>3, <1>4 DEF StartSecond

-----------------------------------------------------------------------------
LEMMA BusInitInv ==
    BusInit => BusInv
<1> SUFFICES ASSUME BusInit PROVE BusInv
    OBVIOUS
<1>1. SemaphoreInvariant
    BY InvariantInit DEF BusInit
<1>2. /\ driver \in {"i2c", "spi", "uart"}
      /\ phase = [t \in Tid |-> "outside"]
      /\ kind = [t \in Tid |-> [timeout |-> FALSE, twice |-> FALSE]]
      /\ outcome = [t \in Tid |-> "none"]
      /\ blocked = Nobody /\ isr = FALSE /\ wires = Nobody
      /\ done = {} /\ late = FALSE
      /\ where = [t \in Tid |-> "outside"]
    BY DEF BusInit, Init
<1>3. BusTypes
  <2>1. [timeout |-> FALSE, twice |-> FALSE] \in Kinds
      BY DEF Kinds
  <2>2. [timeout |-> FALSE, twice |-> FALSE] \in KindsOf(driver)
    <3>1. driver = "spi" => KindsOf(driver) = {k \in Kinds : ~k.twice}
        BY DEF KindsOf
    <3>2. driver = "uart" => KindsOf(driver) = {k \in Kinds : ~k.twice /\ ~k.timeout}
        BY DEF KindsOf
    <3>3. driver = "i2c" => KindsOf(driver) = Kinds
        BY DEF KindsOf
    <3>4. QED
        BY <1>2, <2>1, <3>1, <3>2, <3>3
  <2>3. QED
      BY <1>2, <2>1, <2>2 DEF BusTypes, Phases
<1>4. HoldersMatch /\ OneRun /\ BlockedNames /\ Unwoken /\ SecondOfTwo
    BY <1>2 DEF HoldersMatch, OneRun, BlockedNames, Unwoken, SecondOfTwo
<1>5. Transferred /\ WakesTheWaiting /\ SuccessIsReal
    BY <1>2 DEF Transferred, Quiet, WakesTheWaiting, SuccessIsReal
<1>6. QED
    BY <1>1, <1>3, <1>4, <1>5 DEF BusInv, BusLocal

LEMMA BusNextInv ==
    ASSUME StrayWoken = {}, Permits = 1, BusInv, [BusNext]_allBusVars
    PROVE  BusInv'
<1>1. SemaphoreInvariant'
    BY Refines, InvariantNext DEF BusInv
<1>2. BusLocal'
  <2>1. CASE \/ BusCalls \/ BusReturns
             \/ \E t \in Tid : \/ TimeOut(t) \/ BusStarts(t) \/ ElsewhereWakes(t)
                               \/ \E s \in {"SLEEPING", "BLOCKED"} : ElsewhereWaits(t, s)
      BY <2>1, SchedulerSteps
  <2>2. CASE Interrupt
      BY <2>2, InterruptKeeps DEF BusInv
  <2>3. CASE Poll
      BY <2>3, PollKeeps
  <2>4. ASSUME NEW t \in Tid, Obtain(t)
        PROVE  BusLocal'
      BY <2>4, ObtainKeeps
  <2>5. ASSUME NEW t \in Tid, TaskStep(t)
        PROVE  BusLocal'
      BY <2>5, StartFirstKeeps, FinishFirstKeeps, StartSecondKeeps, FinishSecondKeeps, GiveBackKeeps
         DEF TaskStep
  <2>6. CASE UNCHANGED allBusVars
    <3>1. UNCHANGED <<where, busVars, state, dispatched>>
        BY <2>6 DEF allBusVars, vars, semVars, taskVars
    <3>2. BusLocal
        BY DEF BusInv
    <3>3. \A u \in Tid : Running(u) => Running(u)'
        BY <3>1 DEF Running
    <3>4. QED
        BY <3>1, <3>2, <3>3, SchedulerKeeps
  <2>7. QED
      BY <2>1, <2>2, <2>3, <2>4, <2>5, <2>6 DEF BusNext
<1>3. QED
    BY <1>1, <1>2 DEF BusInv

\* A task waits for a transfer only while it holds the lock, and poll wakes no
\* task that waits for it (HAL_I2CDevice.h:53): the drivers implement the
\* semaphore's specification, and what SemaphoreProofs shows holds of the lock.
THEOREM DriversUseTheLock ==
    ASSUME StrayWoken = {}, Permits = 1
    PROVE  BusSpec => LockDiscipline
<1>1. BusInit => Init
    BY DEF BusInit
<1>2. BusInv /\ [BusNext]_allBusVars => [Next]_vars
    BY Refines
<1>3. BusInv /\ [BusNext]_allBusVars => BusInv'
    BY BusNextInv
<1>4. QED
    BY <1>1, <1>2, <1>3, BusInitInv, PTL DEF BusSpec, LockDiscipline, Spec

\* "'m_blocked' is only reset in poll" (HAL_I2CDevice.h:119): it names a task
\* that waits for this bus, except after a timeout of the I2C driver.
THEOREM PollWakesTheWaiting ==
    ASSUME StrayWoken = {}, Permits = 1
    PROVE  BusSpec => []WakesTheWaiting
<1>1. BusInv /\ [BusNext]_allBusVars => BusInv'
    BY BusNextInv
<1>2. BusInv => WakesTheWaiting
    BY DEF BusInv, BusLocal
<1>3. QED
    BY <1>1, <1>2, BusInitInv, PTL DEF BusSpec

\* "if the ISR didn't occur, the operation timed out" (HAL_I2CDevice.h:118): a
\* call that reports success has made its transfer, unless a call before it
\* may have left an interrupt behind.
THEOREM SuccessAlwaysReal ==
    ASSUME StrayWoken = {}, Permits = 1
    PROVE  BusSpec => []SuccessIsReal
<1>1. BusInv /\ [BusNext]_allBusVars => BusInv'
    BY BusNextInv
<1>2. BusInv => SuccessIsReal
    BY DEF BusInv, BusLocal
<1>3. QED
    BY <1>1, <1>2, BusInitInv, PTL DEF BusSpec
================================================================================
