------------------------------ MODULE SchedProofs ------------------------------
(***************************************************************************)
(* Theorems about the scheduler of Sched.tla, for every number of tasks    *)
(* and every width of the clock.  The first part holds whatever the tasks  *)
(* do.  The second, which starts at "The ready queue", shows that the      *)
(* scheduler keeps what the comments of sched.cpp claim as long as no task *)
(* waits on a UART, none ends while it sleeps, and each task that goes to  *)
(* sleep does so at an end of the sleep queue, which two sleepers cannot   *)
(* but do; MCSched shows that none of these conditions can be dropped.     *)
(* With UART readers that do not sleep the other tasks stay on one queue   *)
(* at most and are woken in time.                                          *)
(***************************************************************************)
EXTENDS SchedInv, QueueLemmas, FiniteSetTheorems

-----------------------------------------------------------------------------
(* The entries of the ready queue. *)

\* A task that is on the ready queue has a last entry there, and the queue
\* without that entry is the queue with the later entries moved up.
LEMMA ReadyWithoutProperties ==
    ASSUME readyQ \in Seq(Tid), NEW t \in Tid, IsReady(t)
    PROVE  /\ LastEntry(t) \in 1 .. Len(readyQ)
           /\ readyQ[LastEntry(t)] = t
           /\ ReadyWithout(t) \in Seq(Tid)
           /\ Len(ReadyWithout(t)) = Len(readyQ) - 1
           /\ \A i \in 1 .. Len(readyQ) - 1 :
                 ReadyWithout(t)[i] =
                     IF i < LastEntry(t) THEN readyQ[i] ELSE readyQ[i + 1]
<1>1. \E i \in 1 .. Len(readyQ) :
          readyQ[i] = t /\ \A j \in i + 1 .. Len(readyQ) : readyQ[j] # t
    BY LastOccurrence DEF IsReady
<1>2. LastEntry(t) \in 1 .. Len(readyQ) /\ readyQ[LastEntry(t)] = t
    BY <1>1 DEF LastEntry
<1>3. ReadyWithout(t) = Without(readyQ, LastEntry(t))
    BY DEF ReadyWithout, Without
<1> QED
    BY <1>2, <1>3, WithoutProperties

\* Taking t off the ready queue leaves every other task on it.
LEMMA OthersStayReady ==
    ASSUME readyQ \in Seq(Tid), NEW t \in Tid, IsReady(t),
           NEW u \in Tid, u # t, IsReady(u)
    PROVE  \E i \in 1 .. Len(ReadyWithout(t)) : ReadyWithout(t)[i] = u
<1>1. PICK i \in 1 .. Len(readyQ) : readyQ[i] = u
    BY DEF IsReady
<1>2. Len(readyQ) \in Nat
    BY LenProperties
<1> DEFINE k == LastEntry(t)
<1>3. k \in 1 .. Len(readyQ) /\ k # i
    BY <1>1, ReadyWithoutProperties
<1>4. CASE i < k
  <2>1. i \in 1 .. Len(readyQ) - 1
      BY <1>2, <1>3, <1>4
  <2>2. QED
      BY <1>1, <1>4, <2>1, ReadyWithoutProperties
<1>5. CASE i > k
  <2>1. i - 1 \in 1 .. Len(readyQ) - 1 /\ ~(i - 1 < k) /\ i - 1 + 1 = i
      BY <1>2, <1>3, <1>5
  <2>2. /\ Len(ReadyWithout(t)) = Len(readyQ) - 1
        /\ \A m \in 1 .. Len(readyQ) - 1 :
              ReadyWithout(t)[m] = IF m < k THEN readyQ[m] ELSE readyQ[m + 1]
      BY ReadyWithoutProperties
  <2>3. ReadyWithout(t)[i - 1] = u
      BY <1>1, <2>1, <2>2
  <2>4. QED
      BY <2>1, <2>2, <2>3
<1>6. QED
    BY <1>2, <1>3, <1>4, <1>5

-----------------------------------------------------------------------------
(***************************************************************************)
(* Type correctness.  TypeOK is not inductive by itself: the entry that    *)
(* sched_sleep and sched_block remove must exist, and a task that runs     *)
(* must be one of the tasks.                                               *)
(***************************************************************************)
ReadyLocSound == \A t \in Tid : readyLoc[t] => IsReady(t)
RunsATask     == pc \in {"run", "suspended"} => dispatched \in Tid
TypeInv       == TypeOK /\ ReadyLocSound /\ RunsATask

\* What TypeInv says of the ready queue.
ReadyType ==
    /\ readyQ \in Seq(Tid)
    /\ readyLoc \in [Tid -> BOOLEAN]
    /\ ReadyLocSound

LEMMA PushReadyType ==
    ASSUME ReadyType, NEW t \in Tid, PushReady(t)
    PROVE  ReadyType'
<1>1. readyLoc' \in [Tid -> BOOLEAN]
    BY DEF ReadyType, PushReady, ReadyRoom
<1>2. CASE ReadyRoom
  <2>1. /\ readyQ' \in Seq(Tid)
        /\ Len(readyQ') = Len(readyQ) + 1
        /\ \A i \in 1 .. Len(readyQ) : readyQ'[i] = readyQ[i]
        /\ readyQ'[Len(readyQ) + 1] = t
      BY <1>2, AppendProperties DEF ReadyType, PushReady
  <2>2. Len(readyQ) \in Nat
      BY LenProperties DEF ReadyType
  <2>3. IsReady(t)'
      BY <2>1, <2>2 DEF IsReady
  <2>4. ASSUME NEW u \in Tid, u # t, readyLoc'[u]
        PROVE  IsReady(u)'
    <3>1. readyLoc[u]
        BY <2>4 DEF ReadyType, PushReady
    <3>2. PICK i \in 1 .. Len(readyQ) : readyQ[i] = u
        BY <3>1 DEF ReadyType, ReadyLocSound, IsReady
    <3>3. i \in 1 .. Len(readyQ') /\ readyQ'[i] = u
        BY <2>1, <2>2, <3>2
    <3>4. QED
        BY <3>3 DEF IsReady
  <2>5. QED
      BY <1>1, <2>1, <2>3, <2>4 DEF ReadyType, ReadyLocSound
<1>3. CASE ~ReadyRoom
  <2>1. readyQ' = readyQ /\ readyLoc' = [readyLoc EXCEPT ![t] = FALSE]
    <3>1. ReadyRoom = FALSE
        BY <1>3 DEF ReadyRoom
    <3>2. QED
        BY <3>1 DEF PushReady
  <2>2. QED
      BY <1>1, <2>1 DEF ReadyType, ReadyLocSound, IsReady
<1>4. QED
    BY <1>2, <1>3

LEMMA RemoveReadyType ==
    ASSUME ReadyType, NEW t \in Tid, readyLoc[t], RemoveReady(t)
    PROVE  ReadyType'
<1>1. readyQ \in Seq(Tid) /\ IsReady(t)
    BY DEF ReadyType, ReadyLocSound
<1>2. readyQ' = ReadyWithout(t) /\ readyLoc' = [readyLoc EXCEPT ![t] = FALSE]
    BY DEF RemoveReady
<1>3. readyQ' \in Seq(Tid) /\ readyLoc' \in [Tid -> BOOLEAN]
    BY <1>1, <1>2, ReadyWithoutProperties DEF ReadyType
<1>4. ASSUME NEW u \in Tid, readyLoc'[u]
      PROVE  IsReady(u)'
  <2>1. u # t /\ readyLoc[u]
      BY <1>2, <1>4 DEF ReadyType
  <2>2. IsReady(u)
      BY <2>1 DEF ReadyType, ReadyLocSound
  <2>3. QED
      BY <1>1, <1>2, <2>1, <2>2, OthersStayReady DEF IsReady
<1>5. QED
    BY <1>3, <1>4 DEF ReadyType, ReadyLocSound

\* What _sched_wakeup_tasks finds at the end of the sleep queue is a task.
LEMMA FirstSleeperType ==
    ASSUME TypeOK, SleeperDue
    PROVE  FirstSleeper \in Tid
<1>1. sleepQ \in QueueType(NumTasks, Tid)
    BY DEF TypeOK
<1>2. Peek(sleepQ) \in 1 .. NumTasks
    BY <1>1, QueueFields, ListFields DEF SleeperDue, Peek
<1>3. sleepQ.data \in [1 .. NumTasks -> Tid]
    BY <1>1, QueueFields
<1>4. QED
    BY <1>2, <1>3 DEF FirstSleeper

\* The sleep queue without one task, or as it is.
LEMMA WithoutSleeperType ==
    ASSUME TypeOK, NEW t \in Tid
    PROVE  WithoutSleeper(t) \in QueueType(NumTasks, Tid)
<1>1. /\ sleepQ \in QueueType(NumTasks, Tid)
      /\ sleepLoc[t] # NULL => sleepLoc[t] \in 1 .. NumTasks
      /\ NULL \notin 1 .. NumTasks
    BY SchedAssumption DEF TypeOK
<1>2. QED
    BY <1>1, RemoveType DEF WithoutSleeper

LEMMA InitType == Init => TypeInv
<1> SUFFICES ASSUME Init PROVE TypeInv
    OBVIOUS
<1>1. 0 \in Tid /\ NumTasks \in Nat
    BY SchedAssumption DEF Tid
<1>2. sleepQ \in QueueType(NumTasks, Tid)
    BY <1>1, EmptyQueueType DEF Init
<1>3. TypeOK
    BY <1>1, <1>2, EmptySeq DEF Init, TypeOK, States, System
<1>4. ReadyLocSound /\ RunsATask
    BY DEF Init, ReadyLocSound, RunsATask
<1>5. QED
    BY <1>3, <1>4 DEF TypeInv

\* Every step keeps the types.
LEMMA NextType == TypeInv /\ [Next]_vars => TypeInv'
<1> SUFFICES ASSUME TypeInv, [Next]_vars PROVE TypeInv'
    OBVIOUS
<1>type. /\ TypeOK
         /\ ReadyType
         /\ RunsATask
         /\ System \notin Tid
    BY SchedAssumption DEF TypeInv, TypeOK, ReadyType, Tid, System
<1> DEFINE Rest == /\ state' \in [Tid -> States]
                   /\ deadline' \in [Tid -> Nat]
                   /\ sleepLoc' \in [Tid -> 1 .. NumTasks \cup {NULL}]
                   /\ sleepQ' \in QueueType(NumTasks, Tid)
                   /\ dispatched' \in Tid \cup {System}
                   /\ pc' \in {"main", "wakeup", "run", "suspended"}
                   /\ clock' \in Nat
<1>split. ASSUME ReadyType', Rest, RunsATask'
          PROVE  TypeInv'
    BY <1>split DEF TypeInv, TypeOK, ReadyType
<1>same. ASSUME UNCHANGED <<readyQ, readyLoc>>
         PROVE  ReadyType'
    BY <1>same, <1>type DEF ReadyType, ReadyLocSound, IsReady
<1>1. CASE Start
  <2>1. PICK t \in Tid :
            /\ state' = [state EXCEPT ![t] = "ACTIVE"]
            /\ sleepLoc' = [sleepLoc EXCEPT ![t] = NULL]
            /\ PushReady(t)
      BY <1>1 DEF Start, FreeTids
  <2>2. ReadyType'
      BY <1>type, <2>1, PushReadyType
  <2>3. Rest /\ RunsATask'
      BY <1>type, <1>1, <2>1 DEF Start, TypeOK, States, RunsATask
  <2>4. QED
      BY <1>split, <2>2, <2>3
<1>2. CASE Dispatch
  <2>1. ReadyType'
      BY <1>same, <1>2 DEF Dispatch, taskVars
  <2>2. Rest /\ RunsATask'
      BY <1>type, <1>2 DEF Dispatch, taskVars, TypeOK, RunsATask
  <2>3. QED
      BY <1>split, <2>1, <2>2
<1>3. CASE WakeSleeper
  <2>1. FirstSleeper \in Tid
      BY <1>type, <1>3, FirstSleeperType DEF WakeSleeper
  <2>2. ReadyType'
      BY <1>type, <1>3, <2>1, PushReadyType DEF WakeSleeper
  <2>3. sleepQ' \in QueueType(NumTasks, Tid)
      BY <1>type, <1>3, PopType, SchedAssumption DEF WakeSleeper, TypeOK
  <2>4. Rest /\ RunsATask'
      BY <1>type, <1>3, <2>1, <2>3 DEF WakeSleeper, TypeOK, States, RunsATask
  <2>5. QED
      BY <1>split, <2>2, <2>4
<1>4. CASE Idle
  <2>1. ReadyType'
      BY <1>same, <1>4 DEF Idle, taskVars
  <2>2. Rest /\ RunsATask'
      BY <1>type, <1>4 DEF Idle, taskVars, TypeOK, RunsATask
  <2>3. QED
      BY <1>split, <2>1, <2>2
<1>5. CASE CallTask
  <2>1. /\ Head(readyQ) \in Tid
        /\ readyQ' \in Seq(Tid)
        /\ Len(readyQ') = Len(readyQ) - 1
        /\ \A i \in 1 .. Len(readyQ') : readyQ'[i] = readyQ[i + 1]
      BY <1>type, <1>5, HeadTailProperties DEF CallTask, ReadyType
  <2>2. Rest /\ RunsATask'
      BY <1>type, <1>5, <2>1 DEF CallTask, TypeOK, RunsATask
  <2>3. readyLoc' = [readyLoc EXCEPT ![Head(readyQ)] = FALSE]
      BY <1>5 DEF CallTask
  <2>4. ASSUME NEW u \in Tid, readyLoc'[u]
        PROVE  IsReady(u)'
    <3>1. u # Head(readyQ) /\ readyLoc[u]
        BY <1>type, <2>3, <2>4 DEF ReadyType
    <3>2. PICK i \in 1 .. Len(readyQ) : readyQ[i] = u
        BY <1>type, <3>1 DEF ReadyType, ReadyLocSound, IsReady
    <3>3. i # 1 /\ Len(readyQ) \in Nat
        BY <1>type, <3>1, <3>2, LenProperties DEF ReadyType
    <3>4. i - 1 \in 1 .. Len(readyQ') /\ i - 1 + 1 = i
        BY <2>1, <3>3
    <3>5. QED
        BY <2>1, <3>2, <3>4 DEF IsReady
  <2>5. ReadyType'
      BY <1>type, <2>1, <2>3, <2>4 DEF ReadyType, ReadyLocSound
  <2>6. QED
      BY <1>split, <2>2, <2>5
<1>6. CASE ReturnError
  <2>1. ReadyType'
      BY <1>same, <1>6 DEF ReturnError
  <2>2. Rest /\ RunsATask'
      BY <1>type, <1>6 DEF ReturnError, TypeOK, States, RunsATask
  <2>3. QED
      BY <1>split, <2>1, <2>2
<1>7. CASE Return
  <2>1. dispatched \in Tid
      BY <1>type, <1>7 DEF Return, RunsATask
  <2>2. ReadyType'
    <3>1. CASE state[dispatched] = "ACTIVE"
        BY <1>type, <1>7, <2>1, <3>1, PushReadyType DEF Return
    <3>2. CASE state[dispatched] # "ACTIVE"
        BY <1>same, <1>7, <3>2 DEF Return
    <3>3. QED
        BY <3>1, <3>2
  <2>3. Rest /\ RunsATask'
      BY <1>type, <1>7 DEF Return, TypeOK, RunsATask
  <2>4. QED
      BY <1>split, <2>2, <2>3
<1>8. ASSUME NEW d \in Durations, Sleep(d)
      PROVE  TypeInv'
  <2>1. dispatched \in Tid
      BY <1>type, <1>8 DEF Sleep, RunsATask
  <2>2. WakeAt(d) \in Nat
      BY <1>type, SchedAssumption DEF WakeAt, TypeOK
  <2>3. WithoutSleeper(dispatched) \in QueueType(NumTasks, Tid)
      BY <1>type, <2>1, WithoutSleeperType
  <2>4. sleepQ' \in QueueType(NumTasks, Tid)
      BY <1>8, <2>1, <2>3, SortedPushType DEF Sleep
  <2>5. sleepLoc' \in [Tid -> 1 .. NumTasks \cup {NULL}]
    <3>1. NextNode(WithoutSleeper(dispatched)) \in 1 .. NumTasks \cup {NULL}
        BY <2>3, NextNodeType
    <3>2. QED
        BY <1>type, <1>8, <3>1 DEF Sleep, TypeOK
  <2>6. ReadyType'
    <3>1. CASE sleepLoc[dispatched] = NULL /\ readyLoc[dispatched]
        BY <1>type, <1>8, <2>1, <3>1, RemoveReadyType DEF Sleep
    <3>2. CASE ~(sleepLoc[dispatched] = NULL /\ readyLoc[dispatched])
        BY <1>same, <1>8, <3>2 DEF Sleep
    <3>3. QED
        BY <3>1, <3>2
  <2>7. Rest /\ RunsATask'
      BY <1>type, <1>8, <2>1, <2>2, <2>4, <2>5
      DEF Sleep, TypeOK, States, RunsATask
  <2>8. QED
      BY <1>split, <2>6, <2>7
<1>9. CASE Block
  <2>1. dispatched \in Tid
      BY <1>type, <1>9 DEF Block, RunsATask
  <2>2. WithoutSleeper(dispatched) \in QueueType(NumTasks, Tid)
      BY <1>type, <2>1, WithoutSleeperType
  <2>3. CASE readyLoc[dispatched]
    <3>1. ReadyType'
        BY <1>type, <1>9, <2>1, <2>3, RemoveReadyType DEF Block
    <3>2. Rest /\ RunsATask'
        BY <1>type, <1>9, <2>1, <2>3 DEF Block, TypeOK, States, RunsATask
    <3>3. QED
        BY <1>split, <3>1, <3>2
  <2>4. CASE ~readyLoc[dispatched]
    <3>1. ReadyType'
        BY <1>same, <1>9, <2>4 DEF Block
    <3>2. Rest /\ RunsATask'
        BY <1>type, <1>9, <2>1, <2>2, <2>4 DEF Block, TypeOK, States, RunsATask
    <3>3. QED
        BY <1>split, <3>1, <3>2
  <2>5. QED
      BY <2>3, <2>4
<1>10. ASSUME NEW t \in Tid, Wake(t)
       PROVE  TypeInv'
  <2>1. WithoutSleeper(t) \in QueueType(NumTasks, Tid)
      BY <1>type, WithoutSleeperType
  <2>2. ReadyType'
      BY <1>type, <1>10, PushReadyType DEF Wake
  <2>3. Rest /\ RunsATask'
      BY <1>type, <1>10, <2>1 DEF Wake, TypeOK, States, RunsATask
  <2>4. QED
      BY <1>split, <2>2, <2>3
<1>11. CASE UartWait
  <2>1. dispatched \in Tid
      BY <1>type, <1>11 DEF UartWait, RunsATask
  <2>2. Rest /\ RunsATask'
    <3>1. WithoutSleeper(dispatched) \in QueueType(NumTasks, Tid)
        BY <1>type, <2>1, WithoutSleeperType
    <3>2. QED
        BY <1>type, <1>11, <3>1 DEF UartWait, TypeOK, States, RunsATask
  <2>3. CASE readyLoc[dispatched]
    <3>1. readyQ' = Append(ReadyWithout(dispatched), dispatched)
          /\ readyLoc' = readyLoc
        BY <1>11, <2>3 DEF UartWait
    <3>2. readyQ \in Seq(Tid) /\ IsReady(dispatched)
        BY <1>type, <2>1, <2>3 DEF ReadyType, ReadyLocSound
    <3>3. ReadyWithout(dispatched) \in Seq(Tid)
        BY <2>1, <3>2, ReadyWithoutProperties
    <3> DEFINE w == ReadyWithout(dispatched)
    <3>4. /\ readyQ' \in Seq(Tid)
          /\ Len(readyQ') = Len(w) + 1
          /\ \A i \in 1 .. Len(w) : readyQ'[i] = w[i]
          /\ readyQ'[Len(w) + 1] = dispatched
          /\ Len(w) \in Nat
        BY <2>1, <3>1, <3>3, AppendProperties, LenProperties
    <3>5. ASSUME NEW u \in Tid, readyLoc'[u]
          PROVE  IsReady(u)'
      <4>1. CASE u = dispatched
          BY <3>4, <4>1 DEF IsReady
      <4>2. CASE u # dispatched
        <5>1. IsReady(u)
            BY <1>type, <3>1, <3>5 DEF ReadyType, ReadyLocSound
        <5>2. PICK i \in 1 .. Len(w) : w[i] = u
            BY <2>1, <3>2, <4>2, <5>1, OthersStayReady
        <5>3. i \in 1 .. Len(readyQ') /\ readyQ'[i] = u
            BY <3>4, <5>2
        <5>4. QED
            BY <5>3 DEF IsReady
      <4>3. QED
          BY <4>1, <4>2
    <3>6. ReadyType'
        BY <1>type, <3>1, <3>4, <3>5 DEF ReadyType, ReadyLocSound
    <3>7. QED
        BY <1>split, <2>2, <3>6
  <2>4. CASE ~readyLoc[dispatched]
    <3>1. ReadyType'
        BY <1>type, <1>11, <2>1, <2>4, PushReadyType DEF UartWait
    <3>2. QED
        BY <1>split, <2>2, <3>1
  <2>5. QED
      BY <2>3, <2>4
<1>12. CASE Tick
  <2>1. ReadyType'
      BY <1>same, <1>12 DEF Tick, taskVars
  <2>2. Rest /\ RunsATask'
      BY <1>type, <1>12 DEF Tick, taskVars, TypeOK, RunsATask
  <2>3. QED
      BY <1>split, <2>1, <2>2
<1>13. CASE UNCHANGED vars
  <2>1. ReadyType'
      BY <1>same, <1>13 DEF vars
  <2>2. Rest /\ RunsATask'
      BY <1>type, <1>13 DEF vars, TypeOK, RunsATask
  <2>3. QED
      BY <1>split, <2>1, <2>2
<1>14. QED
    BY <1>1, <1>2, <1>3, <1>4, <1>5, <1>6, <1>7, <1>8, <1>9, <1>10, <1>11,
       <1>12, <1>13 DEF Next

\* Type correctness of the scheduler, whatever the tasks do: in particular a
\* removal from a queue always finds the entry it is meant for.
THEOREM TypeCorrect == Spec => []TypeOK
<1>1. Init => TypeInv
    BY InitType
<1>2. TypeInv /\ [Next]_vars => TypeInv'
    BY NextType
<1>3. TypeInv => TypeOK
    BY DEF TypeInv
<1>4. QED
    BY <1>1, <1>2, <1>3, PTL DEF Spec

-----------------------------------------------------------------------------
(* The ready queue. *)

LEMMA UpToCounted ==
    ASSUME NEW n \in Nat
    PROVE  IsFiniteSet(1 .. n) /\ Cardinality(1 .. n) = n
<1>1. 1 \in Int /\ n \in Int
    OBVIOUS
<1>2. /\ IsFiniteSet(1 .. n)
      /\ Cardinality(1 .. n) = IF 1 > n THEN 0 ELSE n - 1 + 1
    BY <1>1, FS_Interval
<1>3. QED
    BY <1>2

LEMMA TasksCounted == IsFiniteSet(Tid) /\ Cardinality(Tid) = NumTasks
<1>1. NumTasks \in Nat \ {0} /\ 0 \in Int /\ NumTasks - 1 \in Int
    BY SchedAssumption
<1>2. /\ IsFiniteSet(0 .. NumTasks - 1)
      /\ Cardinality(0 .. NumTasks - 1)
            = IF 0 > NumTasks - 1 THEN 0 ELSE NumTasks - 1 - 0 + 1
    BY <1>1, FS_Interval
<1>3. QED
    BY <1>1, <1>2 DEF Tid

\* While a task is off the ready queue, the queue has room: the note at
\* sched.cpp:83-85.
LEMMA RoomForOne ==
    ASSUME readyQ \in Seq(Tid), NoDuplicates(readyQ),
           NEW t \in Tid, ~IsReady(t)
    PROVE  ReadyRoom
<1>1. Len(readyQ) \in Nat /\ NumTasks \in Nat \ {0}
    BY LenProperties, SchedAssumption
<1>2. SUFFICES ASSUME Len(readyQ) >= NumTasks
               PROVE  FALSE
    BY <1>1 DEF ReadyRoom
<1> DEFINE n == Len(readyQ)
           S == 1 .. n
           T == Tid \ {t}
<1>3. readyQ \in [S -> T]
  <2>1. readyQ \in [S -> Tid]
      BY LenProperties
  <2>2. \A i \in S : readyQ[i] # t
      BY DEF IsReady
  <2>3. QED
      BY <2>1, <2>2
<1>4. IsFiniteSet(S) /\ Cardinality(S) = n
    BY <1>1, UpToCounted
<1>5. IsFiniteSet(Tid) /\ Cardinality(Tid) = NumTasks
    BY TasksCounted
<1>6. IsFiniteSet(T) /\ Cardinality(T) = NumTasks - 1
    BY <1>5, FS_RemoveElement
<1>7. Cardinality(T) < Cardinality(S)
    BY <1>1, <1>2, <1>4, <1>6
<1> HIDE DEF S, T
<1>8. \E x, y \in S : x # y /\ readyQ[x] = readyQ[y]
    BY <1>3, <1>4, <1>6, <1>7, FS_PigeonHole
<1>9. QED
    BY <1>8 DEF NoDuplicates, S

\* What ready_loc tells, and no task is queued twice.
ReadyExact ==
    /\ NoDuplicates(readyQ)
    /\ \A u \in Tid : readyLoc[u] <=> IsReady(u)

\* A push on the ready queue of a task that is not on it.
LEMMA PushReadyOutcome ==
    ASSUME TypeOK, ReadyExact, NEW t \in Tid, ~IsReady(t), PushReady(t)
    PROVE  /\ ReadyExact'
           /\ \A u \in Tid : IsReady(u)' <=> u = t \/ IsReady(u)
<1>1. readyQ \in Seq(Tid) /\ readyLoc \in [Tid -> BOOLEAN]
    BY DEF TypeOK
<1>2. ReadyRoom
    BY <1>1, RoomForOne DEF ReadyExact
<1>3. readyQ' = Append(readyQ, t) /\ readyLoc' = [readyLoc EXCEPT ![t] = TRUE]
  <2>1. ReadyRoom = TRUE
      BY <1>2 DEF ReadyRoom
  <2>2. QED
      BY <2>1 DEF PushReady
<1>4. \A i \in 1 .. Len(readyQ) : readyQ[i] # t
    BY DEF IsReady
<1>5. NoDuplicates(readyQ')
    BY <1>1, <1>3, <1>4, GiveFree DEF ReadyExact
<1>6. /\ Len(readyQ) \in Nat
      /\ Len(readyQ') = Len(readyQ) + 1
      /\ \A i \in 1 .. Len(readyQ) : readyQ'[i] = readyQ[i]
      /\ readyQ'[Len(readyQ) + 1] = t
    BY <1>1, <1>3, AppendProperties, LenProperties
<1>7. ASSUME NEW u \in Tid
      PROVE  IsReady(u)' <=> u = t \/ IsReady(u)
  <2>1. ASSUME IsReady(u) PROVE IsReady(u)'
    <3>1. PICK i \in 1 .. Len(readyQ) : readyQ[i] = u
        BY <2>1 DEF IsReady
    <3>2. i \in 1 .. Len(readyQ') /\ readyQ'[i] = u
        BY <1>6, <3>1
    <3>3. QED
        BY <3>2 DEF IsReady
  <2>2. IsReady(t)'
      BY <1>6 DEF IsReady
  <2>3. ASSUME IsReady(u)', u # t PROVE IsReady(u)
    <3>1. PICK i \in 1 .. Len(readyQ') : readyQ'[i] = u
        BY <2>3 DEF IsReady
    <3>2. i \in 1 .. Len(readyQ) /\ readyQ[i] = u
        BY <1>6, <2>3, <3>1
    <3>3. QED
        BY <3>2 DEF IsReady
  <2>4. QED
      BY <2>1, <2>2, <2>3
<1>8. \A u \in Tid : readyLoc'[u] <=> IsReady(u)'
    BY <1>1, <1>3, <1>7 DEF ReadyExact
<1>9. QED
    BY <1>5, <1>7, <1>8 DEF ReadyExact

\* Calling the task at the front of the ready queue.
LEMMA CallTaskOutcome ==
    ASSUME TypeOK, ReadyExact, CallTask
    PROVE  /\ ReadyExact'
           /\ Head(readyQ) \in Tid
           /\ IsReady(Head(readyQ))
           /\ \A u \in Tid : IsReady(u)' <=> u # Head(readyQ) /\ IsReady(u)
<1> DEFINE t == Head(readyQ)
<1>1. /\ readyQ \in Seq(Tid)
      /\ readyQ # <<>>
      /\ readyLoc \in [Tid -> BOOLEAN]
      /\ readyQ' = Tail(readyQ)
      /\ readyLoc' = [readyLoc EXCEPT ![t] = FALSE]
    BY DEF TypeOK, CallTask
<1>2. /\ t \in Tid
      /\ t = readyQ[1]
      /\ Len(readyQ) \in Nat \ {0}
    BY <1>1, HeadTailProperties, LenProperties, EmptySeq
<1>3. IsReady(t)
  <2>1. 1 \in 1 .. Len(readyQ)
      BY <1>2
  <2>2. QED
      BY <1>2, <2>1 DEF IsReady
<1>4. /\ NoDuplicates(readyQ')
      /\ \A u \in Tid : (\A i \in 1 .. Len(readyQ') : readyQ'[i] # u)
             <=> u = t \/ (\A i \in 1 .. Len(readyQ) : readyQ[i] # u)
    BY <1>1, TakeFree DEF ReadyExact
<1>5. \A u \in Tid : IsReady(u)' <=> u # t /\ IsReady(u)
    BY <1>4 DEF IsReady
<1>6. \A u \in Tid : readyLoc'[u] <=> IsReady(u)'
    BY <1>1, <1>2, <1>5 DEF ReadyExact
<1>7. QED
    BY <1>2, <1>3, <1>4, <1>5, <1>6 DEF ReadyExact

-----------------------------------------------------------------------------
(* The sleep queue. *)

\* What the invariant says of the sleep queue's nodes and their tasks.
LEMMA SleepFacts ==
    ASSUME TypeOK, SleepInv
    PROVE  /\ sleepQ \in QueueType(NumTasks, Tid)
           /\ DOMAIN sleepQ.data = 1 .. NumTasks
           /\ LiveNodes(sleepQ) \subseteq 1 .. NumTasks
           /\ NULL \notin 1 .. NumTasks
           /\ \A n \in LiveNodes(sleepQ) :
                 /\ sleepQ.data[n] \in Tid
                 /\ state[sleepQ.data[n]] = "SLEEPING"
                 /\ sleepQ.data[n] \in Sleepers
<1>1. sleepQ \in QueueType(NumTasks, Tid) /\ NULL \notin 1 .. NumTasks
    BY SchedAssumption DEF TypeOK
<1>2. sleepQ.data \in [1 .. NumTasks -> Tid]
    BY <1>1, QueueFields
<1>3. DOMAIN sleepQ.data = 1 .. NumTasks
      /\ LiveNodes(sleepQ) \subseteq 1 .. NumTasks
    BY <1>2 DEF LiveNodes
<1>4. ASSUME NEW n \in LiveNodes(sleepQ)
      PROVE  /\ sleepQ.data[n] \in Tid
             /\ state[sleepQ.data[n]] = "SLEEPING"
             /\ sleepQ.data[n] \in Sleepers
  <2>1. sleepQ.data[n] \in Tid
      BY <1>2, <1>3
  <2>2. sleepLoc[sleepQ.data[n]] # NULL
      BY <1>1, <1>3 DEF SleepInv
  <2>3. QED
      BY <2>1, <2>2 DEF SleepInv
<1>5. QED
    BY <1>1, <1>3, <1>4

\* A sequence without duplicates is no longer than the set it draws from.
LEMMA NoDuplicatesFit ==
    ASSUME NEW n \in Nat, NEW s \in Seq(1 .. n), NoDuplicates(s)
    PROVE  Len(s) <= n
<1> SUFFICES ASSUME ~(Len(s) <= n) PROVE FALSE
    OBVIOUS
<1> DEFINE S == 1 .. Len(s)
           T == 1 .. n
<1>1. Len(s) \in Nat /\ s \in [S -> T]
    BY LenProperties
<1>2. /\ IsFiniteSet(S) /\ Cardinality(S) = Len(s)
      /\ IsFiniteSet(T) /\ Cardinality(T) = n
  <2>1. ASSUME NEW m \in Nat
        PROVE  IsFiniteSet(1 .. m) /\ Cardinality(1 .. m) = m
      BY UpToCounted
  <2>2. QED
      BY <1>1, <2>1
<1>3. Cardinality(T) < Cardinality(S)
    BY <1>1, <1>2
<1> HIDE DEF S, T
<1>4. \E x, y \in S : x # y /\ s[x] = s[y]
    BY <1>1, <1>2, <1>3, FS_PigeonHole
<1>5. QED
    BY <1>4 DEF NoDuplicates, S

\* The order in which the sleep queue is popped is the sequence it holds.
LEMMA HeldIsPopOrder ==
    ASSUME NEW q \in QueueType(NumTasks, Tid), NEW s, HoldsQueue(q, s)
    PROVE  PopOrder(q.list, NumTasks) = s
<1>1. NumTasks \in Nat /\ NULL \notin 1 .. NumTasks
    BY SchedAssumption
<1>2. s \in Seq(1 .. NumTasks) /\ NoDuplicates(s) /\ HoldsList(q.list, s)
    BY HeldNodes DEF HoldsQueue
<1>3. Len(s) <= NumTasks
    BY <1>1, <1>2, NoDuplicatesFit
<1>4. QED
    BY <1>1, <1>2, <1>3, HeldOrders

\* A task that does not sleep finds a node for its push.
LEMMA NodeLeft ==
    ASSUME TypeOK, SleepInv, NEW t \in Tid, state[t] # "SLEEPING"
    PROVE  ~PoolEmpty(sleepQ)
<1> SUFFICES ASSUME PoolEmpty(sleepQ) PROVE FALSE
    OBVIOUS
<1>1. NumTasks \in Nat \ {0}
    BY SchedAssumption
<1> DEFINE S == 1 .. NumTasks
           T == Tid \ {t}
<1>2. LiveNodes(sleepQ) = S
  <2>1. DOMAIN sleepQ.data = S
      BY SleepFacts
  <2>2. sleepQ.free = <<>> /\ Len(<<>>) = 0
      BY DEF PoolEmpty
  <2>3. QED
      BY <2>1, <2>2 DEF LiveNodes
<1>3. sleepQ.data \in [S -> T]
  <2>1. sleepQ.data \in [S -> Tid]
      BY QueueFields DEF TypeOK
  <2>2. \A n \in S : sleepQ.data[n] # t
      BY <1>2, SleepFacts
  <2>3. QED
      BY <2>1, <2>2
<1>4. IsFiniteSet(S) /\ Cardinality(S) = NumTasks
    BY <1>1, UpToCounted
<1>5. IsFiniteSet(Tid) /\ Cardinality(Tid) = NumTasks
    BY TasksCounted
<1>6. IsFiniteSet(T) /\ Cardinality(T) = NumTasks - 1
    BY <1>5, FS_RemoveElement
<1>7. Cardinality(T) < Cardinality(S)
    BY <1>1, <1>4, <1>6
<1>8. \A n \in S : sleepLoc[sleepQ.data[n]] = n
    BY <1>2 DEF SleepInv
<1> HIDE DEF S, T
<1>9. \E x, y \in S : x # y /\ sleepQ.data[x] = sleepQ.data[y]
    BY <1>3, <1>4, <1>6, <1>7, FS_PigeonHole
<1>10. QED
    BY <1>8, <1>9

\* What the wake times of the tasks on the sleep queue may be compared with.
LEMMA WakeTimesType == TypeOK => \A t \in Tid : WakeTime(t) \in Nat
<1> SUFFICES ASSUME TypeOK, NEW t \in Tid PROVE WakeTime(t) \in Nat
    OBVIOUS
<1>1. deadline[t] \in Nat /\ TimeMod \in Nat \ {0}
    BY SchedAssumption DEF TypeOK
<1>2. QED
    BY <1>1 DEF WakeTime

\* The nodes of the sleep queue in the order of Asleep.
LEMMA AsleepFacts ==
    ASSUME TypeOK, SleepInv
    PROVE  /\ Asleep \in Seq(1 .. NumTasks)
           /\ Len(Asleep) \in Nat
           /\ LiveNodes(sleepQ) = {Asleep[i] : i \in 1 .. Len(Asleep)}
           /\ \A i \in 1 .. Len(Asleep) :
                 Asleep[i] \in 1 .. NumTasks /\ sleepQ.data[Asleep[i]] \in Tid
<1>1. /\ Asleep \in Seq(1 .. NumTasks)
      /\ Len(Asleep) \in Nat
      /\ LiveNodes(sleepQ) = {Asleep[i] : i \in 1 .. Len(Asleep)}
  <2>1. sleepQ \in QueueType(NumTasks, Tid) /\ HoldsQueue(sleepQ, Asleep)
      BY DEF TypeOK, SleepInv
  <2>2. QED
      BY <2>1, HeldNodes
<1>2. ASSUME NEW i \in 1 .. Len(Asleep)
      PROVE  Asleep[i] \in 1 .. NumTasks /\ sleepQ.data[Asleep[i]] \in Tid
  <2>1. Asleep[i] \in LiveNodes(sleepQ)
      BY <1>1
  <2>2. QED
      BY <2>1, SleepFacts
<1>3. QED
    BY <1>1, <1>2

\* The dispatcher finds the first of Asleep.
LEMMA FirstAsleep ==
    ASSUME TypeOK, SleepInv, Peek(sleepQ) # NULL
    PROVE  /\ 1 \in 1 .. Len(Asleep)
           /\ Peek(sleepQ) = Asleep[1]
           /\ Peek(sleepQ) \in LiveNodes(sleepQ)
           /\ HoldsQueue(Pop(sleepQ), Without(Asleep, 1))
           /\ Pop(sleepQ).data = sleepQ.data
           /\ Gives(sleepQ, Pop(sleepQ), Peek(sleepQ))
<1>1. /\ sleepQ \in QueueType(NumTasks, Tid)
      /\ HoldsQueue(sleepQ, Asleep)
      /\ NULL \notin 1 .. NumTasks
    BY SchedAssumption DEF TypeOK, SleepInv
<1>2. /\ 1 \in 1 .. Len(Asleep)
      /\ Peek(sleepQ) = Asleep[1]
      /\ HoldsQueue(Pop(sleepQ), Without(Asleep, 1))
      /\ Pop(sleepQ).data = sleepQ.data
      /\ Gives(sleepQ, Pop(sleepQ), Asleep[1])
    BY <1>1, PopHoldsQueue
<1>3. QED
    BY <1>2, AsleepFacts

\* With at most two sleepers, one that is awake goes to sleep at an end of
\* the sleep queue: it finds at most one entry there.
LEMMA TwoSleepAtEnds ==
    ASSUME AtMostTwoSleepers, TypeOK, TypeOK', SleepInv, RunsATask, [Next]_vars
    PROVE  SleepsAtEnds
<1> SUFFICES ASSUME NEW t \in Tid, state[t] # "SLEEPING", state'[t] = "SLEEPING"
             PROVE  \/ \A u \in {v \in Tid : state[v] = "SLEEPING"} :
                           WakeTime(u) < WakeTime(t)'
                    \/ \A u \in {v \in Tid : state[v] = "SLEEPING"} :
                           WakeTime(t)' <= WakeTime(u)
    BY DEF SleepsAtEnds
<1>1. state \in [Tid -> States]
    BY DEF TypeOK
<1>2. PICK d \in Durations : Sleep(d)
    BY <1>1 DEF Next, vars, taskVars, Start, Dispatch, WakeSleeper, Idle,
                CallTask, ReturnError, Return, Block, Wake, UartWait, Tick
<1>3. t = dispatched /\ t \in Sleepers
    BY <1>1, <1>2 DEF Sleep
<1>4. \A u, v \in {w \in Tid : state[w] = "SLEEPING"} : u = v
  <2>1. ASSUME NEW u \in Tid, state[u] = "SLEEPING"
        PROVE  u \in Sleepers /\ u # t
      BY <2>1 DEF SleepInv
  <2>2. QED
      BY <1>3, <2>1 DEF AtMostTwoSleepers
<1>5. \A u \in Tid : WakeTime(u) \in Nat
    BY WakeTimesType
<1>6. WakeTime(t)' \in Nat
  <2>1. deadline'[t] \in Nat /\ TimeMod \in Nat \ {0}
      BY SchedAssumption DEF TypeOK
  <2>2. QED
      BY <2>1 DEF WakeTime
<1> DEFINE w == WakeTime(t)'
<1> HIDE DEF w
<1>7. w \in Nat
    BY <1>6 DEF w
<1>8. CASE \E u \in Tid : state[u] = "SLEEPING"
  <2>1. PICK u \in Tid : state[u] = "SLEEPING"
      BY <1>8
  <2>2. \A v \in {x \in Tid : state[x] = "SLEEPING"} : v = u
      BY <1>4, <2>1
  <2>3. WakeTime(u) < w \/ w <= WakeTime(u)
      BY <1>5, <1>7, <2>1
  <2>4. QED
      BY <2>2, <2>3 DEF w
<1>9. CASE ~(\E u \in Tid : state[u] = "SLEEPING")
    BY <1>9
<1>10. QED
    BY <1>8, <1>9

\* A sleeping task taken off the sleep queue, by sched_wake or because its
\* time has come.
LEMMA SleeperRemoved ==
    ASSUME TypeOK, SleepInv, SortedInv, TypeOK',
           NEW t \in Tid, state[t] = "SLEEPING",
           NEW k \in 1 .. Len(Asleep), sleepLoc[t] = Asleep[k],
           HoldsQueue(sleepQ', Without(Asleep, k)),
           Gives(sleepQ, sleepQ', sleepLoc[t]), sleepQ'.data = sleepQ.data,
           UNCHANGED deadline,
           sleepLoc' = [sleepLoc EXCEPT ![t] = NULL],
           state' = [state EXCEPT ![t] = "ACTIVE"]
    PROVE  SleepInv' /\ SortedInv'
<1>1. /\ sleepLoc \in [Tid -> 1 .. NumTasks \cup {NULL}]
      /\ state \in [Tid -> States]
    BY DEF TypeOK
<1>2. /\ LiveNodes(sleepQ') = LiveNodes(sleepQ) \ {sleepLoc[t]}
      /\ sleepLoc[t] \in LiveNodes(sleepQ)
      /\ sleepQ.data[sleepLoc[t]] = t
    BY DEF Gives, SleepInv
<1>3. \A u \in Tid : sleepLoc'[u] # NULL <=> state'[u] = "SLEEPING"
    BY <1>1 DEF SleepInv
<1>4. ASSUME NEW u \in Tid, state'[u] = "SLEEPING"
      PROVE  /\ u \in Sleepers
             /\ sleepLoc'[u] \in LiveNodes(sleepQ')
             /\ sleepQ'.data[sleepLoc'[u]] = u
  <2>1. u # t /\ state[u] = "SLEEPING" /\ sleepLoc'[u] = sleepLoc[u]
      BY <1>1, <1>4
  <2>2. /\ u \in Sleepers
        /\ sleepLoc[u] \in LiveNodes(sleepQ)
        /\ sleepQ.data[sleepLoc[u]] = u
      BY <2>1 DEF SleepInv
  <2>3. sleepLoc[u] # sleepLoc[t]
      BY <1>2, <2>1, <2>2
  <2>4. QED
      BY <1>2, <2>1, <2>2, <2>3
<1>5. ASSUME NEW n \in LiveNodes(sleepQ')
      PROVE  sleepLoc'[sleepQ'.data[n]] = n
  <2>1. n \in LiveNodes(sleepQ) /\ n # sleepLoc[t]
      BY <1>2
  <2>2. sleepLoc[sleepQ.data[n]] = n /\ sleepQ.data[n] \in Tid
      BY <2>1, SleepFacts DEF SleepInv
  <2>3. QED
      BY <1>1, <2>1, <2>2
<1>6. Asleep' = Without(Asleep, k)
  <2>1. sleepQ' \in QueueType(NumTasks, Tid)
      BY DEF TypeOK
  <2>2. PopOrder(sleepQ'.list, NumTasks) = Without(Asleep, k)
      BY <2>1, HeldIsPopOrder
  <2>3. QED
      BY <2>2 DEF Asleep
<1>7. SleepInv'
  <2>1. HoldsQueue(sleepQ', Asleep')
      BY <1>6
  <2>2. QED
      BY <1>3, <1>4, <1>5, <2>1 DEF SleepInv
\* The tasks that are left follow each other as before.
<1>8. /\ Len(Asleep) \in Nat
      /\ Len(Without(Asleep, k)) = Len(Asleep) - 1
      /\ \A i \in 1 .. Len(Asleep) - 1 :
            Without(Asleep, k)[i] = IF i < k THEN Asleep[i] ELSE Asleep[i + 1]
    BY AsleepFacts, WithoutProperties
<1> DEFINE W(n) == deadline[sleepQ.data[n]] % TimeMod
<1>9. \A i, j \in 1 .. Len(Asleep) : i <= j => W(Asleep[i]) <= W(Asleep[j])
    BY DEF SortedInv, WakeTime
<1> HIDE DEF W
<1>10. ASSUME NEW i \in 1 .. Len(Asleep'), NEW j \in 1 .. Len(Asleep'), i <= j
       PROVE  W(Asleep'[i]) <= W(Asleep'[j])
  <2>1. i \in 1 .. Len(Asleep) - 1 /\ j \in 1 .. Len(Asleep) - 1
      BY <1>6, <1>8
  <2> DEFINE at(m) == IF m < k THEN m ELSE m + 1
  <2>2. /\ at(i) \in 1 .. Len(Asleep)
        /\ at(j) \in 1 .. Len(Asleep)
        /\ at(i) <= at(j)
      BY <1>8, <1>10, <2>1
  <2>3. Asleep'[i] = Asleep[at(i)] /\ Asleep'[j] = Asleep[at(j)]
      BY <1>6, <1>8, <2>1
  <2> HIDE DEF at
  <2>4. QED
      BY <1>9, <2>2, <2>3
<1>11. SortedInv'
    BY <1>10 DEF SortedInv, WakeTime, W
<1>12. QED
    BY <1>7, <1>11

\* Nothing happens to the sleeping tasks.
LEMMA SleepSame ==
    ASSUME SleepInv, SortedInv, UNCHANGED <<sleepQ, sleepLoc, deadline>>,
           \A t \in Tid : state'[t] = "SLEEPING" <=> state[t] = "SLEEPING"
    PROVE  SleepInv' /\ SortedInv'
<1>1. Asleep' = Asleep
    BY DEF Asleep
<1>2. QED
    BY <1>1 DEF SleepInv, SortedInv, WakeTime

\* A running task goes to sleep at an end of the sleep queue.
LEMMA SleeperAdded ==
    ASSUME SleepsAtEnds, TypeOK, TypeOK', SleepInv, SortedInv,
           dispatched \in Tid, state[dispatched] = "ACTIVE",
           NEW d \in Durations, Sleep(d)
    PROVE  SleepInv' /\ SortedInv'
<1> DEFINE t == dispatched
           n == NextNode(sleepQ)
           Sort == SleepSort(deadline')
<1>1. /\ t \in Tid
      /\ t \in Sleepers
      /\ state[t] = "ACTIVE"
    BY DEF Sleep
<1>2. sleepLoc[t] = NULL
    BY <1>1 DEF SleepInv
<1>3. /\ sleepQ' = SortedPush(sleepQ, t, Sort)
      /\ sleepLoc' = [sleepLoc EXCEPT ![t] = n]
      /\ state' = [state EXCEPT ![t] = "SLEEPING"]
      /\ deadline' = [deadline EXCEPT ![t] = WakeAt(d)]
    BY <1>2 DEF Sleep, WithoutSleeper
<1>4. /\ sleepLoc \in [Tid -> 1 .. NumTasks \cup {NULL}]
      /\ state \in [Tid -> States]
      /\ deadline \in [Tid -> Nat]
      /\ sleepQ \in QueueType(NumTasks, Tid)
      /\ sleepQ.data \in [1 .. NumTasks -> Tid]
      /\ NULL \notin 1 .. NumTasks
    BY SleepFacts, QueueFields DEF TypeOK
<1>5. ~PoolEmpty(sleepQ)
    BY <1>1, NodeLeft
<1>6. HoldsQueue(sleepQ, Asleep) /\ NoDuplicates(sleepQ.free)
    BY DEF SleepInv, HoldsQueue
<1>7. /\ n \in 1 .. NumTasks
      /\ Takes(sleepQ, sleepQ', n)
      /\ sleepQ'.data = [sleepQ.data EXCEPT ![n] = t]
    BY <1>1, <1>3, <1>4, <1>5, <1>6, SortedPushLive
<1>8. /\ (\A m \in LiveNodes(sleepQ) : <<sleepQ.data[m], t>> \in Sort)
             => HoldsQueue(sleepQ', Append(Asleep, n))
      /\ (\A m \in LiveNodes(sleepQ) : <<sleepQ.data[m], t>> \notin Sort)
             => HoldsQueue(sleepQ', <<n>> \o Asleep)
    BY <1>1, <1>3, <1>4, <1>5, <1>6, SortedPushHolds
<1> HIDE DEF n
<1>9. n \notin LiveNodes(sleepQ)
      /\ LiveNodes(sleepQ') = LiveNodes(sleepQ) \cup {n}
    BY <1>7 DEF Takes
<1>10. \A u \in Tid : sleepLoc'[u] # NULL <=> state'[u] = "SLEEPING"
    BY <1>1, <1>3, <1>4, <1>7 DEF SleepInv
<1>11. ASSUME NEW u \in Tid, state'[u] = "SLEEPING"
       PROVE  /\ u \in Sleepers
              /\ sleepLoc'[u] \in LiveNodes(sleepQ')
              /\ sleepQ'.data[sleepLoc'[u]] = u
  <2>1. CASE u = t
    <3>1. sleepLoc'[u] = n
        BY <1>3, <1>4, <2>1
    <3>2. sleepQ'.data[n] = t
        BY <1>4, <1>7
    <3>3. QED
        BY <1>1, <1>9, <2>1, <3>1, <3>2
  <2>2. CASE u # t
    <3>1. state[u] = "SLEEPING" /\ sleepLoc'[u] = sleepLoc[u]
        BY <1>3, <1>4, <1>11, <2>2
    <3>2. /\ u \in Sleepers
          /\ sleepLoc[u] \in LiveNodes(sleepQ)
          /\ sleepQ.data[sleepLoc[u]] = u
        BY <3>1 DEF SleepInv
    <3>3. sleepLoc[u] # n
        BY <1>9, <3>2
    <3>4. sleepQ'.data[sleepLoc[u]] = u
        BY <1>4, <1>7, <3>2, <3>3, SleepFacts
    <3>5. QED
        BY <1>9, <3>1, <3>2, <3>4
  <2>3. QED
      BY <2>1, <2>2
<1>12. ASSUME NEW m \in LiveNodes(sleepQ')
       PROVE  sleepLoc'[sleepQ'.data[m]] = m
  <2>1. CASE m = n
      BY <1>1, <1>3, <1>4, <1>7, <2>1
  <2>2. CASE m # n
    <3>1. m \in LiveNodes(sleepQ)
        BY <1>9, <2>2
    <3>2. /\ sleepQ.data[m] \in Tid
          /\ state[sleepQ.data[m]] = "SLEEPING"
          /\ sleepLoc[sleepQ.data[m]] = m
          /\ m \in 1 .. NumTasks
        BY <3>1, SleepFacts DEF SleepInv
    <3>3. sleepQ'.data[m] = sleepQ.data[m] /\ sleepQ.data[m] # t
        BY <1>1, <1>4, <1>7, <2>2, <3>2
    <3>4. QED
        BY <1>3, <1>4, <3>2, <3>3
  <2>3. QED
      BY <2>1, <2>2
\* The wake time of a node's task, once t has its new one.
<1> DEFINE W(u) == deadline'[u] % TimeMod
           V(m) == W(sleepQ'.data[m])
<1>13. \A u, v \in Tid : <<u, v>> \in Sort <=> W(v) > W(u)
    BY DEF SleepSort
<1>14. \A u \in Tid : W(u) \in Nat
  <2>1. \A u \in Tid : deadline'[u] \in Nat
      BY DEF TypeOK
  <2>2. TimeMod \in Nat \ {0}
      BY SchedAssumption
  <2>3. QED
      BY <2>1, <2>2
<1>15. \A u \in Tid : u # t => W(u) = WakeTime(u)
    BY <1>3, <1>4 DEF WakeTime
<1>16. \A u \in Tid : WakeTime(u)' = W(u)
    BY DEF WakeTime
<1> HIDE DEF W, Sort
<1>17. ASSUME NEW m \in LiveNodes(sleepQ)
       PROVE  /\ sleepQ.data[m] \in Tid
              /\ state[sleepQ.data[m]] = "SLEEPING"
              /\ sleepQ.data[m] # t
              /\ V(m) = W(sleepQ.data[m])
              /\ W(sleepQ.data[m]) = WakeTime(sleepQ.data[m])
              /\ V(m) \in Nat
  <2>1. /\ sleepQ.data[m] \in Tid
        /\ state[sleepQ.data[m]] = "SLEEPING"
        /\ m \in 1 .. NumTasks
      BY SleepFacts
  <2>2. sleepQ.data[m] # t /\ sleepQ'.data[m] = sleepQ.data[m]
      BY <1>1, <1>4, <1>7, <1>9, <2>1
  <2>3. QED
      BY <1>14, <1>15, <2>1, <2>2
<1>18. V(n) = W(t) /\ V(n) \in Nat
    BY <1>1, <1>4, <1>7, <1>14
<1> HIDE DEF V
<1>19. \/ \A m \in LiveNodes(sleepQ) : V(m) < V(n)
       \/ \A m \in LiveNodes(sleepQ) : V(n) <= V(m)
  <2>1. LET asleep == {u \in Tid : state[u] = "SLEEPING"}
        IN  \/ \A u \in asleep : WakeTime(u) < W(t)
            \/ \A u \in asleep : W(t) <= WakeTime(u)
    <3>1. state[t] # "SLEEPING" /\ state'[t] = "SLEEPING"
        BY <1>1, <1>3, <1>4
    <3>2. QED
        BY <1>1, <1>16, <3>1 DEF SleepsAtEnds
  <2>2. \A m \in LiveNodes(sleepQ) :
            /\ sleepQ.data[m] \in {u \in Tid : state[u] = "SLEEPING"}
            /\ V(m) = WakeTime(sleepQ.data[m])
      BY <1>17
  <2>3. QED
      BY <1>18, <2>1, <2>2
\* Those that slept already keep their order.
<1>20. /\ Asleep \in Seq(1 .. NumTasks)
       /\ Len(Asleep) \in Nat
       /\ \A i \in 1 .. Len(Asleep) : Asleep[i] \in LiveNodes(sleepQ)
    BY AsleepFacts
<1>21. \A i, j \in 1 .. Len(Asleep) : i <= j => V(Asleep[i]) <= V(Asleep[j])
    BY <1>17, <1>20 DEF SortedInv
<1>22. \A i \in 1 .. Len(Asleep) : V(Asleep[i]) \in Nat
    BY <1>17, <1>20
<1> DEFINE Ordered(s) ==
        \A i, j \in 1 .. Len(s) : i <= j => V(s[i]) <= V(s[j])
<1>23. \E s : HoldsQueue(sleepQ', s) /\ Ordered(s)
  <2>1. CASE \A m \in LiveNodes(sleepQ) : V(m) < V(n)
    <3> DEFINE s == Append(Asleep, n)
    <3>1. \A m \in LiveNodes(sleepQ) : <<sleepQ.data[m], t>> \in Sort
      <4>1. \A m \in LiveNodes(sleepQ) : W(t) > W(sleepQ.data[m])
          BY <1>17, <1>18, <2>1
      <4>2. QED
          BY <1>1, <1>13, <1>17, <4>1
    <3>2. HoldsQueue(sleepQ', s)
        BY <1>8, <3>1
    <3>3. /\ Len(s) = Len(Asleep) + 1
          /\ \A i \in 1 .. Len(Asleep) : s[i] = Asleep[i]
          /\ s[Len(Asleep) + 1] = n
        BY <1>7, <1>20, AppendProperties
    <3> HIDE DEF s
    <3>4. ASSUME NEW i \in 1 .. Len(s), NEW j \in 1 .. Len(s), i <= j
          PROVE  V(s[i]) <= V(s[j])
      <4>1. CASE j \in 1 .. Len(Asleep)
        <5>1. i \in 1 .. Len(Asleep)
            BY <1>20, <3>3, <3>4, <4>1
        <5>2. QED
            BY <1>21, <3>3, <3>4, <4>1, <5>1
      <4>2. CASE j = Len(Asleep) + 1 /\ i \in 1 .. Len(Asleep)
        <5>1. V(Asleep[i]) < V(n)
            BY <1>20, <2>1, <4>2
        <5>2. V(Asleep[i]) <= V(n)
            BY <1>18, <1>22, <4>2, <5>1
        <5>3. QED
            BY <3>3, <4>2, <5>2
      <4>3. CASE j = Len(Asleep) + 1 /\ i = j
        <5>1. V(n) <= V(n)
            BY <1>18
        <5>2. QED
            BY <3>3, <4>3, <5>1
      <4>4. QED
          BY <1>20, <3>3, <3>4, <4>1, <4>2, <4>3
    <3>5. QED
        BY <3>2, <3>4
  <2>2. CASE \A m \in LiveNodes(sleepQ) : V(n) <= V(m)
    <3> DEFINE s == <<n>> \o Asleep
    <3>1. \A m \in LiveNodes(sleepQ) : <<sleepQ.data[m], t>> \notin Sort
      <4>1. \A m \in LiveNodes(sleepQ) : ~(W(t) > W(sleepQ.data[m]))
          BY <1>17, <1>18, <2>2
      <4>2. QED
          BY <1>1, <1>13, <1>17, <4>1
    <3>2. HoldsQueue(sleepQ', s)
        BY <1>8, <3>1
    <3>3. /\ Len(s) = Len(Asleep) + 1
          /\ s[1] = n
          /\ \A i \in 2 .. Len(Asleep) + 1 : s[i] = Asleep[i - 1]
        BY <1>7, <1>20, FrontProperties
    <3> HIDE DEF s
    <3>4. ASSUME NEW i \in 1 .. Len(s), NEW j \in 1 .. Len(s), i <= j
          PROVE  V(s[i]) <= V(s[j])
      <4>1. CASE i # 1
        <5>1. /\ i - 1 \in 1 .. Len(Asleep)
              /\ j - 1 \in 1 .. Len(Asleep)
              /\ i - 1 <= j - 1
              /\ s[i] = Asleep[i - 1]
              /\ s[j] = Asleep[j - 1]
            BY <1>20, <3>3, <3>4, <4>1
        <5>2. QED
            BY <1>21, <5>1
      <4>2. CASE i = 1 /\ j # 1
        <5>1. j - 1 \in 1 .. Len(Asleep) /\ s[j] = Asleep[j - 1]
            BY <1>20, <3>3, <4>2
        <5>2. V(n) <= V(Asleep[j - 1])
            BY <1>20, <2>2, <5>1
        <5>3. QED
            BY <3>3, <4>2, <5>1, <5>2
      <4>3. CASE i = 1 /\ j = 1
        <5>1. V(n) <= V(n)
            BY <1>18
        <5>2. QED
            BY <3>3, <4>3, <5>1
      <4>4. QED
          BY <4>1, <4>2, <4>3
    <3>5. QED
        BY <3>2, <3>4
  <2>3. QED
      BY <1>19, <2>1, <2>2
<1>24. HoldsQueue(sleepQ', Asleep') /\ Ordered(Asleep')
  <2>1. PICK s : HoldsQueue(sleepQ', s) /\ Ordered(s)
      BY <1>23
  <2>2. sleepQ' \in QueueType(NumTasks, Tid)
      BY DEF TypeOK
  <2>3. PopOrder(sleepQ'.list, NumTasks) = s
      BY <2>1, <2>2, HeldIsPopOrder
  <2>4. Asleep' = s
      BY <2>3 DEF Asleep
  <2>5. QED
      BY <2>1, <2>4
<1>25. SleepInv'
    BY <1>10, <1>11, <1>12, <1>24 DEF SleepInv
<1>26. SortedInv'
    BY <1>24 DEF SortedInv, WakeTime, V, W
<1>27. QED
    BY <1>25, <1>26

-----------------------------------------------------------------------------
(* The sleep queue and the tasks that wait on no UART. *)

\* What OthersReadyInv asks of the ready queue for one task.
Exact(u) == AtMostOnce(readyQ, u) /\ (readyLoc[u] <=> IsReady(u))

\* A push does not disturb another task on the ready queue; a task that is
\* not on it is then there once, unless there was no room.
LEMMA PushReadyOthers ==
    ASSUME TypeOK, NEW t \in Tid, PushReady(t), NEW u \in Tid, Exact(u),
           u = t => ~IsReady(u)
    PROVE  Exact(u)' /\ (IsReady(u)' => u = t \/ IsReady(u))
<1> USE DEF IsReady, Occurs
<1>1. readyQ \in Seq(Tid) /\ readyLoc \in [Tid -> BOOLEAN]
    BY DEF TypeOK
<1>2. CASE ReadyRoom
  <2>1. readyQ' = Append(readyQ, t) /\ readyLoc' = [readyLoc EXCEPT ![t] = TRUE]
    <3>1. ReadyRoom = TRUE
        BY <1>2 DEF ReadyRoom
    <3>2. QED
        BY <3>1 DEF PushReady
  <2>2. CASE u = t
    <3>1. ~Occurs(readyQ, u)
        BY <2>2
    <3>2. Occurs(readyQ', u) /\ AtMostOnce(readyQ', u)
        BY <1>1, <2>1, <2>2, <3>1, AppendPuts
    <3>3. QED
        BY <1>1, <2>1, <2>2, <3>2 DEF Exact
  <2>3. CASE u # t
    <3>1. Keeps(readyQ, readyQ', u)
        BY <1>1, <2>1, <2>3, AppendKeeps
    <3>2. readyLoc'[u] = readyLoc[u]
        BY <1>1, <2>1, <2>3
    <3>3. QED
        BY <3>1, <3>2 DEF Exact, Keeps
  <2>4. QED
      BY <2>2, <2>3
<1>3. CASE ~ReadyRoom
  <2>1. readyQ' = readyQ /\ readyLoc' = [readyLoc EXCEPT ![t] = FALSE]
    <3>1. ReadyRoom = FALSE
        BY <1>3 DEF ReadyRoom
    <3>2. QED
        BY <3>1 DEF PushReady
  <2>2. readyLoc'[u] <=> IsReady(u)
      BY <1>1, <2>1 DEF Exact
  <2>3. QED
      BY <2>1, <2>2 DEF Exact
<1>4. QED
    BY <1>2, <1>3

\* Neither does taking a task's last entry out of it.
LEMMA ReadyWithoutOthers ==
    ASSUME readyQ \in Seq(Tid), NEW t \in Tid, IsReady(t), NEW u \in Tid, u # t
    PROVE  Keeps(readyQ, ReadyWithout(t), u)
<1>1. LastEntry(t) \in 1 .. Len(readyQ) /\ readyQ[LastEntry(t)] = t
    BY ReadyWithoutProperties
<1>2. ReadyWithout(t) = Without(readyQ, LastEntry(t))
    BY DEF ReadyWithout, Without
<1>3. QED
    BY <1>1, <1>2, WithoutKeeps

\* Every step keeps the sleep queue as it should be, and what the scheduler
\* knows of the tasks that wait on no UART.
LEMMA OthersNext ==
    ASSUME NoReaderSleeps, ErrorAsleep = {}, TypeInv, OthersInvariant, [Next]_vars,
           SleepsAtEnds
    PROVE  OthersInvariant'
<1>inv. /\ TypeOK
        /\ OthersControlInv
        /\ OthersReadyInv
        /\ SleepInv
        /\ SortedInv
        /\ ReadyLocSound
        /\ RunsATask
        /\ System \notin Tid
    BY SchedAssumption DEF OthersInvariant, TypeInv, Tid, System
<1>types. /\ state \in [Tid -> States]
          /\ sleepLoc \in [Tid -> 1 .. NumTasks \cup {NULL}]
          /\ NULL \notin 1 .. NumTasks
          /\ readyQ \in Seq(Tid)
          /\ readyLoc \in [Tid -> BOOLEAN]
    BY <1>inv, SchedAssumption DEF TypeOK
<1>type. TypeOK'
    BY NextType DEF TypeInv
<1>split. ASSUME OthersControlInv', OthersReadyInv', SleepInv' /\ SortedInv'
          PROVE  OthersInvariant'
    BY <1>split, <1>type DEF OthersInvariant
<1> DEFINE Others == Tid \ UartReaders
<1>others. \A u \in Others : u \in Tid /\ Exact(u)
                             /\ (IsReady(u) => state[u] = "ACTIVE" /\ dispatched # u)
    BY <1>inv DEF OthersReadyInv, Exact
<1>ready. ASSUME \A u \in Others : Exact(u)' /\ (IsReady(u)' => state'[u] = "ACTIVE"
                                                            /\ dispatched' # u)
          PROVE  OthersReadyInv'
    BY <1>ready DEF OthersReadyInv, Exact
<1>same. ASSUME UNCHANGED <<readyQ, readyLoc>>
         PROVE  \A u \in Others : Exact(u)' /\ (IsReady(u)' => IsReady(u))
    BY <1>others, <1>same DEF Exact, IsReady
<1>push. ASSUME NEW t \in Tid, PushReady(t), t \in Others => ~IsReady(t)
         PROVE  \A u \in Others : Exact(u)' /\ (IsReady(u)' => u = t \/ IsReady(u))
    BY <1>inv, <1>others, <1>push, PushReadyOthers
\* The task that runs is awake; if it waits on no UART it is active.
<1>awake. ASSUME pc = "run"
          PROVE  /\ dispatched \in Tid
                 /\ state[dispatched] # "SLEEPING"
                 /\ dispatched \in Others => state[dispatched] = "ACTIVE"
  <2>1. dispatched \in Tid
      BY <1>inv, <1>awake DEF RunsATask
  <2>2. dispatched \in UartReaders => dispatched \notin Sleepers
      BY DEF NoReaderSleeps
  <2>3. QED
      BY <1>inv, <1>awake, <2>1, <2>2 DEF OthersControlInv, SleepInv
<1>1. CASE Start
  <2>1. PICK t \in Tid :
            /\ state[t] = "UNALLOCATED"
            /\ state' = [state EXCEPT ![t] = "ACTIVE"]
            /\ sleepLoc' = [sleepLoc EXCEPT ![t] = NULL]
            /\ PushReady(t)
      BY <1>1 DEF Start, FreeTids
  <2>2. UNCHANGED <<deadline, sleepQ, dispatched, pc>> /\ pc \in {"main", "run"}
      BY <1>1 DEF Start
  <2>3. t \in Others => ~IsReady(t) /\ dispatched # t
      BY <1>inv, <1>others, <1>awake, <2>1, <2>2 DEF OthersControlInv
  <2>4. \A u \in Others : Exact(u)' /\ (IsReady(u)' => u = t \/ IsReady(u))
      BY <1>push, <2>1, <2>3
  <2>5. OthersReadyInv'
      BY <1>ready, <1>others, <1>types, <2>1, <2>2, <2>3, <2>4
  <2>6. OthersControlInv'
      BY <1>inv, <1>types, <1>awake, <2>1, <2>2 DEF OthersControlInv
  <2>7. sleepLoc[t] = NULL
      BY <1>inv, <2>1 DEF SleepInv
  <2>8. sleepLoc' = sleepLoc
      BY <1>types, <2>1, <2>7
  <2>9. \A u \in Tid : state'[u] = "SLEEPING" <=> state[u] = "SLEEPING"
      BY <1>types, <2>1
  <2>10. SleepInv' /\ SortedInv'
      BY <1>inv, <2>2, <2>8, <2>9, SleepSame
  <2>11. QED
      BY <1>split, <2>5, <2>6, <2>10
<1>2. CASE WakeSleeper
  <2> DEFINE n == Peek(sleepQ)
             t == FirstSleeper
  <2>1. /\ pc = "wakeup"
        /\ n # NULL
        /\ sleepQ' = Pop(sleepQ)
        /\ state' = [state EXCEPT ![t] = "ACTIVE"]
        /\ sleepLoc' = [sleepLoc EXCEPT ![t] = NULL]
        /\ PushReady(t)
        /\ UNCHANGED <<deadline, dispatched, pc>>
      BY <1>2 DEF WakeSleeper, SleeperDue
  <2>2. /\ 1 \in 1 .. Len(Asleep)
        /\ n = Asleep[1]
        /\ n \in LiveNodes(sleepQ)
        /\ HoldsQueue(sleepQ', Without(Asleep, 1))
        /\ sleepQ'.data = sleepQ.data
        /\ Gives(sleepQ, sleepQ', n)
      BY <1>inv, <2>1, FirstAsleep
  <2>3. /\ t \in Tid
        /\ state[t] = "SLEEPING"
        /\ sleepLoc[t] = n
      BY <1>inv, <2>2, SleepFacts DEF FirstSleeper, SleepInv
  <2>4. (t \in Others => ~IsReady(t)) /\ dispatched # t
      BY <1>inv, <1>others, <2>1, <2>3 DEF OthersControlInv
  <2>5. \A u \in Others : Exact(u)' /\ (IsReady(u)' => u = t \/ IsReady(u))
      BY <1>push, <2>1, <2>3, <2>4
  <2> HIDE DEF n, t
  <2>6. OthersReadyInv'
      BY <1>ready, <1>others, <1>types, <2>1, <2>3, <2>4, <2>5
  <2>7. OthersControlInv'
      BY <1>inv, <2>1 DEF OthersControlInv
  <2>8. SleepInv' /\ SortedInv'
      BY <1>inv, <1>type, <2>1, <2>2, <2>3, SleeperRemoved
  <2>9. QED
      BY <1>split, <2>6, <2>7, <2>8
<1>3. CASE CallTask
  <2> DEFINE t == Head(readyQ)
  <2>1. /\ UNCHANGED <<state, deadline, sleepLoc, sleepQ>>
        /\ pc = "wakeup"
        /\ dispatched' = t
        /\ pc' = "run"
        /\ readyQ # <<>>
        /\ readyQ' = Tail(readyQ)
        /\ readyLoc' = [readyLoc EXCEPT ![t] = FALSE]
      BY <1>3 DEF CallTask
  <2>2. t \in Tid /\ IsReady(t)
    <3>1. t \in Tid /\ t = readyQ[1] /\ Len(readyQ) \in Nat \ {0}
        BY <1>types, <2>1, HeadTailProperties, LenProperties, EmptySeq
    <3>2. 1 \in 1 .. Len(readyQ)
        BY <3>1
    <3>3. QED
        BY <3>1, <3>2 DEF IsReady
  <2>3. ASSUME NEW u \in Others
        PROVE  /\ AtMostOnce(readyQ', u)
               /\ IsReady(u)' <=> u # t /\ IsReady(u)
    <3>1. AtMostOnce(readyQ, u)
        BY <1>others DEF Exact
    <3>2. AtMostOnce(readyQ', u) /\ (Occurs(readyQ', u) <=> u # t /\ Occurs(readyQ, u))
        BY <1>types, <2>1, <3>1, TailTakes
    <3>3. QED
        BY <3>2 DEF IsReady, Occurs
  <2> HIDE DEF t
  <2>4. \A u \in Others : Exact(u)'
      BY <1>types, <1>others, <2>1, <2>2, <2>3 DEF Exact
  <2>5. OthersReadyInv'
      BY <1>ready, <1>others, <2>1, <2>3, <2>4
  <2>6. OthersControlInv'
      BY <1>others, <2>1, <2>2 DEF OthersControlInv
  <2>7. SleepInv' /\ SortedInv'
      BY <1>inv, <2>1, SleepSame
  <2>8. QED
      BY <1>split, <2>5, <2>6, <2>7
<1>4. CASE ReturnError
  <2> DEFINE t == dispatched
  <2>1. /\ UNCHANGED <<deadline, sleepLoc, sleepQ>>
        /\ UNCHANGED <<readyQ, readyLoc>>
        /\ pc = "run" \/ (pc = "suspended" /\ state[t] # "SLEEPING")
        /\ state' = [state EXCEPT ![t] = "UNALLOCATED"]
        /\ dispatched' = System
        /\ pc' = "main"
      BY <1>4 DEF ReturnError
  <2>2. t \in Tid /\ state[t] # "SLEEPING"
      BY <1>awake, <1>inv, <2>1 DEF RunsATask
  <2>3. OthersControlInv'
      BY <2>1 DEF OthersControlInv
  <2>4. OthersReadyInv'
      BY <1>ready, <1>others, <1>inv, <1>types, <1>same, <2>1, <2>2
  <2>5. \A u \in Tid : state'[u] = "SLEEPING" <=> state[u] = "SLEEPING"
      BY <1>types, <2>1, <2>2
  <2>6. SleepInv' /\ SortedInv'
      BY <1>inv, <2>1, <2>5, SleepSame
  <2>7. QED
      BY <1>split, <2>3, <2>4, <2>6
<1>5. CASE Return
  <2> DEFINE t == dispatched
  <2>1. /\ UNCHANGED <<state, deadline, sleepLoc, sleepQ>>
        /\ pc \in {"run", "suspended"}
        /\ dispatched' = System
        /\ pc' = "main"
      BY <1>5 DEF Return
  <2>2. t \in Tid
      BY <1>inv, <2>1 DEF RunsATask
  <2>3. OthersControlInv'
      BY <2>1 DEF OthersControlInv
  <2>4. \A u \in Others : Exact(u)' /\ (IsReady(u)' =>
                              IsReady(u) \/ (u = t /\ state[u] = "ACTIVE"))
    <3>1. CASE state[t] = "ACTIVE"
      <4>1. PushReady(t) /\ (t \in Others => ~IsReady(t))
          BY <1>5, <1>others, <3>1 DEF Return
      <4>2. QED
          BY <1>push, <2>2, <3>1, <4>1
    <3>2. CASE state[t] # "ACTIVE"
        BY <1>5, <1>same, <3>2 DEF Return
    <3>3. QED
        BY <3>1, <3>2
  <2>5. OthersReadyInv'
      BY <1>ready, <1>others, <1>inv, <2>1, <2>4
  <2>6. SleepInv' /\ SortedInv'
      BY <1>inv, <2>1, SleepSame
  <2>7. QED
      BY <1>split, <2>3, <2>5, <2>6
<1>6. ASSUME NEW d \in Durations, Sleep(d)
      PROVE  OthersInvariant'
  <2> DEFINE t == dispatched
  <2>1. /\ pc = "run"
        /\ t \in Sleepers
        /\ pc' = "suspended"
        /\ state' = [state EXCEPT ![t] = "SLEEPING"]
        /\ dispatched' = dispatched
      BY <1>6 DEF Sleep
  <2>2. t \in Tid /\ t \in Others /\ state[t] = "ACTIVE"
      BY <1>awake, <2>1 DEF NoReaderSleeps
  <2>3. ~readyLoc[t]
      BY <1>others, <2>2 DEF Exact
  <2>4. UNCHANGED <<readyQ, readyLoc>>
      BY <1>6, <2>3 DEF Sleep
  <2>5. OthersControlInv'
      BY <2>1 DEF OthersControlInv
  <2>6. OthersReadyInv'
      BY <1>ready, <1>others, <1>types, <1>same, <2>1, <2>2, <2>4
  <2>7. SleepInv' /\ SortedInv'
      BY <1>inv, <1>type, <1>6, <2>2, SleeperAdded
  <2>8. QED
      BY <1>split, <2>5, <2>6, <2>7
<1>7. CASE Block
  <2> DEFINE t == dispatched
  <2>1. /\ pc = "run"
        /\ pc' = "suspended"
        /\ state' = [state EXCEPT ![t] = "BLOCKED"]
        /\ UNCHANGED <<deadline, dispatched>>
      BY <1>7 DEF Block
  <2>2. t \in Tid /\ state[t] # "SLEEPING" /\ sleepLoc[t] = NULL
      BY <1>awake, <1>inv, <2>1 DEF SleepInv
  <2>3. sleepQ' = sleepQ /\ sleepLoc' = sleepLoc
    <3>1. CASE readyLoc[t]
        BY <1>7, <3>1 DEF Block
    <3>2. CASE ~readyLoc[t]
        BY <1>7, <1>types, <2>2, <3>2 DEF Block, WithoutSleeper
    <3>3. QED
        BY <3>1, <3>2
  <2>4. \A u \in Others : Exact(u)' /\ (IsReady(u)' => IsReady(u))
    <3>1. CASE readyLoc[t]
      <4>1. readyQ' = ReadyWithout(t) /\ readyLoc' = [readyLoc EXCEPT ![t] = FALSE]
          BY <1>7, <3>1 DEF Block, RemoveReady
      <4>2. IsReady(t) /\ t \notin Others
          BY <1>inv, <1>others, <2>2, <3>1 DEF ReadyLocSound
      <4>3. ASSUME NEW u \in Others
            PROVE  Exact(u)' /\ (IsReady(u)' => IsReady(u))
        <5>1. Keeps(readyQ, readyQ', u)
            BY <1>types, <2>2, <4>1, <4>2, ReadyWithoutOthers
        <5>2. readyLoc'[u] = readyLoc[u]
            BY <1>types, <4>1, <4>2
        <5>3. QED
            BY <1>others, <5>1, <5>2 DEF Keeps, Occurs, IsReady, Exact
      <4>4. QED
          BY <4>3
    <3>2. CASE ~readyLoc[t]
        BY <1>7, <1>same, <3>2 DEF Block
    <3>3. QED
        BY <3>1, <3>2
  <2>5. OthersControlInv'
      BY <2>1 DEF OthersControlInv
  <2>6. OthersReadyInv'
      BY <1>ready, <1>others, <1>types, <2>1, <2>2, <2>4
  <2>7. \A u \in Tid : state'[u] = "SLEEPING" <=> state[u] = "SLEEPING"
      BY <1>types, <2>1, <2>2
  <2>8. SleepInv' /\ SortedInv'
      BY <1>inv, <2>1, <2>3, <2>7, SleepSame
  <2>9. QED
      BY <1>split, <2>5, <2>6, <2>8
<1>8. ASSUME NEW t \in Tid, Wake(t)
      PROVE  OthersInvariant'
  <2>1. /\ pc \in {"main", "run"}
        /\ state[t] \in {"BLOCKED", "SLEEPING"}
        /\ sleepQ' = WithoutSleeper(t)
        /\ sleepLoc' = [sleepLoc EXCEPT ![t] = NULL]
        /\ PushReady(t)
        /\ state' = [state EXCEPT ![t] = "ACTIVE"]
        /\ UNCHANGED <<deadline, dispatched, pc>>
      BY <1>8 DEF Wake
  <2>2. t \in Others => ~IsReady(t) /\ dispatched # t
      BY <1>inv, <1>others, <1>awake, <2>1 DEF OthersControlInv
  <2>3. \A u \in Others : Exact(u)' /\ (IsReady(u)' => u = t \/ IsReady(u))
      BY <1>push, <2>1, <2>2
  <2>4. OthersReadyInv'
      BY <1>ready, <1>others, <1>types, <2>1, <2>2, <2>3
  <2>5. OthersControlInv'
      BY <1>inv, <1>types, <1>awake, <2>1 DEF OthersControlInv
  <2>6. CASE state[t] = "BLOCKED"
    <3>1. sleepLoc[t] = NULL
        BY <1>inv, <2>6 DEF SleepInv
    <3>2. sleepQ' = sleepQ /\ sleepLoc' = sleepLoc
        BY <1>types, <2>1, <3>1 DEF WithoutSleeper
    <3>3. \A u \in Tid : state'[u] = "SLEEPING" <=> state[u] = "SLEEPING"
        BY <1>types, <2>1, <2>6
    <3>4. SleepInv' /\ SortedInv'
        BY <1>inv, <2>1, <3>2, <3>3, SleepSame
    <3>5. QED
        BY <1>split, <2>4, <2>5, <3>4
  <2>7. CASE state[t] = "SLEEPING"
    <3>1. sleepLoc[t] \in LiveNodes(sleepQ) /\ sleepLoc[t] # NULL
        BY <1>inv, <2>7 DEF SleepInv
    <3>2. PICK k \in 1 .. Len(Asleep) : sleepLoc[t] = Asleep[k]
        BY <1>inv, <3>1, AsleepFacts
    <3>3. /\ sleepQ' = Remove(sleepQ, Asleep[k])
          /\ sleepQ \in QueueType(NumTasks, Tid)
          /\ HoldsQueue(sleepQ, Asleep)
        BY <1>inv, <2>1, <3>1, <3>2 DEF WithoutSleeper, TypeOK, SleepInv
    <3>4. /\ HoldsQueue(sleepQ', Without(Asleep, k))
          /\ sleepQ'.data = sleepQ.data
          /\ Gives(sleepQ, sleepQ', sleepLoc[t])
        BY <1>types, <3>2, <3>3, RemoveHoldsQueue
    <3>5. SleepInv' /\ SortedInv'
        BY <1>inv, <1>type, <2>1, <2>7, <3>2, <3>4, SleeperRemoved
    <3>6. QED
        BY <1>split, <2>4, <2>5, <3>5
  <2>8. QED
      BY <2>1, <2>6, <2>7
<1>9. CASE UartWait
  <2> DEFINE t == dispatched
  <2>1. /\ pc = "run"
        /\ t \in UartReaders
        /\ sleepQ' = WithoutSleeper(t)
        /\ sleepLoc' = [sleepLoc EXCEPT ![t] = NULL]
        /\ state' = [state EXCEPT ![t] = "ACTIVE"]
        /\ UNCHANGED <<deadline, dispatched, pc>>
      BY <1>9 DEF UartWait
  <2>2. t \in Tid /\ t \notin Others /\ state[t] # "SLEEPING"
      BY <1>awake, <2>1
  <2>3. \A u \in Others : Exact(u)' /\ (IsReady(u)' => IsReady(u))
    <3>1. CASE readyLoc[t]
      <4> DEFINE w == ReadyWithout(t)
      <4>1. readyQ' = Append(w, t) /\ readyLoc' = readyLoc
          BY <1>9, <3>1 DEF UartWait
      <4>2. IsReady(t)
          BY <1>inv, <2>2, <3>1 DEF ReadyLocSound
      <4>3. w \in Seq(Tid)
          BY <1>types, <2>2, <4>2, ReadyWithoutProperties
      <4>4. ASSUME NEW u \in Others
            PROVE  Exact(u)' /\ (IsReady(u)' => IsReady(u))
        <5>1. u # t /\ u \in Tid
            BY <2>2
        <5>2. Keeps(readyQ, w, u)
            BY <1>types, <2>2, <4>2, <5>1, ReadyWithoutOthers
        <5>3. Keeps(w, readyQ', u)
            BY <2>2, <4>1, <4>3, <5>1, AppendKeeps
        <5>4. QED
            BY <1>others, <4>1, <5>2, <5>3 DEF Keeps, Occurs, IsReady, Exact
      <4>5. QED
          BY <4>4
    <3>2. CASE ~readyLoc[t]
      <4>1. PushReady(t)
          BY <1>9, <3>2 DEF UartWait
      <4>2. QED
          BY <1>push, <2>2, <4>1
    <3>3. QED
        BY <3>1, <3>2
  <2>4. OthersReadyInv'
      BY <1>ready, <1>others, <1>types, <2>1, <2>2, <2>3
  <2>5. OthersControlInv'
      BY <1>inv, <2>1 DEF OthersControlInv
\* A reader is on no sleep queue: sched_block finds no sleep_loc to clear.
  <2>6. sleepQ' = sleepQ /\ sleepLoc' = sleepLoc
    <3>1. sleepLoc[t] = NULL
        BY <1>inv, <2>2 DEF SleepInv
    <3>2. QED
        BY <1>types, <2>1, <3>1 DEF WithoutSleeper
  <2>7. \A u \in Tid : state'[u] = "SLEEPING" <=> state[u] = "SLEEPING"
      BY <1>types, <2>1, <2>2
  <2>8. SleepInv' /\ SortedInv'
      BY <1>inv, <2>1, <2>6, <2>7, SleepSame
  <2>9. QED
      BY <1>split, <2>4, <2>5, <2>8
\* The dispatcher's other phases and the clock touch neither queue.
<1>10. CASE Dispatch \/ Idle \/ Tick \/ UNCHANGED vars
  <2>1. /\ UNCHANGED <<state, deadline, sleepLoc, sleepQ>>
        /\ UNCHANGED <<readyQ, readyLoc>>
        /\ \/ pc = "main" /\ pc' = "wakeup" /\ dispatched' = dispatched
           \/ pc' = "main" /\ dispatched' = System
           \/ UNCHANGED <<pc, dispatched>>
      BY <1>10 DEF Dispatch, Idle, Tick, taskVars, vars
  <2>2. OthersControlInv'
      BY <1>inv, <2>1 DEF OthersControlInv
  <2>3. OthersReadyInv'
      BY <1>ready, <1>others, <1>inv, <1>same, <2>1
  <2>4. SleepInv' /\ SortedInv'
      BY <1>inv, <2>1, SleepSame
  <2>5. QED
      BY <1>split, <2>2, <2>3, <2>4
<1>11. QED
    BY <1>1, <1>2, <1>3, <1>4, <1>5, <1>6, <1>7, <1>8, <1>9, <1>10 DEF Next

-----------------------------------------------------------------------------
(* The invariant. *)

\* SchedInvariant is strong enough for the types.
LEMMA InvariantTypes == SchedInvariant => TypeInv
<1>1. SchedInvariant => ReadyLocSound
    BY DEF SchedInvariant, ReadyInv, ReadyLocSound
<1>2. SchedInvariant => RunsATask
    BY DEF SchedInvariant, ControlInv, RunsATask
<1>3. QED
    BY <1>1, <1>2 DEF SchedInvariant, TypeInv

LEMMA InvariantInit == Init => SchedInvariant
<1> SUFFICES ASSUME Init PROVE SchedInvariant
    OBVIOUS
<1>1. TypeOK
    BY InitType DEF TypeInv
<1>2. Len(readyQ) = 0 /\ readyQ = <<>>
    BY DEF Init
<1>3. ControlInv /\ ReadyInv
    BY <1>2 DEF Init, ControlInv, ReadyInv, NoDuplicates, IsReady
<1>4. /\ NumTasks \in Nat
      /\ sleepQ = EmptyQueue(NumTasks, 0)
      /\ sleepQ \in QueueType(NumTasks, Tid)
    BY <1>1, SchedAssumption DEF Init, TypeOK
<1>5. HoldsQueue(sleepQ, << >>)
    BY <1>4, EmptyQueueHolds
<1>6. Asleep = << >>
    BY <1>4, <1>5, HeldIsPopOrder DEF Asleep
<1>7. LiveNodes(sleepQ) = {}
  <2>1. Range(<< >>) = {}
      BY DEF Range
  <2>2. QED
      BY <1>5, <2>1 DEF HoldsQueue
<1>8. SleepInv
    BY <1>5, <1>6, <1>7 DEF SleepInv, Init
<1>9. SortedInv
    BY <1>6 DEF SortedInv
<1>10. QED
    BY <1>1, <1>3, <1>8, <1>9 DEF SchedInvariant

\* Without UART readers SchedInvariant has all that OthersInvariant says.
LEMMA InvariantOthers ==
    UartReaders = {} /\ SchedInvariant => NoReaderSleeps /\ OthersInvariant
<1> SUFFICES ASSUME UartReaders = {}, SchedInvariant
             PROVE  NoReaderSleeps /\ OthersInvariant
    OBVIOUS
<1>1. NoReaderSleeps /\ OthersControlInv
    BY DEF NoReaderSleeps, SchedInvariant, ControlInv, OthersControlInv
<1>2. OthersReadyInv
    BY DEF SchedInvariant, ReadyInv, NoDuplicates, OthersReadyInv, AtMostOnce
<1>3. QED
    BY <1>1, <1>2 DEF SchedInvariant, OthersInvariant

\* Every step keeps the invariant.
LEMMA InvariantNext ==
    ASSUME UartReaders = {}, ErrorAsleep = {}, SchedInvariant, [Next]_vars,
           SleepsAtEnds
    PROVE  SchedInvariant'
<1>inv. /\ TypeOK
        /\ ControlInv
        /\ ReadyInv
        /\ ReadyExact
        /\ SleepInv
        /\ System \notin Tid
    BY SchedAssumption
    DEF SchedInvariant, ReadyInv, ReadyExact, Tid, System
<1>types. state \in [Tid -> States]
    BY <1>inv DEF TypeOK
<1>sleep. TypeOK' /\ SleepInv' /\ SortedInv'
    BY OthersNext, InvariantTypes, InvariantOthers DEF OthersInvariant
<1>split. ASSUME ControlInv', ReadyInv'
          PROVE  SchedInvariant'
    BY <1>split, <1>sleep DEF SchedInvariant
<1>same. ASSUME UNCHANGED <<readyQ, readyLoc>>
         PROVE  ReadyExact' /\ \A u \in Tid : IsReady(u)' <=> IsReady(u)
    BY <1>inv, <1>same DEF ReadyExact, IsReady
<1>push. ASSUME NEW t \in Tid, PushReady(t), ~IsReady(t)
         PROVE  ReadyExact' /\ \A u \in Tid : IsReady(u)' <=> u = t \/ IsReady(u)
    BY <1>inv, <1>push, PushReadyOutcome
<1>1. CASE Start
  <2>1. PICK t \in Tid :
            /\ state[t] = "UNALLOCATED"
            /\ state' = [state EXCEPT ![t] = "ACTIVE"]
            /\ PushReady(t)
      BY <1>1 DEF Start, FreeTids
  <2>2. UNCHANGED <<dispatched, pc>> /\ pc \in {"main", "run"}
      BY <1>1 DEF Start
  <2>3. ~IsReady(t) /\ dispatched # t
      BY <1>inv, <2>1, <2>2 DEF ReadyInv, ControlInv
  <2>4. ReadyExact' /\ \A u \in Tid : IsReady(u)' <=> u = t \/ IsReady(u)
      BY <1>push, <2>1, <2>3
  <2>5. ReadyInv'
      BY <1>inv, <1>types, <2>1, <2>2, <2>3, <2>4 DEF ReadyInv, ReadyExact
  <2>6. ControlInv'
      BY <1>inv, <1>types, <2>1, <2>2, <2>3 DEF ControlInv
  <2>7. QED
      BY <1>split, <2>5, <2>6
<1>2. CASE WakeSleeper
  <2> DEFINE t == FirstSleeper
  <2>1. /\ pc = "wakeup"
        /\ Peek(sleepQ) # NULL
        /\ state' = [state EXCEPT ![t] = "ACTIVE"]
        /\ PushReady(t)
        /\ UNCHANGED <<dispatched, pc>>
      BY <1>2 DEF WakeSleeper, SleeperDue
  <2>2. Peek(sleepQ) \in LiveNodes(sleepQ)
      BY <1>inv, <2>1, FirstAsleep
  <2>3. t \in Tid /\ state[t] = "SLEEPING"
      BY <1>inv, <2>2, SleepFacts DEF FirstSleeper
  <2> HIDE DEF t
  <2>4. ~IsReady(t) /\ dispatched # t
      BY <1>inv, <2>1, <2>3 DEF ReadyInv, ControlInv
  <2>5. ReadyExact' /\ \A u \in Tid : IsReady(u)' <=> u = t \/ IsReady(u)
      BY <1>push, <2>1, <2>3, <2>4
  <2>6. ReadyInv'
      BY <1>inv, <1>types, <2>1, <2>3, <2>4, <2>5 DEF ReadyInv, ReadyExact
  <2>7. ControlInv'
      BY <1>inv, <2>1 DEF ControlInv
  <2>8. QED
      BY <1>split, <2>6, <2>7
<1>3. CASE CallTask
  <2> DEFINE t == Head(readyQ)
  <2>1. /\ UNCHANGED state
        /\ pc = "wakeup"
        /\ dispatched' = t
        /\ pc' = "run"
      BY <1>3 DEF CallTask
  <2>2. /\ ReadyExact'
        /\ t \in Tid
        /\ IsReady(t)
        /\ \A u \in Tid : IsReady(u)' <=> u # t /\ IsReady(u)
      BY <1>inv, <1>3, CallTaskOutcome
  <2> HIDE DEF t
  <2>3. state[t] = "ACTIVE" /\ dispatched = System
      BY <1>inv, <2>1, <2>2 DEF ReadyInv, ControlInv
  <2>4. ControlInv'
      BY <2>1, <2>2, <2>3 DEF ControlInv
  <2>5. ReadyInv'
      BY <1>inv, <2>1, <2>2, <2>3 DEF ReadyInv, ReadyExact
  <2>6. QED
      BY <1>split, <2>4, <2>5
<1>4. CASE ReturnError
  <2> DEFINE t == dispatched
  <2>1. /\ UNCHANGED <<readyQ, readyLoc>>
        /\ pc \in {"run", "suspended"}
        /\ state' = [state EXCEPT ![t] = "UNALLOCATED"]
        /\ dispatched' = System
        /\ pc' = "main"
      BY <1>4 DEF ReturnError
  <2>2. t \in Tid
      BY <1>inv, <2>1 DEF ControlInv
  <2>3. ControlInv'
      BY <2>1 DEF ControlInv
  <2>4. ReadyInv'
      BY <1>inv, <1>types, <1>same, <2>1, <2>2 DEF ReadyInv, ReadyExact
  <2>5. QED
      BY <1>split, <2>3, <2>4
<1>5. CASE Return
  <2> DEFINE t == dispatched
  <2>1. /\ UNCHANGED state
        /\ pc \in {"run", "suspended"}
        /\ dispatched' = System
        /\ pc' = "main"
      BY <1>5 DEF Return
  <2>2. t \in Tid
      BY <1>inv, <2>1 DEF ControlInv
  <2>3. ControlInv'
      BY <2>1 DEF ControlInv
  <2>4. ~IsReady(t)
      BY <1>inv, <2>2 DEF ReadyInv
  <2>5. ReadyInv'
    <3>1. CASE state[t] = "ACTIVE"
      <4>1. ReadyExact' /\ \A u \in Tid : IsReady(u)' <=> u = t \/ IsReady(u)
          BY <1>push, <1>5, <2>2, <2>4, <3>1 DEF Return
      <4>2. QED
          BY <1>inv, <2>1, <2>2, <3>1, <4>1 DEF ReadyInv, ReadyExact
    <3>2. CASE state[t] # "ACTIVE"
      <4>1. UNCHANGED <<readyQ, readyLoc>>
          BY <1>5, <3>2 DEF Return
      <4>2. QED
          BY <1>inv, <1>same, <2>1, <3>2, <4>1 DEF ReadyInv, ReadyExact
    <3>3. QED
        BY <3>1, <3>2
  <2>6. QED
      BY <1>split, <2>3, <2>5
\* A task that runs is on neither queue, so that it goes to sleep or blocks
\* without being taken off one.
<1>6. CASE Block \/ \E d \in Durations : Sleep(d)
  <2> DEFINE t == dispatched
  <2>1. /\ pc = "run"
        /\ pc' = "suspended"
        /\ \E s \in {"SLEEPING", "BLOCKED"} : state' = [state EXCEPT ![t] = s]
        /\ dispatched' = dispatched
      BY <1>6 DEF Sleep, Block
  <2>2. t \in Tid /\ state[t] = "ACTIVE"
      BY <1>inv, <2>1 DEF ControlInv
  <2>3. ~IsReady(t) /\ ~readyLoc[t]
      BY <1>inv, <2>2 DEF ReadyInv
  <2>4. UNCHANGED <<readyQ, readyLoc>>
      BY <1>6, <2>3 DEF Sleep, Block
  <2>5. ControlInv'
      BY <1>types, <2>1, <2>2 DEF ControlInv
  <2>6. ReadyInv'
      BY <1>inv, <1>types, <1>same, <2>1, <2>2, <2>3, <2>4
      DEF ReadyInv, ReadyExact
  <2>7. QED
      BY <1>split, <2>5, <2>6
<1>7. ASSUME NEW t \in Tid, Wake(t)
      PROVE  SchedInvariant'
  <2>1. /\ pc \in {"main", "run"}
        /\ state[t] \in {"BLOCKED", "SLEEPING"}
        /\ PushReady(t)
        /\ state' = [state EXCEPT ![t] = "ACTIVE"]
        /\ UNCHANGED <<dispatched, pc>>
      BY <1>7 DEF Wake
  <2>2. ~IsReady(t) /\ dispatched # t
      BY <1>inv, <2>1 DEF ReadyInv, ControlInv
  <2>3. ReadyExact' /\ \A u \in Tid : IsReady(u)' <=> u = t \/ IsReady(u)
      BY <1>push, <2>1, <2>2
  <2>4. ReadyInv'
      BY <1>inv, <1>types, <2>1, <2>2, <2>3 DEF ReadyInv, ReadyExact
  <2>5. ControlInv'
      BY <1>inv, <1>types, <2>1, <2>2 DEF ControlInv
  <2>6. QED
      BY <1>split, <2>4, <2>5
<1>8. CASE UartWait
    BY <1>8 DEF UartWait
<1>9. CASE Dispatch \/ Idle \/ Tick \/ UNCHANGED vars
  <2>1. /\ UNCHANGED <<state, dispatched>>
        /\ UNCHANGED <<readyQ, readyLoc>>
        /\ \/ pc = "main" /\ pc' = "wakeup"
           \/ pc = "wakeup" /\ pc' = "main"
           \/ pc' = pc
      BY <1>inv, <1>9 DEF Dispatch, Idle, Tick, taskVars, vars, ControlInv
  <2>2. ControlInv'
      BY <1>inv, <2>1 DEF ControlInv
  <2>3. ReadyInv'
      BY <1>inv, <1>same, <2>1 DEF ReadyInv, ReadyExact
  <2>4. QED
      BY <1>split, <2>2, <2>3
<1>10. QED
    BY <1>1, <1>2, <1>3, <1>4, <1>5, <1>6, <1>7, <1>8, <1>9 DEF Next

\* OthersInvariant holds at boot.
LEMMA OthersInit == Init => OthersInvariant
<1> SUFFICES ASSUME Init PROVE OthersInvariant
    OBVIOUS
<1>1. SchedInvariant
    BY InvariantInit
<1>2. OthersControlInv
    BY DEF Init, OthersControlInv
<1>3. OthersReadyInv
    BY <1>1 DEF SchedInvariant, ReadyInv, NoDuplicates, OthersReadyInv, AtMostOnce
<1>4. QED
    BY <1>1, <1>2, <1>3 DEF SchedInvariant, OthersInvariant

\* A step that changes nothing sends no task to sleep.
LEMMA StuttersAtEnds == [SleepsAtEnds]_vars => SleepsAtEnds
BY DEF SleepsAtEnds, vars

\* As long as the tasks go to sleep at the ends of the sleep queue, any number
\* of them, none that sleeps waits on a UART and none ends while it sleeps,
\* the sleep queue and what the scheduler knows of the tasks that wait on no
\* UART stay right, although those that do may be queued twice and be called
\* while they are blocked or after they ended.
THEOREM OthersUndisturbedAtEnds ==
    ASSUME NoReaderSleeps, ErrorAsleep = {}
    PROVE  EndsSpec => []OthersInvariant
<1>1. Init => OthersInvariant /\ TypeInv
    BY OthersInit, InitType
<1>2. OthersInvariant /\ TypeInv /\ [Next]_vars /\ [SleepsAtEnds]_vars
          => (OthersInvariant /\ TypeInv)'
    BY OthersNext, NextType, StuttersAtEnds
<1>3. QED
    BY <1>1, <1>2, PTL DEF EndsSpec, Spec

\* Without UART readers, under the same conditions, nothing is disturbed.
THEOREM InvariantHoldsAtEnds ==
    ASSUME UartReaders = {}, ErrorAsleep = {}
    PROVE  EndsSpec => []SchedInvariant
<1>1. Init => SchedInvariant
    BY InvariantInit
<1>2. SchedInvariant /\ [Next]_vars /\ [SleepsAtEnds]_vars => SchedInvariant'
    BY InvariantNext, StuttersAtEnds
<1>3. QED
    BY <1>1, <1>2, PTL DEF EndsSpec, Spec

\* "a task cannot be on more than one queue at once" (sched.cpp:175) holds as
\* long as the tasks go to sleep at the ends of the sleep queue, none waits on
\* a UART and none ends while it sleeps.
THEOREM OneQueueAtEnds ==
    ASSUME UartReaders = {}, ErrorAsleep = {}
    PROVE  EndsSpec => []OnOneQueue
<1>1. SchedInvariant => OnOneQueue
  <2> SUFFICES ASSUME SchedInvariant, NEW t \in Tid, IsReady(t), IsAsleep(t)
               PROVE  FALSE
      BY DEF OnOneQueue
  <2>1. TypeOK /\ ReadyInv /\ SleepInv
      BY DEF SchedInvariant
  <2>2. PICK k \in 1 .. Len(Asleep) : sleepQ.data[Asleep[k]] = t
      BY DEF IsAsleep
  <2>3. Asleep[k] \in LiveNodes(sleepQ) /\ Asleep[k] # NULL
      BY <2>1, AsleepFacts, SchedAssumption
  <2>4. sleepLoc[t] # NULL
      BY <2>1, <2>2, <2>3 DEF SleepInv
  <2>5. state[t] = "SLEEPING" /\ state[t] = "ACTIVE"
      BY <2>1, <2>4 DEF ReadyInv, SleepInv
  <2>6. QED
      BY <2>5
<1>2. QED
    BY <1>1, InvariantHoldsAtEnds, PTL

\* "we assume we never fail to place a task on the ready queue"
\* (sched.cpp:83): under the same conditions no active task is forgotten.
THEOREM NoTaskLostAtEnds ==
    ASSUME UartReaders = {}, ErrorAsleep = {}
    PROVE  EndsSpec => []NoActiveTaskLost
<1>1. SchedInvariant => NoActiveTaskLost
    BY DEF SchedInvariant, ReadyInv, NoActiveTaskLost
<1>2. QED
    BY <1>1, InvariantHoldsAtEnds, PTL

-----------------------------------------------------------------------------
(* Two sleepers: they cannot but go to sleep at the ends of the queue. *)

\* With at most two sleepers, none of which waits on a UART or ends while it
\* sleeps, every behaviour of the scheduler is one of EndsSpec.
THEOREM TwoAlwaysAtEnds ==
    ASSUME AtMostTwoSleepers, NoReaderSleeps, ErrorAsleep = {}
    PROVE  Spec => EndsSpec
<1> DEFINE Inv == OthersInvariant /\ TypeInv
<1>1. Init => Inv
    BY OthersInit, InitType
<1>2. Inv /\ [Next]_vars => SleepsAtEnds
    BY TwoSleepAtEnds, NextType DEF TypeInv, OthersInvariant
<1>3. Inv /\ [Next]_vars => Inv'
    BY <1>2, OthersNext, NextType
<1>4. QED
    BY <1>1, <1>2, <1>3, PTL DEF EndsSpec, Spec

\* With at most two sleepers, none of which waits on a UART or ends while it
\* sleeps, the sleep queue and the tasks that wait on no UART are never
\* disturbed.
THEOREM OthersUndisturbed ==
    ASSUME AtMostTwoSleepers, NoReaderSleeps, ErrorAsleep = {}
    PROVE  Spec => []OthersInvariant
BY TwoAlwaysAtEnds, OthersUndisturbedAtEnds

\* Without UART readers either, the whole invariant always holds.
THEOREM InvariantHolds ==
    ASSUME AtMostTwoSleepers, UartReaders = {}, ErrorAsleep = {}
    PROVE  Spec => []SchedInvariant
BY TwoAlwaysAtEnds, InvariantHoldsAtEnds DEF NoReaderSleeps

\* When at most two tasks ever sleep, no task waits on a UART and none ends
\* while it sleeps, no task is ever on both queues.
THEOREM OneQueue ==
    ASSUME AtMostTwoSleepers, UartReaders = {}, ErrorAsleep = {}
    PROVE  Spec => []OnOneQueue
BY TwoAlwaysAtEnds, OneQueueAtEnds DEF NoReaderSleeps

\* Under these three conditions no active task is forgotten either.
THEOREM NoTaskLost ==
    ASSUME AtMostTwoSleepers, UartReaders = {}, ErrorAsleep = {}
    PROVE  Spec => []NoActiveTaskLost
BY TwoAlwaysAtEnds, NoTaskLostAtEnds DEF NoReaderSleeps

-----------------------------------------------------------------------------
(* Time, until the 32-bit clock wraps. *)

TimeInv == clock <= Horizon /\ \A t \in Tid : deadline[t] <= Horizon

LEMMA TimeInvInit == Init => TimeInv
BY SchedAssumption DEF Init, TimeInv

LEMMA TimeInvNext == TypeInv /\ TimeInv /\ [Next]_vars => TimeInv'
<1> SUFFICES ASSUME TypeInv, TimeInv, [Next]_vars PROVE TimeInv'
    OBVIOUS
<1>1. /\ clock \in Nat
      /\ deadline \in [Tid -> Nat]
      /\ Horizon \in Nat
    BY SchedAssumption DEF TypeInv, TypeOK
<1>2. CASE Tick
    BY <1>1, <1>2 DEF Tick, taskVars, TimeInv
<1>3. ASSUME NEW d \in Durations, Sleep(d)
      PROVE  TimeInv'
  <2>1. /\ deadline' = [deadline EXCEPT ![dispatched] = WakeAt(d)]
        /\ WakeAt(d) <= Horizon
        /\ clock' = clock
      BY <1>3 DEF Sleep
  <2>2. QED
      BY <1>1, <2>1 DEF TimeInv
<1>4. CASE ~Tick /\ ~(\E d \in Durations : Sleep(d))
  <2>1. UNCHANGED <<clock, deadline>>
      BY <1>4 DEF Next, vars, taskVars, Start, Dispatch, WakeSleeper, Idle,
                  CallTask, ReturnError, Return, Block, Wake, UartWait
  <2>2. QED
      BY <2>1 DEF TimeInv
<1>5. QED
    BY <1>2, <1>3, <1>4

\* While the clock has not wrapped, the times the code compares are the
\* ticks since boot.
LEMMA TimesAreTicks ==
    ASSUME TypeOK, TimeInv, Horizon < TimeMod
    PROVE  GetTime = clock /\ \A t \in Tid : WakeTime(t) = deadline[t]
<1>1. /\ TimeMod \in Nat \ {0}
      /\ Horizon \in Nat
      /\ clock \in 0 .. TimeMod - 1
    BY SchedAssumption DEF TypeOK, TimeInv
<1>2. ASSUME NEW t \in Tid
      PROVE  deadline[t] \in 0 .. TimeMod - 1
    BY <1>1 DEF TypeOK, TimeInv
<1>3. \A x \in 0 .. TimeMod - 1 : x % TimeMod = x
    BY <1>1
<1>4. QED
    BY <1>1, <1>2, <1>3 DEF GetTime, WakeTime

\* "sleep the currently running task for 'N' ticks" (macros/sleep.h:22):
\* until the clock wraps no task is woken early, however many tasks sleep and
\* whatever the sleep queue has lost.
THEOREM NeverEarly ==
    ASSUME Horizon < TimeMod
    PROVE  Spec => NoEarlyWake
<1>1. Init => TypeInv /\ TimeInv
    BY InitType, TimeInvInit
<1>2. TypeInv /\ TimeInv /\ [Next]_vars => (TypeInv /\ TimeInv)'
    BY NextType, TimeInvNext
<1> DEFINE NotEarly(t) == pc = "wakeup" /\ state[t] = "SLEEPING"
                             /\ state'[t] # "SLEEPING" => deadline[t] <= clock
           Step == \A t \in Tid : NotEarly(t)
<1>3. TypeInv /\ TimeInv /\ [Next]_vars => [Step]_vars
  <2> SUFFICES ASSUME TypeInv, TimeInv, [Next]_vars, NEW t \in Tid,
                      pc = "wakeup", state[t] = "SLEEPING",
                      state'[t] # "SLEEPING"
               PROVE  deadline[t] <= clock
      OBVIOUS
  <2>1. WakeSleeper
      BY DEF Next, vars, taskVars, Start, Dispatch, Idle, CallTask,
             ReturnError, Return, Sleep, Block, Wake, UartWait, Tick
  <2>2. FirstSleeper \in Tid
      BY <2>1, FirstSleeperType DEF TypeInv, WakeSleeper
  <2>3. t = FirstSleeper
      BY <2>1, <2>2 DEF WakeSleeper, TypeInv, TypeOK
  <2>4. GetTime >= WakeTime(t)
      BY <2>1, <2>3 DEF WakeSleeper, SleeperDue
  <2>5. GetTime = clock /\ WakeTime(t) = deadline[t]
      BY TimesAreTicks DEF TypeInv
  <2>6. clock \in Nat /\ deadline[t] \in Nat
      BY DEF TypeInv, TypeOK
  <2>7. QED
      BY <2>4, <2>5, <2>6
<1>4. QED
    BY <1>1, <1>2, <1>3, PTL DEF Spec, NoEarlyWake

\* "sort by nearest wakeup time first" (sched.cpp:27): as long as the tasks go
\* to sleep at the ends of the sleep queue, none ends there, and until the
\* clock wraps, the dispatcher leaves no task asleep whose time has come,
\* whatever the tasks that wait on a UART do to the ready queue.
THEOREM NeverOverdueAtEnds ==
    ASSUME NoReaderSleeps, ErrorAsleep = {}, Horizon < TimeMod
    PROVE  EndsSpec => NoOverdueSleeper
<1> DEFINE Inv == OthersInvariant /\ TypeInv /\ TimeInv
<1>1. Init => Inv
    BY OthersInit, InitType, TimeInvInit
<1>2. Inv /\ [Next]_vars /\ [SleepsAtEnds]_vars => Inv'
    BY OthersNext, NextType, TimeInvNext, StuttersAtEnds
<1> DEFINE Step == pc = "wakeup" /\ pc' # "wakeup" =>
                      \A t \in Tid : state[t] = "SLEEPING" => deadline[t] > clock
<1>3. Inv /\ [Next]_vars => [Step]_vars
  <2> SUFFICES ASSUME OthersInvariant, TimeInv, [Next]_vars,
                      pc = "wakeup", pc' # "wakeup",
                      NEW t \in Tid, state[t] = "SLEEPING"
               PROVE  deadline[t] > clock
      OBVIOUS
  <2>1. ~SleeperDue
      BY DEF Next, vars, taskVars, Start, Dispatch, WakeSleeper, Idle,
             CallTask, ReturnError, Return, Sleep, Block, Wake, UartWait, Tick
  <2>2. TypeOK /\ SleepInv /\ SortedInv
      BY DEF OthersInvariant
  <2>3. /\ GetTime = clock
        /\ \A u \in Tid : WakeTime(u) = deadline[u] /\ deadline[u] \in Nat
        /\ clock \in Nat
      BY <2>2, TimesAreTicks DEF TypeOK
  <2>4. sleepLoc[t] \in LiveNodes(sleepQ) /\ sleepQ.data[sleepLoc[t]] = t
      BY <2>2 DEF SleepInv
  <2>5. PICK k \in 1 .. Len(Asleep) : sleepLoc[t] = Asleep[k]
      BY <2>2, <2>4, AsleepFacts
  <2>6. /\ Len(Asleep) \in Nat
        /\ 1 \in 1 .. Len(Asleep)
        /\ sleepQ.data[Asleep[1]] \in Tid
      BY <2>2, <2>5, AsleepFacts
  <2>7. Peek(sleepQ) = Asleep[1] /\ Peek(sleepQ) # NULL
    <3>1. HoldsQueue(sleepQ, Asleep)
        BY <2>2 DEF SleepInv
    <3>2. Asleep # << >>
        BY <2>6
    <3>3. Peek(sleepQ) = Asleep[1]
        BY <3>1, <3>2 DEF HoldsQueue, HoldsList, Peek
    <3>4. Asleep[1] \in 1 .. NumTasks /\ NULL \notin 1 .. NumTasks
        BY <2>2, <2>6, AsleepFacts, SchedAssumption
    <3>5. QED
        BY <3>3, <3>4
  <2> DEFINE first == sleepQ.data[Asleep[1]]
  <2>8. ~(clock >= deadline[first])
      BY <2>1, <2>3, <2>6, <2>7 DEF SleeperDue, FirstSleeper
  <2>9. WakeTime(first) <= WakeTime(sleepQ.data[Asleep[k]])
      BY <2>2, <2>5, <2>6 DEF SortedInv
  <2>10. deadline[first] <= deadline[t]
      BY <2>3, <2>4, <2>5, <2>6, <2>9
  <2>11. deadline[first] \in Nat /\ deadline[t] \in Nat
      BY <2>3, <2>6
  <2> HIDE DEF first
  <2>12. QED
      BY <2>3, <2>8, <2>10, <2>11
<1>4. QED
    BY <1>1, <1>2, <1>3, PTL DEF EndsSpec, Spec, NoOverdueSleeper

\* With at most two sleepers, none of which waits on a UART or ends while it
\* sleeps, no task oversleeps until the clock wraps.
THEOREM NeverOverdue ==
    ASSUME AtMostTwoSleepers, NoReaderSleeps, ErrorAsleep = {}, Horizon < TimeMod
    PROVE  Spec => NoOverdueSleeper
BY TwoAlwaysAtEnds, NeverOverdueAtEnds

-----------------------------------------------------------------------------
(* The scheduler keeps the promise of Tasks. *)

\* A push on the ready queue of a task that is not on it is never refused.
LEMMA PushAppends ==
    ASSUME TypeOK, ReadyInv, NEW t \in Tid, ~IsReady(t), PushReady(t)
    PROVE  readyQ' = Append(readyQ, t)
<1>1. ReadyRoom
    BY RoomForOne DEF TypeOK, ReadyInv
<1>2. ReadyRoom = TRUE
    BY <1>1 DEF ReadyRoom
<1>3. QED
    BY <1>2 DEF PushReady

\* Every step of the scheduler is a step of Tasks, or one that Tasks does not
\* see: of the sleep queue, of the clock, or of the dispatcher's phases.
LEMMA StepsAreSteps ==
    ASSUME UartReaders = {}, SchedInvariant, [Next]_vars
    PROVE  [Promise!TasksNext]_(Promise!taskVars)
<1> USE DEF Promise!taskVars
<1>inv. TypeOK /\ ControlInv /\ ReadyInv /\ SleepInv
    BY DEF SchedInvariant
<1>types. state \in [Tid -> States] /\ NumTasks \in Nat
    BY <1>inv, SchedAssumption DEF TypeOK
<1>system. System \notin Tid
    BY <1>types DEF System, Tid
<1>1. CASE Start
  <2>1. PICK t \in FreeTids :
            /\ state' = [state EXCEPT ![t] = "ACTIVE"]
            /\ PushReady(t)
            /\ UNCHANGED dispatched
      BY <1>1 DEF Start
  <2>2. t \in Tid /\ state[t] = "UNALLOCATED"
      BY DEF FreeTids
  <2>3. readyQ' = Append(readyQ, t)
      BY <1>inv, <2>1, <2>2, PushAppends DEF ReadyInv
  <2>4. Promise!Start(t)
      BY <2>1, <2>2, <2>3 DEF Promise!Start, Promise!MakeReady
  <2>5. QED
      BY <2>2, <2>4 DEF Promise!TasksNext
<1>2. CASE Dispatch
    BY <1>2 DEF Dispatch, taskVars
<1>3. CASE WakeSleeper
  <2> DEFINE t == FirstSleeper
  <2>1. /\ pc = "wakeup"
        /\ SleeperDue
        /\ state' = [state EXCEPT ![t] = "ACTIVE"]
        /\ PushReady(t)
        /\ UNCHANGED dispatched
      BY <1>3 DEF WakeSleeper
  <2>2. t \in Tid /\ state[t] = "SLEEPING"
    <3>1. Peek(sleepQ) \in LiveNodes(sleepQ)
        BY <1>inv, <2>1, FirstAsleep DEF SleeperDue
    <3>2. QED
        BY <1>inv, <3>1, SleepFacts DEF FirstSleeper
  <2>3. dispatched = System /\ ~IsReady(t)
      BY <1>inv, <2>1, <2>2 DEF ControlInv, ReadyInv
  <2> HIDE DEF t
  <2>4. readyQ' = Append(readyQ, t)
      BY <1>inv, <2>1, <2>2, <2>3, PushAppends
  <2>5. Promise!Wake(t)
      BY <1>system, <2>1, <2>2, <2>3, <2>4
      DEF Promise!Wake, Promise!MakeReady, Promise!Suspended
  <2>6. QED
      BY <2>2, <2>5 DEF Promise!TasksNext
<1>4. CASE Idle
    BY <1>inv, <1>4 DEF Idle, taskVars, ControlInv
<1>5. CASE CallTask
  <2>1. dispatched = System
      BY <1>inv, <1>5 DEF CallTask, ControlInv
  <2>2. Promise!Call
      BY <1>5, <2>1 DEF CallTask, Promise!Call
  <2>3. QED
      BY <2>2 DEF Promise!TasksNext
<1>6. CASE ReturnError
  <2>1. dispatched \in Tid
      BY <1>inv, <1>6 DEF ReturnError, ControlInv
  <2>2. Promise!ReturnError(dispatched)
      BY <1>6, <2>1 DEF ReturnError, Promise!ReturnError
  <2>3. QED
      BY <2>1, <2>2 DEF Promise!TasksNext
<1>7. CASE Return
  <2>1. dispatched \in Tid
      BY <1>inv, <1>7 DEF Return, ControlInv
  <2>2. readyQ' = IF state[dispatched] = "ACTIVE"
                  THEN Append(readyQ, dispatched) ELSE readyQ
    <3>1. CASE state[dispatched] = "ACTIVE"
      <4>1. PushReady(dispatched) /\ ~IsReady(dispatched)
          BY <1>inv, <1>7, <2>1, <3>1 DEF Return, ReadyInv
      <4>2. QED
          BY <1>inv, <2>1, <3>1, <4>1, PushAppends
    <3>2. CASE state[dispatched] # "ACTIVE"
        BY <1>7, <3>2 DEF Return
    <3>3. QED
        BY <3>1, <3>2
  <2>3. Promise!Return
      BY <1>7, <1>system, <2>1, <2>2 DEF Return, Promise!Return
  <2>4. QED
      BY <2>3 DEF Promise!TasksNext
<1>8. ASSUME NEW d \in Durations, Sleep(d)
      PROVE  Promise!TasksNext
  <2>1. dispatched \in Tid /\ state[dispatched] = "ACTIVE"
      BY <1>inv, <1>8 DEF Sleep, ControlInv
  <2>2. ~readyLoc[dispatched]
      BY <1>inv, <2>1 DEF ReadyInv
  <2>3. Promise!Suspend(dispatched, "SLEEPING")
      BY <1>8, <2>2 DEF Sleep, Promise!Suspend
  <2>4. QED
      BY <2>1, <2>3 DEF Promise!TasksNext, Promise!Running
<1>9. CASE Block
  <2>1. dispatched \in Tid /\ state[dispatched] = "ACTIVE"
      BY <1>inv, <1>9 DEF Block, ControlInv
  <2>2. ~readyLoc[dispatched]
      BY <1>inv, <2>1 DEF ReadyInv
  <2>3. Promise!Suspend(dispatched, "BLOCKED")
      BY <1>9, <2>2 DEF Block, Promise!Suspend
  <2>4. QED
      BY <2>1, <2>3 DEF Promise!TasksNext, Promise!Running
<1>10. ASSUME NEW t \in Tid, Wake(t)
       PROVE  Promise!TasksNext
  <2>1. /\ pc \in {"main", "run"}
        /\ state[t] \in {"BLOCKED", "SLEEPING"}
        /\ PushReady(t)
        /\ state' = [state EXCEPT ![t] = "ACTIVE"]
        /\ UNCHANGED dispatched
      BY <1>10 DEF Wake
  <2>2. ~IsReady(t) /\ t # dispatched
      BY <1>inv, <1>system, <2>1 DEF ReadyInv, ControlInv
  <2>3. readyQ' = Append(readyQ, t)
      BY <1>inv, <2>1, <2>2, PushAppends
  <2>4. Promise!Wake(t)
      BY <2>1, <2>2, <2>3
      DEF Promise!Wake, Promise!MakeReady, Promise!Suspended
  <2>5. QED
      BY <2>4 DEF Promise!TasksNext
<1>11. CASE UartWait
    BY <1>11 DEF UartWait
<1>12. CASE Tick
    BY <1>12 DEF Tick, taskVars
<1>13. CASE UNCHANGED vars
    BY <1>13 DEF vars
<1>14. QED
    BY <1>1, <1>2, <1>3, <1>4, <1>5, <1>6, <1>7, <1>8, <1>9, <1>10, <1>11,
       <1>12, <1>13 DEF Next

\* The code above the scheduler may rely on Tasks: as long as the tasks go to
\* sleep at the ends of the sleep queue and do not end there, and there are no
\* UART readers, a started or woken task is never dropped, tasks are called in
\* the order in which they became ready, and the sleep queue, the pointers and
\* the dispatcher's phases cannot be seen.
THEOREM ImplementsTasksAtEnds ==
    ASSUME UartReaders = {}, ErrorAsleep = {}
    PROVE  EndsSpec => ImplementsTasks
<1>1. Init => Promise!TasksInit
    BY DEF Init, Promise!TasksInit
<1>2. SchedInvariant /\ [Next]_vars => [Promise!TasksNext]_(Promise!taskVars)
    BY StepsAreSteps
<1>3. QED
    BY <1>1, <1>2, InvariantHoldsAtEnds, PTL
    DEF EndsSpec, Spec, ImplementsTasks, Promise!TasksSpec

\* With at most two sleepers, which do not end while they sleep, and no UART
\* readers it always may.
THEOREM SchedulerImplementsTasks ==
    ASSUME AtMostTwoSleepers, UartReaders = {}, ErrorAsleep = {}
    PROVE  Spec => ImplementsTasks
BY TwoAlwaysAtEnds, ImplementsTasksAtEnds DEF NoReaderSleeps
================================================================================
