------------------------------- MODULE UDPSocket -------------------------------
(***************************************************************************)
(* The receive side of a UDP socket (net/stack/IPv4UDP/IPv4UDPSocket.h):   *)
(* tasks take packets from the queue of a socket and block when it is      *)
(* empty; the layers below put packets there and wake the task.  With all  *)
(* buffers taken the oldest packet goes.  The scheduler is Tasks.          *)
(***************************************************************************)
EXTENDS Tasks, Integers

CONSTANTS Sockets, RxSize,   \* the buffers of a socket
          MaxPackets,        \* bound: the packets that arrive at a socket
          NoTask             \* m_blocked = -1
ASSUME SocketAssumption == RxSize \in Nat \ {0} /\ "none" \notin Sockets /\ NoTask \notin Tid

VARIABLES
    rx,        \* m_rx: the packets in each socket's queue, by their numbers
    buffers,   \* the free buffers of m_pool
    waiter,    \* m_blocked
    reading,   \* the socket in whose recv() each task is blocked, or "none"
    arrived,   \* ghost: how many packets each socket has accepted
    got,       \* ghost: the packets its readers got
    used,      \* ghost: which task has called recv() of which socket
    nullRead   \* a task was resumed in recv() and found no packet

sockVars == <<rx, buffers, waiter, reading, arrived, got, used, nullRead>>
sockTaskVars == <<taskVars, sockVars>>

SockInit ==
    /\ TasksInit
    /\ rx = [s \in Sockets |-> << >>]
    /\ buffers = [s \in Sockets |-> RxSize]
    /\ waiter = [s \in Sockets |-> NoTask]
    /\ reading = [t \in Tid |-> "none"]
    /\ arrived = [s \in Sockets |-> 0]
    /\ got = [s \in Sockets |-> {}]
    /\ used = {} /\ nullRead = FALSE

-----------------------------------------------------------------------------
\* recv copies the oldest packet and gives its buffer back.
\* Mutant: the buffer is not freed.
TakePacketLeaks(s) ==
    /\ rx[s] # << >>
    /\ rx' = [rx EXCEPT ![s] = Tail(@)]
    /\ got' = [got EXCEPT ![s] = @ \cup {Head(rx[s])}]
    /\ UNCHANGED buffers
TakePacket(s) ==
    /\ rx[s] # << >>
    /\ rx' = [rx EXCEPT ![s] = Tail(@)]
    /\ buffers' = [buffers EXCEPT ![s] = @ + 1]
    /\ got' = [got EXCEPT ![s] = @ \cup {Head(rx[s])}]

\* A call of recv() when packets wait.
RecvNow(t, s) ==
    /\ Running(t) /\ reading[t] = "none"
    /\ TakePacket(s)
    /\ used' = used \cup {<<t, s>>}
    /\ UNCHANGED <<taskVars, waiter, reading, arrived, nullRead>>

\* A call of recv() when none does.  m_blocked is never reset: once a task has
\* blocked, every such call fails, and no variable changes.
RecvBlocks(t, s) ==
    /\ Running(t) /\ reading[t] = "none"
    /\ rx[s] = << >> /\ waiter[s] = NoTask
    /\ waiter' = [waiter EXCEPT ![s] = t]
    /\ reading' = [reading EXCEPT ![t] = s]
    /\ used' = used \cup {<<t, s>>}
    /\ Suspend(t, "BLOCKED")
    /\ UNCHANGED <<rx, buffers, arrived, got, nullRead>>

\* "assuming this is non-NULL as this task has been woken!"
RecvResumes(t) ==
    /\ Running(t) /\ reading[t] # "none"
    /\ LET s == reading[t]
       IN  IF rx[s] = << >>
           THEN nullRead' = TRUE /\ UNCHANGED <<rx, buffers, got>>
           ELSE TakePacket(s) /\ UNCHANGED nullRead
    /\ reading' = [reading EXCEPT ![t] = "none"]
    /\ UNCHANGED <<taskVars, waiter, arrived, used>>

\* WAKE(m_blocked), whatever that task is suspended for by now.
\* Mutant: every suspended task is woken.
WakeReaders(s) ==
    LET R == {t \in Tid : Suspended(t)}
    IN  IF R = {} THEN UNCHANGED <<state, readyQ>>
        ELSE MakeReady(CHOOSE t \in R : TRUE)
WakeReader(s) ==
    LET t == waiter[s]
    IN  IF t = NoTask THEN UNCHANGED <<state, readyQ>>
        ELSE IF Suspended(t) THEN MakeReady(t) ELSE UNCHANGED <<state, readyQ>>

\* receive(): the packet takes a free buffer, or that of the oldest packet.  It
\* runs in the task that polls the device, or over loopback in a sender.
Deliver(s) ==
    /\ dispatched # System => reading[dispatched] = "none" /\ Running(dispatched)
    /\ arrived[s] < MaxPackets
    /\ arrived' = [arrived EXCEPT ![s] = @ + 1]
    /\ IF buffers[s] > 0
       THEN /\ buffers' = [buffers EXCEPT ![s] = @ - 1]
            /\ rx' = [rx EXCEPT ![s] = Append(@, arrived'[s])]
       ELSE /\ rx' = [rx EXCEPT ![s] = Append(Tail(@), arrived'[s])]
            /\ UNCHANGED buffers
    /\ WakeReader(s)
    /\ UNCHANGED <<dispatched, waiter, reading, got, used, nullRead>>

\* What the tasks do besides; nothing else wakes a task in recv().
SockTaskStep ==
    /\ \/ Call
       \/ Return /\ (Suspended(dispatched) \/ reading[dispatched] = "none")
       \/ \E t \in Tid :
             /\ reading[t] = "none"
             /\ \/ dispatched = System /\ Start(t)
                \/ Running(t) /\ Suspend(t, "SLEEPING")
                \/ dispatched = System /\ state[t] = "SLEEPING" /\ Wake(t)
    /\ UNCHANGED sockVars

SockNext ==
    /\ ~nullRead   \* bound: nothing is claimed once a null pointer was read
    /\ \/ \E t \in Tid, s \in Sockets : RecvNow(t, s) \/ RecvBlocks(t, s)
       \/ \E t \in Tid : RecvResumes(t)
       \/ \E s \in Sockets : Deliver(s)
       \/ SockTaskStep
SockSpec == SockInit /\ [][SockNext]_sockTaskVars

-----------------------------------------------------------------------------
\* "drop the oldest buffer" (IPv4UDPSocket.h:238): the queue holds the newest
\* packets in their order, the pool and the queue always share the buffers,
\* and a packet is dropped only after RxSize others came before it was read.
NewestKept ==
    \A s \in Sockets :
        /\ rx[s] = [i \in 1 .. Len(rx[s]) |-> arrived[s] - Len(rx[s]) + i]
        /\ buffers[s] + Len(rx[s]) = RxSize
        /\ \A p \in (1 .. arrived[s] - Len(rx[s])) \ got[s] : p + RxSize <= arrived[s]

\* "assuming this is non-NULL as this task has been woken!" (:171): true while
\* every socket has one reader and every reader one socket.  A second socket
\* keeps its reader in m_blocked and wakes it for its own packets out of the
\* recv() of the first; a second reader may be the first to take the packet.
OneToOne == \A a, b \in used : a[1] = b[1] <=> a[2] = b[2]
ReaderFindsPacket == OneToOne => ~nullRead
================================================================================
