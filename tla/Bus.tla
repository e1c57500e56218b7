---------------------------------- MODULE Bus ----------------------------------
(***************************************************************************)
(* The I2C and SPI drivers of the STM32, and the write of its UART driver: *)
(* a task acquires the lock of the bus, starts a transfer, blocks or       *)
(* sleeps until the interrupt of the transfer, and releases the lock.  The *)
(* interrupt only sets a flag; the poll of the driver wakes the task.  The *)
(* lock is a Semaphore of one permit, and the scheduler is Tasks.          *)
(***************************************************************************)
EXTENDS Semaphore

CONSTANT Nobody   \* m_blocked = -1, or no transfer on the wires
ASSUME NobodyIsNoTask == Nobody \notin Tid

\* What a call asks for: a timeout or none, and one transfer or two.
Kinds == [timeout : BOOLEAN, twice : BOOLEAN]
KindsOf(d) ==
    CASE d = "i2c" -> Kinds
      [] d = "spi" -> {k \in Kinds : ~k.twice}
      [] d = "uart" -> {k \in Kinds : ~k.twice /\ ~k.timeout}

VARIABLES
    driver,   \* "i2c", "spi" or "uart"
    phase,    \* how far each task is in its call
    kind,     \* what its call asks for
    outcome,   \* what its call returns
    blocked,  \* m_blocked
    isr,      \* m_isr_flag
    wires,    \* the task whose transfer is on the wires
    done,     \* ghost: the tasks whose transfer has ended
    late      \* ghost: a call ended before its transfer may have, and the bus
              \* has not been quiet since

busVars == <<driver, phase, kind, outcome, blocked, isr, wires, done, late>>
allBusVars == <<vars, busVars>>

BusInit ==
    /\ Init
    /\ driver \in {"i2c", "spi", "uart"}
    /\ phase = [t \in Tid |-> "outside"]
    /\ kind = [t \in Tid |-> [timeout |-> FALSE, twice |-> FALSE]]
    /\ outcome = [t \in Tid |-> "none"]
    /\ blocked = Nobody /\ isr = FALSE /\ wires = Nobody
    /\ done = {} /\ late = FALSE

-----------------------------------------------------------------------------
(* The call of a task.                                                     *)

\* CALL(m_lock.acquire()).
Obtain(t) ==
    /\ phase[t] = "outside"
    /\ Acquire(t)
    /\ phase' = [phase EXCEPT ![t] = IF where'[t] = "inside" THEN "first" ELSE "outside"]
    /\ \E k \in KindsOf(driver) : kind' = [kind EXCEPT ![t] = k]
    /\ outcome' = [outcome EXCEPT ![t] = "none"]
    /\ UNCHANGED <<driver, blocked, isr, wires, done, late>>

\* The hardware takes a transfer if none is on the wires.
Transfers(t) ==
    /\ wires = Nobody
    /\ wires' = t
    /\ done' = done \ {t}
    /\ Suspend(t, IF kind[t].timeout THEN "SLEEPING" ELSE "BLOCKED")
    /\ UNCHANGED <<outcome, count, waiters, locked, where>>
\* HAL_BUSY while one is, or HAL_ERROR.
HalRefuses(t) ==
    /\ blocked' = Nobody
    /\ phase' = [phase EXCEPT ![t] = "release"]
    /\ outcome' = [outcome EXCEPT ![t] = "error"]
    /\ UNCHANGED <<wires, done, vars>>

\* Mutant: only if nothing is in m_blocked.
ClaimIfFree(t) == blocked' = IF blocked = Nobody THEN t ELSE blocked
\* m_blocked = sched_dispatched.
Claim(t) == blocked' = t
StartFirst(t) ==
    /\ phase[t] = "first" /\ Running(t)
    /\ \/ /\ Transfers(t)
          /\ Claim(t)
          /\ phase' = [phase EXCEPT ![t] = "waits"]
       \/ HalRefuses(t)
    /\ UNCHANGED <<driver, kind, isr, late>>

\* Mutant: the timeout goes unseen.
TimedOutUnseen(t) == FALSE
\* m_blocked is only reset in poll: "the operation timed out".
TimedOut(t) == kind[t].timeout /\ blocked # Nobody
\* Mutant: no driver resets it here.
UnblockNever == UNCHANGED blocked
\* The SPI and UART drivers reset it here; the I2C driver does not.
Unblock == blocked' = IF driver = "i2c" THEN blocked ELSE Nobody
Conclude(t) ==
    /\ phase' = [phase EXCEPT ![t] = "release"]
    /\ outcome' = [outcome EXCEPT ![t] = IF TimedOut(t) THEN "error" ELSE "success"]
    /\ late' = (late \/ TimedOut(t) \/ kind[t].twice)
    /\ UNCHANGED <<driver, kind, isr, wires, done, vars>>

FinishFirst(t) ==
    /\ phase[t] = "waits" /\ Running(t) /\ ~kind[t].twice
    /\ Unblock
    /\ Conclude(t)

\* transmitReceive: whether the first transfer timed out is forgotten, and
\* m_blocked is not set again for the second.
StartSecond(t) ==
    /\ phase[t] = "waits" /\ Running(t) /\ kind[t].twice
    /\ \/ /\ Transfers(t)
          /\ phase' = [phase EXCEPT ![t] = "second"]
          /\ UNCHANGED blocked
       \/ HalRefuses(t)
    /\ late' = (late \/ TimedOut(t))
    /\ UNCHANGED <<driver, kind, isr>>
FinishSecond(t) ==
    /\ phase[t] = "second" /\ Running(t)
    /\ UNCHANGED blocked
    /\ Conclude(t)

\* CALL(m_lock.release()), and the call returns.
GiveBack(t) ==
    /\ phase[t] = "release"
    /\ Release(t)
    /\ phase' = [phase EXCEPT ![t] = "outside"]
    /\ UNCHANGED <<driver, kind, outcome, blocked, isr, wires, done, late>>

-----------------------------------------------------------------------------
(* The hardware, the poll of the driver, and the scheduler.                *)

\* The transfer ends: callback() sets the flag.  At any time.
Interrupt ==
    /\ wires # Nobody
    /\ wires' = Nobody /\ isr' = TRUE
    /\ done' = done \cup {wires}
    /\ UNCHANGED <<vars, driver, phase, kind, outcome, blocked, late>>

\* Mutant: m_blocked is reset before WAKE(m_blocked), as in W25Q.h.
PollResetsFirst ==
    /\ dispatched = System /\ isr
    /\ isr' = FALSE
    /\ blocked' = Nobody
    /\ late' = (late /\ wires # Nobody)
    /\ UNCHANGED <<taskVars, semVars, driver, phase, kind, outcome, wires, done>>
\* poll() runs in a task of its own, so between the runs of the others.
Poll ==
    /\ dispatched = System /\ isr
    /\ isr' = FALSE
    /\ blocked' = Nobody
    /\ IF blocked = Nobody THEN UNCHANGED <<state, readyQ>> ELSE WakeIfSuspended(blocked)
    /\ late' = (late /\ wires # Nobody)
    /\ UNCHANGED <<dispatched, semVars, driver, phase, kind, outcome, wires, done>>

\* The dispatcher wakes a task that has slept long enough.
TimeOut(t) ==
    /\ dispatched = System /\ state[t] = "SLEEPING"
    /\ Wake(t)
    /\ UNCHANGED <<semVars, busVars>>

\* Between its calls a task sleeps, or blocks until somebody else wakes it.
ElsewhereWaits(t, s) ==
    /\ phase[t] = "outside" /\ where[t] = "outside"
    /\ WaitElsewhere(t, s)
    /\ UNCHANGED busVars
ElsewhereWakes(t) ==
    /\ phase[t] = "outside" /\ where[t] = "outside" /\ state[t] = "BLOCKED"
    /\ WakeElsewhere(t)
    /\ UNCHANGED busVars

BusStarts(t) == StartTask(t) /\ UNCHANGED busVars
BusCalls == CallTask /\ UNCHANGED busVars
\* A task returns when it waits, or between its calls.
BusReturns ==
    /\ \A t \in Tid : t = dispatched => Suspended(t) \/ phase[t] = "outside"
    /\ ReturnTask
    /\ UNCHANGED busVars

TaskStep(t) ==
    StartFirst(t) \/ FinishFirst(t) \/ StartSecond(t) \/ FinishSecond(t) \/ GiveBack(t)
BusNext ==
    \/ Interrupt \/ Poll \/ BusCalls \/ BusReturns
    \/ \E t \in Tid :
          \/ Obtain(t) \/ TaskStep(t) \/ TimeOut(t) \/ BusStarts(t)
          \/ \E s \in {"SLEEPING", "BLOCKED"} : ElsewhereWaits(t, s)
          \/ ElsewhereWakes(t)

\* The main loop calls the tasks, a task that runs goes on, and transfers end.
\* The task of the poll and the dispatcher run between the runs of the other
\* tasks, again and again, hence strong fairness.
BusFairness ==
    /\ WF_allBusVars(BusCalls) /\ WF_allBusVars(BusReturns)
    /\ WF_allBusVars(Interrupt) /\ SF_allBusVars(Poll)
    /\ \A t \in Tid : WF_allBusVars(TaskStep(t)) /\ SF_allBusVars(TimeOut(t))
                      /\ WF_allBusVars(where[t] = "waiting" /\ Obtain(t))
BusSpec == BusInit /\ [][BusNext]_allBusVars /\ BusFairness

-----------------------------------------------------------------------------
\* "if the ISR didn't occur, the operation timed out" (HAL_I2CDevice.h:118): a
\* call that reports success has made its transfer, as long as no call before
\* it left an interrupt behind: after a timeout, or after transmitReceive, which
\* reports success without a look at its second transfer.
SuccessIsReal ==
    \A t \in Tid : phase[t] = "release" /\ outcome[t] = "success" /\ ~kind[t].twice /\ ~late
                      => t \in done

\* m_blocked names a task that waits for this bus, so that poll wakes nobody
\* out of something else; the I2C driver leaves it behind after a timeout.
WakesTheWaiting ==
    blocked # Nobody =>
        \/ phase[blocked] \in {"waits", "second"}
        \/ driver = "i2c" /\ late

\* The drivers use the lock as the semaphore's own specification has tasks use
\* it, so that what is proved of it holds here: a task waits for a transfer
\* only while it holds the lock, and poll never wakes a task that waits for
\* the lock of its own bus, not even with what a timeout left in m_blocked.
LockDiscipline == Spec

\* Every call ends after it has started its transfer, unless it is a
\* transmitReceive without a timeout.
CallsEnd ==
    \A t \in Tid : phase[t] = "waits" /\ (kind[t].timeout \/ ~kind[t].twice) ~> phase[t] = "outside"
================================================================================
