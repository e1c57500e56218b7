# A formal model of launch-core

launch-core is a C++ library for flight computers: containers without dynamic
memory, a cooperative scheduler with macros that make functions resumable, device
drivers that block on it, a small network stack and a file system. This directory
models its core and its larger drivers in TLA+, checks the models with TLC on small
instances and proves theorems about them with TLAPS for all instances.

Source paths below are relative to `src/`.

## Inventory

### The parts, their state and their operations

| part | state | operations | what makes it correct |
| --- | --- | --- | --- |
| object pool, `pool/pool.h` | descriptors (`owner`, `allocated`), nodes, the lists `m_freeDesc` and `m_freeNodes` | constructor, `alloc`, `free` | no object is offered twice, none that is out, none leaks; a double or foreign free is refused |
| queues, `queue/queue_simple.h`, `queue/allocated_queue.h` | head, tail, size, the links in the nodes, a pool of nodes | `push`, `pop`, `peek`, `remove`, iteration; sorted push | bounded FIFO with removal; both chains agree; sorted order |
| scheduler, `sched/sched.cpp` | task records (state, wake time, the pointers to their queue entries), ready queue, sleep queue, dispatched task | `sched_start`, `sched_dispatch`, `sched_sleep`, `sched_wake`, `sched_block` | a task is on one queue at most, active tasks are never lost, sleepers wake on time, ready tasks run |
| resume macros, `sched/macros/` | per function: one label per task id | `RESUME`, `CALL`, `SLEEP`, `BLOCK`, `YIELD`, `RESET` | a task resumes where it left; a new task starts at the top |
| semaphores, `sync/` | count, queue of waiting task ids, spin lock | `acquire`, `release` | mutual exclusion, no lost wake-up, no waiter forgotten, the lock is always released |
| STM32 bus drivers, `device/platforms/stm32/` | lock, `m_blocked`, `m_isr_flag`, receive buffer | `read`, `write`, `wait`, `poll`, interrupt callback | the task that waits is the one woken, once per transfer; a timeout and a late interrupt do not mix |
| UDP socket and stack, `net/stack/IPv4UDP/` | receive queue, packet pool, `m_blocked`, pool of sockets | `get_socket`, `free_socket`, `bind`, `unbind`, `send`, `recv`, `receive` | packets in order, the oldest dropped when full, no buffer lost, a blocked `recv` is woken |
| UDP ports, `net/udp/` | `port_bindings`, `layer_bindings` | `subscribe_port`, `unsubscribePort` | the two maps agree |
| IPv4 router, `net/ipv4/` | route table, `m_route` | add and remove routes, two-pass `transmit`, `receive` | a packet takes the longest prefix, by the route its header was made for |
| other network layers, `net/eth`, `net/simple_arp`, `net/loopback`, `net/packet` | headers in a packet | `transmit`, `transmit2`, `receive` | straight-line code |
| framing, `net/slip`, `net/kiss` | buffer, escape and parse flags | `encode`, `push` | decoding inverts encoding; an oversized frame does not disturb the next one |
| ring buffer, `ringbuffer/` | head, tail, length | `push`, `pop` | contents are the last bytes pushed, length is exact |
| triple buffer, `triple_buffer/` | one control word | `read`, `write` | does not compile when instantiated (it names a member `ctl` that does not exist) |
| ChainFS, `filesystem/` | descriptor chain on the block device, open files | `init`, `format`, `open`, `read`, `write` | the chain is well formed after every crash; free extents and files do not overlap |
| register drivers LSM6DSL, L3GD20H, LIS3MDL, BMP3XX | the registers of the chip, a byte or struct read from them | setters, getters, sequences of both, callbacks to the bus | a setting does not disturb those it shares a register with; what was set is read back; errors and waits in the middle do no harm |
| W5500 driver, `device/peripherals/wiznet/` | registers, `Sn_RX_RD`, packet buffers | `init`, `poll`, `transmit2`, register access | the read pointer stays at a frame's start, frames go up whole and in order |
| containers `hashmap`, `vector`, `bloom_filter`, `string`, `hash` | arrays | add, remove, get | sequential |
| init task, events, W25Q, Linux devices, small sensors, radio, LEDs | device table; counters; command bytes | start pollers; detect and start callbacks; bus I/O | mostly straight-line code |

### How they interact

Everything blocks through the scheduler. The main loop calls `sched_dispatch` for
ever; the dispatcher calls one task function, which runs until it returns, so tasks
interleave only where they return. A task starts, wakes, sleeps or blocks tasks by
direct calls to the scheduler, in the middle of its run; it may act on itself.
Device interrupts set flags that a polling task turns into `WAKE`. The scheduler
keeps its tasks in an `alloc::Queue` (ready) and an `alloc::SortedQueue` (sleep),
each a linked list over an `alloc::Pool` of nodes, each pool two linked lists again.
The semaphore is a queue of task ids; the bus drivers lock with it. The sensor
drivers call the bus drivers, some with `CALL`, so that they are resumed and make
the call again, some through C callbacks that take `RET_BLOCKED` for an error.
Frames come up from the W5500 or, byte by byte through the UART's ring buffer, from
the SLIP decoder; the layers call one another's `receive` up to the socket, which
wakes the reader.

### What is hard

Sequences of legal calls that leave a link or a pointer stale; one event that is
delivered to the wrong task, or before the task waits for it; a result or a `NULL`
that is not looked at because "we can always push"; limits (the 64 tasks, the pools,
the 32-bit time); task ids that are reused; a transfer that fails or waits between
the read and the write of a register, or between the two writes of a descriptor; an
interrupt between a load and a store. `PROJECT.json` lists each such hazard at its
line with the properties that cover it or the reason none does yet.

## The modules

| module | models | role |
| --- | --- | --- |
| `LinkedQueue` | `queue_simple.h`, `queue_iterator.h` | operators on a list record (head, tail, size, `next`, `prev`) |
| `AllocQueue` | `allocated_queue.h` | a list with its data and its pool of nodes |
| `FifoQueue` | `queue.h`, the interface | abstract: a bounded FIFO sequence with removal by handle |
| `QueueClient` | a client of one `alloc::Queue` | shows that `AllocQueue` implements `FifoQueue` |
| `PoolSpec` | what `alloc::Pool` promises | abstract: a FIFO free list |
| `Pool` | `pool.h` with both node lists | shows that the pool implements `PoolSpec` |
| `Sched` | `sched.cpp`, the macros that call it, and `HAL_UARTDevice::wait` as a caller | the scheduler |
| `Tasks` | what the scheduler promises to the code above it | abstract: states, a ready queue, who runs |
| `Semaphore` | `BlockingSemaphore.h`, `Semaphore.h`, and tasks that use them | the semaphore, over `Tasks` |
| `MCPrimitives`, `MCSemaphore` | - | the instance of pool, queue and semaphore side by side, and those of the semaphore alone |
| `QueueShapes`, `SchedInv` | - | the inductive invariants of the scheduler, without and with UART readers, and the condition under which they hold (`SleepsAtEnds`); `OnOneQueue` |
| `MCSched` | - | its instances |
| `Bus` | the I2C and SPI drivers and the write of the UART driver, `device/platforms/stm32/` | tasks, lock, transfer, interrupt, poll and timeout, over `Semaphore`, which it refines |
| `RegisterScripts`, `Registers` | what all register drivers do, the callbacks in `L3GD20H.h`, `LIS3MDL.h` | a method as a sequence of transfers, each of which may fail or wait |
| `LSM6DSL`, `L3GD20H`, `LIS3MDL`, `BMP3XX`, `W5500Registers` | the drivers' register definitions and methods | tables: fields, methods and their scripts |
| `W5500Frames` | `Wiznet::poll` and `wiz_recv_data` | taking frames from the chip |
| `SerialFrames` | `slip.h`, `RingBuffer.h`, the receive interrupt and `read` of `HAL_UARTDevice.h` | frames on a serial line |
| `Hashmap`, `UDPRouter` | `hashmap.h`, `UDPRouter.h`, `bind` and the socket pool | which port leads to which socket |
| `UDPSocket` | `recv` and `receive` of `IPv4UDPSocket.h` | readers and packets, over `Tasks` |
| `IPv4Router` | the outgoing table of `IPv4Router.h` | over `AllocQueue` |
| `ChainFS` | `ChainFS.h`, `descriptors.h` | the chain, with failed writes and crashes |
| `MCComponents`, `MCSerial` | - | the instance of all of these, and one of the serial line alone |
| `FreeList`, `SeqLemmas`, `QueueLemmas` | - | lemmas on sequences, free lists, linked queues of any length, induction over numbers and recursive functions |
| `SchedProofs`, `PoolProofs`, `QueueProofs`, `SemaphoreProofs`, `RegisterProofs` | - | theorems on the module of that name; `SemaphoreProofs` also holds those on `Bus`, `QueueProofs` those on `QueueClient` |
| `ComponentProofs` | - | theorems on `ChainFS`, `W5500Frames`, `UDPRouter`, `UDPSocket` and `SerialFrames` |

### Pool and queues

A node's links stay in the record when the node leaves its list, as in the code. A
descriptor is a number; `OwnedByThis` is the owner test. `Pool` keeps the pairing of
nodes with descriptors (`data`) because every `alloc` and `free` changes it; the
refinement maps the descriptors of the nodes of `m_freeDesc`, in popping order, to
`PoolSpec`'s free list, and the allocated flags to its set of objects that are out.
Every other module uses a pool as `PoolSpec`'s free list.

`SortedPushNode` is written from the loop of `SimpleSortedQueue::push_node`: the
nodes the scan looks at are a least set, and the node is linked in as the code does,
without the update of the predecessor's `next`. Nothing repairs that link, so the
scan order and the popping order are different sequences in general.

### Scheduler

One action per function call, or per iteration of the dispatcher's wake-up loop:

| action | code |
| --- | --- |
| `Start` | `sched_start`, lowest free id first |
| `Dispatch`, `WakeSleeper`, `Idle`, `CallTask` | `sched_dispatch` up to the call of the task function, with the loop of `_sched_wakeup_tasks` |
| `Sleep`, `Block` | `SLEEP`, `BLOCK`: the call to the scheduler; the task then only returns (`pc = "suspended"`) |
| `Wake` | `WAKE` of any task by the main loop or by the task that runs |
| `UartWait` | `HAL_UARTDevice::wait` when enough data is buffered: block and wake of the running task in one run |
| `Return` | the return of the task function and the end of `sched_dispatch` |
| `ReturnError` | the same after `RET_ERROR`: the slot is freed, and nothing else is changed |
| `Tick` | the time source |

The ready queue is a sequence, which `QueueClient` justifies; the sleep queue is the
`AllocQueue` record itself. A pointer to a ready queue entry is a Boolean, because
only the entry pushed last is ever pointed to; a pointer to a sleep queue entry is
its node. `Tasks` keeps only the states, the ready queue and the task that runs; the
sleep queue, the pointers, the clock and the dispatcher's phases are invisible in it
(`ImplementsTasks`). Deadlines are kept unwrapped and compared modulo `TimeMod`, as
the code compares `uint32_t` values.

`UartWait` is what `sched_block` and `sched_wake` make together of the running task:
`BLOCKED` and off one queue, then `ACTIVE` and pushed again. A reader that is called
from its second entry on the ready queue, while it is blocked or its slot is free, is
active afterwards and queued again when it returns.

A task may return `RET_ERROR` while it runs, and after it blocked: the callbacks of
the C drivers take `RET_BLOCKED` for an error (`L3GD20H.h:866-898`), and the method
fails. Nothing in the scheduler stops a task from doing so after it went to sleep;
its entry then stays on the sleep queue. No driver of this commit does it, because
the callbacks pass no timeout; the task ids in `ErrorAsleep` do. The run
`sched_error_asleep` shows what comes of it, in all other runs `ErrorAsleep = {}`.

`Wake` does not happen inside the dispatcher or after `Block`: the one `WAKE` that
an interrupt handler issues in this commit (`HAL_UARTDevice.h:265`) passes the id
that stands for "no task".

### Semaphore

`Semaphore` extends `Tasks`, which `Sched` implements, so its tasks are scheduled as
the code's are, without the sleep queue and the clock. `acquire` and `release` are
one step each, because nothing else runs in between: interrupts touch neither.

| action | code |
| --- | --- |
| `Acquire` | one round of the loop in `acquire`: take a permit (`Take`), or queue up and block (`QueueUp`), or fail on a full queue with the lock held (`Refuse`) |
| `Release` | `release`, with the `WAKE` of the first waiter |
| `CallTask`, `ReturnTask`, `StartTask`, `EndTask` | the scheduler; a task that was woken in `acquire` goes on there when it is called, whether its label says `_start` or `_block` |
| `WaitElsewhere`, `WakeElsewhere` | the task blocks or sleeps in other functions, with or without a permit, and is woken |

`where[t]` is "waiting" from the task's entry on the wait queue until it has a
permit. A task ends, suspended or not, only when it neither waits nor holds a permit:
the drivers that use `CALL` release before they return. The callbacks of the C
drivers do not (`L3GD20H.h:866-898`): the method may fail with the bus locked or the
task in the wait queue. That is not modelled here.
`WakeElsewhere` wakes tasks in `acquire` only if they are in `StrayWoken`: an I2C
driver's `poll` does that to a task whose transfer timed out, once the late
interrupt comes. With `StrayWoken = {}` only `release` does.

### Bus drivers

`phase[t]` says how far task `t` is in its call, and `kind[t]` whether the call has
a timeout and a second transfer; only the I2C driver has `transmitReceive`, and the
write of the UART driver has no timeout.

| action | code |
| --- | --- |
| `Obtain`, `GiveBack` | `CALL(m_lock.acquire())`, `CALL(m_lock.release())`: the semaphore's own actions |
| `StartFirst`, `StartSecond` | `m_blocked = sched_dispatched`, `HAL_..._IT`, `SLEEP` or `BLOCK`; or the HAL refuses |
| `FinishFirst`, `FinishSecond` | what follows `SLEEP` or `BLOCK`: timed out, when `m_blocked` is not reset |
| `Interrupt` | `callback`, at any time while a transfer is on the wires |
| `Poll` | `poll`: flag, `WAKE(m_blocked)`, reset, in that order |
| `TimeOut` | the dispatcher ends the `SLEEP` |

A second transfer is started without setting `m_blocked` again, and whether the
first one timed out is forgotten, as in the code. `late` is true from a call that
may have ended before its transfer until the bus is quiet: what the drivers claim,
they claim without it. A UART read is not in `Bus`, because its interrupt wakes a
task only when `m_blocked` is -1: a reader that blocks is not woken
(`SerialFrames!ReadBlocks`).

### Register drivers

A register is the set of its one bits. Each driver's module is a table: the fields
of its registers, and for every method the script of transfers its body makes for
each argument. `Read`, `Put`, `Change`, `Update`, `Expect` and `When` stand for the
ways the drivers use the bus. `Registers` runs a script: one action for each
transfer, one for its failure (`BusFails`; the byte may have arrived), and those for
a transfer that has to wait. A driver that uses `CALL` makes the call again when it
is resumed; `source` says where the bytes live meanwhile, and `WriteGarbled` sends
something else when they do not survive. The C drivers go through callbacks:
`CallbackWaits` ends the method with an error and leaves the callback's label
behind, so that the next transfer of the kind finishes the old one and does nothing
(`CallbackFinishesOld`).

### Frames

`W5500Frames` counts positions in all bytes that came in, so the chip's ring of
memory does not wrap; `rd` is `Sn_RX_RD`, `committed` what `RECV` has freed. Each
transfer of `poll` is an action with a twin in which it fails. `poll` ignores the
error of `getSn_RX_RSR`, and the static variables keep what the last poll left.

`SerialFrames` is the whole way of a frame from the encoder over the line, the
interrupt, the ring and the poll to the decoder. `m_len -= i` is a load and a store
(`LoadLen`, `StoreLen`), between which the interrupt may push. The decoder stores an
escaped byte as it came (`slip.h:183` computes the byte and drops it), so the frame
for a payload holds a code in the place of each END and ESC (`Stored`).
`FramesArrive` is about framing only and compares with that; `PayloadsRestored` says
what the comments do, that the payload comes back, and is false.

### Sockets, ports and routes

`UDPSocket` numbers packets. `RecvNow`, `RecvBlocks` and `RecvResumes` are the three
ways through `recv`; `Deliver` is `receive`, in the polling task or, over loopback,
in the task that sends. `m_blocked` is never reset, so it wakes its task out of
whatever that task waits for later. `UDPRouter` keeps the two maps as `Hashmap`
slots, because the order in which equal keys are found, and the values left in
slots, decide what `unbind` removes. `IPv4Router` iterates the queue from the head,
as the code does.

### ChainFS

`disk` is the descriptor in each block. `GetFreeBlock`, `Link` and `Describe` are
the three device writes that add a descriptor; each may fail, or the power may go,
before or after it took effect (`Crash`); so may the one write of `format`
(`FormatFails`). `torn` follows the window the comment in
`add_descriptor` names: a block is linked before it is written, and holds whatever
it held before.

### Side by side

`MCComponents` holds these modules in one specification: the part chosen at the
start moves, the others rest. Its behaviours are those of each module's own
specification, with the variables of the others constant. The components that do
interact are composed below: `Bus` with `Semaphore` and `Tasks`, `UDPSocket` with
`Tasks`, the five tables with `Registers`, `UDPRouter` with `Hashmap`, encoder, ring
and decoder in `SerialFrames`.

## The runs

| run | instance | shows |
| --- | --- | --- |
| `primitives` | pool of 3 objects and a foreign one; queue of 3 nodes and 2 objects; semaphore of 2 permits with 4 tasks | pool: `NodesConserved`, `FreeListExact`, refinement of `PoolSpec`; queue: `ChainsAgree`, refinement of `FifoQueue`; semaphore: conservation of permits, exact wait queue, no lost wake-up, the lock is never kept, every waiter is woken |
| `sched` | 3 tasks, 2 of them sleep, ticks 0 to 2, no wrap | the inductive invariant, wake-up in time, liveness, and refinement of `Tasks` |
| `sched_reader` | 3 tasks, two sleep, the third waits on a UART; ticks 0 to 2 | the duplicates the reader leaves on the ready queue do not put another task there twice or make one wake early or late, although the reader is called while it is blocked or freed and becomes active again; `OthersInvariant` is the inductive invariant |
| `sched_three_sleepers` | 3 tasks that sleep at any time | violation: a due task stays asleep |
| `sched_wrap` | time modulo 4, ticks 0 to 5 | violation: a task is woken early when the time wraps |
| `sched_uart_wait` | 3 tasks, the third waits on a UART | violation: an active task is on no queue |
| `sched_error_asleep` | 3 tasks, two sleep, one of them may return `RET_ERROR` after that | violation: a new task is on both queues |
| `semaphore_stray` | 3 tasks, 1 permit, one task woken by others | violation: a wake-up is lost |
| `semaphore_starve` | 2 tasks, 1 permit | violation: a waiter never gets the permit |
| `components` | see below | 14 properties of the components above the scheduler, and the type invariant of `Registers` |
| `router` | addresses of 2 bits, 3 routes | violation: a packet leaves by a shorter prefix |
| `slip_escape` | a payload of one END among others, two sends | violation: the frame holds another byte |

The properties of `components`:

| property | says |
| --- | --- |
| `OthersKept` | a method leaves the other settings of its registers alone, also when it fails, waits or is repeated |
| `NothingUndone` | a method that succeeds has not undone with one write what it set with another |
| `ReadBack` | a getter returns what its setter was given, except for the arguments the tables list as `unread` |
| `LockDiscipline` | the bus drivers implement `Semaphore`'s specification |
| `WakesTheWaiting` | `m_blocked` names a task that waits for this bus |
| `SuccessIsReal` | a call that reports success has made its transfer |
| `CallsEnd` | a call that started its transfer ends |
| `ChainWhole` | after a crash the chain holds what was added, in order |
| `GivenOnce` | no block is given twice or given and free |
| `FramesInStep` | the read pointer stays in step, frames go up whole and in order |
| `FramesArrive` | the decoder returns one frame for each payload sent, in order, of its length and with its bytes but for END and ESC |
| `BindingsPaired` | each socket has as many ports leading to it as it may send from |
| `NewestKept` | a socket holds the newest packets, in order, and all its buffers |
| `ReaderFindsPacket` | a reader that is woken finds a packet |

Several of these hold only up to an event after which the code promises nothing; the
event is named in the property, and is itself what the code does wrong or leaves
open:

- a byte of a write was not valid any more when it was sent, or a callback finished
  an older transfer (`spoilt`, `L3GD20H.h:882` and the like);
- an I2C call timed out, or made two transfers, and the interrupt is still to come
  (`late`);
- a link was written and its block not (`torn`, `ChainFS.h:495`);
- a transfer failed with a frame half read (`outOfStep`, `wiznet.h:126`);
- a byte of the ring was overwritten, or a frame was larger than the decoder's
  buffer (`slipped`, `slip.h:178`): the decoder then takes ends for starts;
- a `bind` found room for the port and none for the socket (`halfBound`,
  `UDPRouter.h:27`);
- several readers of a socket, or several sockets of a reader (`~OneToOne`,
  `IPv4UDPSocket.h:171`).

So no property covers what the code does after these events: the wrong byte that a
stale callback label leaves in a register, the transfer that a late interrupt
concludes, the torn chain, the frames after a header whose data failed, the half
bind, the second reader. `ReadBack` likewise leaves out the arguments for which
setter and getter disagree in the source (`l3gd20h_reg.c:1534`); they are listed in
the tables. These are disagreements of the code with what it should do that no run
shows; the hazards in `PROJECT.json` name each with its line.

Bounds. Three nodes are the fewest for which a list has a middle; three tasks are
the fewest for which one is dispatched while two are queued, and three sleepers the
fewest that reach the branch that loses a link and notice it. `Horizon` bounds the
ticks and cuts off sleeps that would end after it; two ticks with sleeps of 0 and 2
ticks allow deadlines that are equal, earlier and later than those queued. `TimeMod`
is larger than the horizon where wrapping is not the subject. Wrapping a 2-bit clock
is the code's wrap of a 32-bit one. Four tasks and two permits are the fewest with
two releases in front of two waiters; with one permit "wake only when the count was
zero" cannot go wrong.

In `components`, every method of the five drivers is called with every argument its
table lists: all codes the source names, and otherwise patterns that set each bit to
0 and to 1. The registers start with all bits 0 and with all bits 1, which shows any
bit that a method changes and should not. A method that failed may be called again,
without a bound; one spoilt byte is followed. Two tasks share a bus: one holds it
while the other waits, and a third would only lengthen the wait queue, which the run
`primitives` covers. Four blocks hold block 0, the two descriptors of a file and one
block too few for the next. Three frames of 2 or 3 bytes for a packet of 2 give a
frame that fits between two that do not, and the reverse; the encoder holds 6 bytes,
the decoder 2 and the ring 3, so that each of them overflows for some payload or
delay, and two payloads in a row show that a frame leaves the decoder ready for the
next. Two ports, two sockets and two slots per map key allow a port shared, a socket
bound twice and a full key. Two buffers and three packets make a packet drop. In
`router`, two address bits are the fewest with three prefix lengths.

These parts may stop: a driver's call ends, the lists of frames and packets are
bounded, a task waits for a packet that never comes. Hence `CHECK_DEADLOCK FALSE`
for `components`, `router` and `slip_escape`.

Fairness (`FairSpec`). The main loop calls the dispatcher for ever and the
dispatcher's steps end; a task that runs returns, because tasks are cooperative and
`SLEEP`, `BLOCK` and `YIELD` return; time passes. Nothing is assumed of `Start`,
`Wake`, `Sleep` or `Block`. Under it a ready task is called and a sleeping task is
woken. The semaphore adds: a task that goes on in `acquire` finishes its round; a
task that holds a permit is woken from what it waits for (its transfer completes or
times out) and some day releases it. The last is strong fairness, because the task
can release only while it runs. The I2C and SPI drivers and the write of the UART
driver release on every path when they are called with `CALL`. Two callers fall
outside: the callbacks of the C drivers, which may fail with the bus locked, and a
UART reader that blocks, which nothing wakes. `WaiterWoken` is not claimed of a
semaphore that they hold.

`BusFairness` drops that assumption and puts the drivers' steps in its place:
transfers end (`Interrupt`), a task that runs takes its next step in the driver or
goes on in `acquire`, the dispatcher calls tasks and they return. The poll and the
end of a sleep happen only between the runs of other tasks, so they are enabled
again and again and not always: strong fairness, which the main loop justifies, as
it calls the task of the poll, which never stops, and reads the clock in every
round. Nothing is assumed of the calls tasks make.

### Where the code and its comments disagree

- `queue_simple.h:153-162` loses the link from the predecessor to a node that is
  pushed into the middle. `sched.cpp:27` promises "nearest wakeup time first".
- `sched.cpp:108` and `:184` compare wrapped times. `macros/sleep.h:22` promises "N
  ticks".
- `HAL_UARTDevice.h:200-212` wakes the running task, which is queued again when it
  returns. `sched.cpp:83-85` argues that a push on the ready queue cannot fail.
- `sched.cpp:148` frees a task that returns `RET_ERROR` after it went to sleep and
  leaves its entry on the sleep queue; the next task in its slot is on both queues.
  `:175` says that a task cannot be.
- `BlockingSemaphore.h:51-62` lets a task that was woken early queue a second time.
  `:33` promises to unblock the next waiter.
- `BlockingSemaphore.h:31` gives the permit to whoever comes first.
  `HAL_I2CDevice.h:128` speaks of the next waiter.
- `IPv4Router.h:446-448` puts the longest mask where the queue pops first, its tail,
  and `transmit` iterates from the head. `:308` says that the first match is the
  longest prefix.
- `slip.h:183` stores the code of an escaped byte. `:162` and `:167` say that the
  byte itself should be included in the data.

## The theorems

TLAPS checks these for all values of the constants.

| theorem | assumes | states |
| --- | --- | --- |
| `SchedProofs!TypeCorrect` | `SchedAssumption` | `Spec => []TypeOK` |
| `SchedProofs!NeverEarly` | `Horizon < TimeMod` only | `NoEarlyWake` |
| `SchedProofs!InvariantHoldsAtEnds` | no UART reader, `ErrorAsleep = {}` | `EndsSpec => []SchedInvariant` |
| `SchedProofs!OneQueueAtEnds`, `!NoTaskLostAtEnds` | same | `EndsSpec => []OnOneQueue`, `[]NoActiveTaskLost` |
| `SchedProofs!ImplementsTasksAtEnds` | same | `EndsSpec => ImplementsTasks` |
| `SchedProofs!OthersUndisturbedAtEnds` | no UART reader sleeps, `ErrorAsleep = {}` | `EndsSpec => []OthersInvariant` |
| `SchedProofs!NeverOverdueAtEnds` | same, and `Horizon < TimeMod` | `EndsSpec => NoOverdueSleeper` |
| `SchedProofs!TwoAlwaysAtEnds` | at most two sleepers, none of them a UART reader, `ErrorAsleep = {}` | `Spec => EndsSpec` |
| `SchedProofs!InvariantHolds`, `!OneQueue`, `!NoTaskLost`, `!SchedulerImplementsTasks` | at most two sleepers, no UART reader, `ErrorAsleep = {}` | the same properties of `Spec` |
| `SchedProofs!OthersUndisturbed`, `!NeverOverdue` | at most two sleepers, none of them a UART reader, `ErrorAsleep = {}` (and `Horizon < TimeMod`) | the same properties of `Spec` |
| `PoolProofs!PoolTyped`, `!NodesAlwaysConserved`, `!FreeListAlwaysExact` | `PoolAssumption` | `[]PoolTypeOK`, `[]NodesConserved`, `[]FreeListExact` |
| `PoolProofs!PoolImplementsPoolSpec` | same | `ImplementsPoolSpec` |
| `QueueProofs!QueueTyped`, `!ChainsAlwaysAgree` | `QueueAssumption` | `[]QueueTypeOK`, `[]ChainsAgree` |
| `QueueProofs!QueueImplementsFifo` | same | `ImplementsFifo` |
| `SemaphoreProofs!WaitersAlwaysExact`, `!NoWakeupLost`, `!LockAlwaysFree` | `StrayWoken = {}` | `[]WaitersExact`, `[]NoLostWakeup`, `[]LockNeverKept` |
| `SemaphoreProofs!SemaphoreTyped` | `StrayWoken = {}` | `[]TypeOK` |
| `SemaphoreProofs!PermitsAlwaysConserved` | `SemaphoreAssumption` | `[]PermitsConserved` |
| `SemaphoreProofs!DriversUseTheLock` | `StrayWoken = {}`, one permit, as the drivers construct their lock | `LockDiscipline`: the drivers implement `Semaphore` |
| `SemaphoreProofs!PollWakesTheWaiting`, `!SuccessAlwaysReal` | same | `[]WakesTheWaiting`, `[]SuccessIsReal` |
| `RegisterProofs!RegistersTyped`, `!OthersAlwaysKept` | `CallsGrounded` | `[]RegTypeOK`, `[]OthersKept` |
| `RegisterProofs!NothingEverUndone` | `CallsGrounded`, `CallsSettled` | `[]NothingUndone` |
| `RegisterProofs!SettingsAlwaysReadBack` | `CallsGrounded`, `CallsSettled`, `CallsAnswered` | `[]ReadBack` |
| `ComponentProofs!BlocksGivenOnce`, `!ChainStaysWhole` | a device of two blocks or more | `[]GivenOnce`, `[]ChainWhole` |
| `ComponentProofs!FramesStayInStep` | frames have a length | `[]FramesInStep` |
| `ComponentProofs!BindingsStayPaired` | finitely many sockets and ports, and 0 is not a port | `[]BindingsPaired` |
| `ComponentProofs!NewestAlwaysKept`, `!ReaderAlwaysFindsPacket` | a socket has a buffer | `[]NewestKept`, `[]ReaderFindsPacket` |
| `ComponentProofs!FramesAlwaysArrive` | the ring has a byte, payloads are bytes | `[]FramesArrive` |
| `ComponentProofs!PlainPayloadsRestored` | same, and no payload holds an END or an ESC | `[]PayloadsRestored` |

The assumptions on tasks rule out what the violated runs show, and the theorems say
that without it nothing else goes wrong. The others are named in the module that
declares the constants (`NumBlocksAssumption`, `SerialAssumption` and so on), and TLC
evaluates them: the run `components` those of the drivers, the frames, the ports,
the sockets, the line and the file system.

The argument for the scheduler. `OnOneQueue` and `NoActiveTaskLost` are not
inductive: to know that a wake takes the right node off the sleep queue, one must
know that `sleep_loc` and the node's data point at each other, that the node is
really linked in, and that the pool will not hand it out again. `SchedInvariant`
therefore adds `ControlInv` (who is dispatched in which state), `ReadyInv` (the
ready queue holds each active task once, so it has at most `NumTasks` entries and a
push finds room), `SleepInv` (the sleep queue is a list of its nodes in use, and the
pointers match) and `SortedInv` (the tasks on it are in the order of their wake
times).

The push into the middle of the sleep queue loses a link, so the invariant needs a
condition on the tasks: each one that goes to sleep is due after all that sleep, or
no later than any of them (`SleepsAtEnds`; equal to one and later than another is the
middle already). `EndsSpec` is the scheduler whose tasks behave so, with any number
of sleepers. Under it the sequence of the entries in popping order (`Asleep`) grows
at one of its ends with each sleep and loses one entry with each wake:
`HoldsQueue(q, s)` says that a queue is a list of the nodes in use, linked in the
order of `s`, and the lemmas of `QueueLemmas` say what a push at either end
(`SortedPushHolds`), a pop and a removal make of `s`, for queues of any length. Two
sleepers meet the condition whatever they do, because the second finds at most one
entry (`TwoAlwaysAtEnds`); the theorems about `Spec` follow. The runs `sched` and
`sched_reader`, with two sleepers, are instances of `EndsSpec` for the same reason;
no run has three sleepers at the ends, for which the theorems alone speak. That a
task finds a node for its push at all is a count: the tasks asleep are distinct, and
the one that pushes is not among them (`NodeLeft`).

`ImplementsTasksAtEnds` needs the whole invariant: a push appends because
there is room, `SLEEP` and `BLOCK` leave the ready queue alone because the running
task is not on it, and the task at the tail of the sleep queue is one that sleeps.
`NeverEarly` needs none of it: the wake-up loop tests the deadline it reads, and
before the wrap that test is the comparison of the unwrapped times; only the
identity of the woken task matters, and that follows from `TypeOK`.

A UART reader breaks `ReadyInv`: it is queued twice, its pushes fill the queue so that
those of others are refused, and it is called while it is blocked or its slot is free.
`OthersInvariant` is what is left: each other task is on the ready queue at most once,
`ready_loc` says whether, and only an active task that does not run is there; the
sleep queue is as in `SchedInvariant`, because only tasks that sleep get on it. That a
task that goes to sleep is active, so that it is not yet on the sleep queue, is where
the two halves meet. `InvariantNext` takes the sleep queue from `OthersNext` and adds
what the ready queue has besides when there is no reader.

The argument for the semaphore. `NoLostWakeup` counts: while tasks wait, each free
permit has a woken task on its way. A release adds a permit and a woken task; a task
that takes a permit removes one of each, or only a permit; a task queues up only
when the count is 0. That a release wakes a task at all needs `WaitersExact` (the
first entry is a task that is blocked), and that a task that must wait finds room
needs it too: the entries are distinct tasks, and the one that pushes is not among
them. `SemaphoreInvariant` is the conjunction of the invariants checked of it.
Permits are conserved whatever the queue does, so `PermitsAlwaysConserved` needs no
condition.

The argument for the bus. `BusInv` adds to the semaphore's invariant that the holder
of the lock is the one task in a call (`HoldersMatch`, `OneRun`), that `m_blocked`
names nobody but the task that waits and never one that waits for the lock
(`BlockedNames`), that without a timeout only the poll wakes it (`Unwoken`), and
where a transfer is: on the wires, ended with the flag set, or seen by the poll
(`Transferred`). Under it every step of a driver is a step of `Semaphore` or leaves
its variables alone (`Refines`), so the theorems on the semaphore hold of the bus.
The late interrupt of an I2C timeout is what the `late` in both properties excuses;
`BlockedNames` shows that even then it wakes no task out of the `acquire` of its own
bus, because whoever holds that lock has put its own id into `m_blocked`. `Bus` is
one bus: a task that timed out on one and waits for the lock of another is woken out
of it by the late interrupt, which is what `StrayWoken` stands for and the run
`semaphore_stray` shows.

The argument for the registers holds for any table whose scripts are well typed and
read a register before they replace a part of it (`CallsGrounded`, which TLC
evaluates on the five tables). `Remembered` is the strengthening: while a method
runs, what it has read holds the other settings as they were when it started,
because each of its own writes kept them. `NothingUndone` needs more of a table
(`CallsSettled`): where a later write replaces bits that an earlier one of the same
register set, it sets the same ones, and where it does not, the register was read
between the two; a script that wrote a byte from memory it had filled before the
first write would undo it. `LastingInv` is the strengthening: what a write put into
its group of bits is in the chip until another write replaces the group, and what
was read since shows it. The assumption is about a script as it is written; the
theorem is about its run, in which any transfer may fail or wait and the method may
be made again.

`ReadBack` asks more again (`CallsAnswered`, which TLC evaluates on the five tables
too): the writes of a setter that no later one replaces set every bit its getter
looks at to what the argument means, except bits that another bit of the register
overrules (the 125 dps bit of the gyroscope), and no path of the script ends before
them. A shift or a mask that differs between a setter and its getter is caught
there, in the table. The theorem carries it to the run: whichever transfers failed,
waited or were repeated, and whatever the method was called with before, a setter
that returns success has made all its writes in that call (`Finished`), none of them
has been undone (`NothingUndone`), so the getter finds them, unless a byte was spoilt
on the way.

The argument for pool and queue. The properties speak of the order in which a list
is popped, a recursive function of its links (`PopOrder`), for lists of any length.
`HoldsList(l, s)` says it without recursion: consecutive nodes of `s` are linked in
both directions and the ends are the list's ends. `QueueLemmas` shows that a push
appends to `s`, a pop takes its first and a removal cuts a node out, and that a list
that holds `s` is popped in the order `s` (`HeldOrders`). That last step is an
induction over the number of nodes followed; it is stated over a set of numbers and
proved by the least number outside of it (`InductionUpTo`, `SameSteps`), and that the
recursive function exists at all by `RecursionExists`. The invariants say that each
list holds the nodes it pops, that live and free nodes are all nodes and none is
both, and, for the pool, that both lists together have `Size` nodes. The
refinements follow step by step: `alloc` moves the first node of one list to the end
of the other, whose sequences are the abstract ones.

The argument for ChainFS (`FsInv`). The free blocks are the last ones and block 0
says where they start (`FreeAtEnd`); every block that was given lies before them
(`GivenBefore`), which is why none is given twice, whatever crash comes between the
write of block 0 and that of the link; the descriptors are in different blocks, each
given, and the one that is being added is in yet another (`ChainedOnce`), so no write
of a new descriptor destroys one in the chain; and until a torn chain was mounted,
the descriptors are linked in the order they were added (`ChainLinked`). A chain of
different blocks has at most as many links as there are blocks (`ChainedFits`), so
the walk from block 0 ends, and finds them.

The argument for the W5500's frames (`FrameInv`). There is a number `k` of frames
that are behind the driver (`Position(k)`): what it has handed up are those of the
first `k` that fit and were not missed, and the read pointer is where frame `k + 1`
starts, or at its data, or past it, as the step of `poll` says. Each step keeps `k`
or moves it on by one; frames that arrive meanwhile change neither, because the
bytes of the first `k` stay where they are (`BytesGrow`).

The argument for the ports (`PortInv`): `BindingsPaired` is inductive with the types
of the maps. The proof counts the slots that are used: adding or removing an entry
changes them in one place (`AddedOnly`, `RemovedSlot`), although `get` and `remove`
look for the first slot of a key and its value.

The argument for the sockets (`SockInv`). Each socket holds the packets after the
`Gone(s)` first ones, in order, and the rest of its buffers are free (`SocketKept`).
With one reader to a socket, `m_blocked` names the task that is in its `recv`, and
once that task may run again there is a packet, because only `receive` wakes it and
only it takes packets (`ReaderServed`).

The argument for the serial line (`SerialInv`). All bytes ever sent are one stream,
the frames one behind the other (`Gathered`). Of it, a part has left the ring, the
next part is in the ring from its head on, and the rest is on the line (`Piped`); the
reader may hold the last byte that left. The decoder has taken all bytes up to that
one (`DecodedUpTo`): between two frames it stands at the start of the next, and
within a frame it holds the bytes of the payload that the bytes taken stand for,
perhaps with the ESC of one more (`InPayload`). What the interrupt may disturb is
`m_len`, which the pop stores after having loaded it: `Counted` says that it never
counts more bytes than the ring holds, and one for the byte that is being popped, so
that the reader never takes a byte that is not there; that it may count fewer is why
only order, and not promptness, is claimed. `FramesAlwaysArrive` then follows from
where the decoder stands, and `PlainPayloadsRestored` from it, because a payload
without END and ESC is its own `Stored`.

Only model-checked: `CallsEnd`, `WaiterWoken`, `ReadyTaskRuns` and `SleeperWakes`, because
TLAPS does not reach liveness under fairness, and that the five tables are as the
assumptions on them say. The properties of `IPv4Router`
and of the other runs that expect a violation are false, and refuted by TLC. Every
invariant and every step property of the passing runs is a theorem.

## Not modelled

Assembler-level effects (volatile accesses, stack and labels as addresses), header
layouts, checksums, unit conversion and compensation arithmetic are left out
everywhere. Of the parts of the inventory:

- Resume labels: `CALL` and the macros compile to jumps to label addresses. What a
  kept label does is modelled where it matters (`Registers`, `Semaphore`, `Sched`);
  the labels that a task leaves to the next task with its id are not, since no
  driver of the repository ends a task in the middle of a `CALL`.
- UART: a `read` of many bytes waits as a read of one does. The reader that blocks
  is not woken in the code, so nothing is claimed beyond `ReadBlocks`.
- `send`, the two-pass `transmit` of the layers, Ethernet, ARP, loopback and
  `Packet`: they move headers in and out of one packet. `transmit2` of the W5500 is
  a fixed sequence of transfers; its buffer check never combines the two bytes of
  the size it reads.
- `IPv4Router::receive`, incoming routes and protocols: lookups in hash maps filled
  once.
- ChainFS `read`, `write`, `flush`: stubs in this commit. `open` does not compile as
  written (nothing instantiates it); the model uses its helpers in the order it
  calls them. `init` does not end on a chain that leads back into itself; `Mount` is
  then disabled.
- Triple buffer: does not compile when instantiated.
- KISS: an encoder like SLIP's. The ring device around SLIP forwards a frame after
  it re-encoded it into the buffer it then passes up; its header is not modelled.
- W25Q: command bytes over SPI. Its `poll` resets `m_blocked` before
  `WAKE(m_blocked)`; the mutant `PollResetsFirst` shows what that does.
- Linux devices, LEDs, MMA8451Q, MAX-M10S, RFM9XW, flight events, the init task,
  `vector`, `bloom_filter`, `string`, `hash`: constants, counters and arrays that
  one task uses.

What could be added: the second pass of `transmit` against route changes, the resume
labels as a module under `Sched`. The condition of the theorems on the scheduler,
that tasks go to sleep at the ends of the sleep queue, cannot be dropped: with three
sleepers that do not, TLC finds that `NoOverdueSleeper`, `OnOneQueue`,
`NoActiveTaskLost` and the refinement fail, the last three when an entry that the
sleep queue lost and found again wakes a task that is active. Nor can the condition
that no task ends while it sleeps (`sched_error_asleep`). What holds of any
number of tasks that sleep when they like is `TypeCorrect` and `NeverEarly`.
