# A verification development for the T-Box firmware

The repository is the firmware of a telematics unit ("T-Box") for commercial
vehicles: a FreeRTOS application for the AC784xx microcontroller, which talks to
the vehicle over CAN and J1939, to a server through a 4G modem, and sleeps while
the key is off. The application is under `src/src`; `rtos/`, `sdk/`, `cmsis/` and
`proj/` are vendored or generated and are not modelled.

This directory holds TLA+ modules of its core, the TLC configurations that check
them, and theorems about them that TLAPS checks. Paths below are relative to the
repository unless they begin with `tla/`.

## 1. The system

### How it is built

The **core** (`src/src/core`) is a small framework on FreeRTOS. **Modules** register
with it; most have no task of their own but receive **messages**, which a **pool of
tasks** handles. A **supervisor** task looks at the pool every two seconds. The
**services** (`src/src/service`) are modules: power manager, timers, CAN, J1939, UDS,
4G, GNSS, time, update, and so on. The **application** (`src/src/app/hpm`) speaks the
protocol of the vehicle platform and uses the services.

They interact by
 - messages: `tbox_message_publish` and `tbox_message_call` look up a name in a hash map
   and queue the message for every subscriber;
 - notifications: a FreeRTOS task waits for bits that others set, and gets all that were
   set meanwhile at once, without their order;
 - shared state under a mutex or a critical section (slots of the pool, states of the
   power manager), and in some places without either;
 - calls in both directions: the power manager calls every module's stop and start
   function and stops and starts the core; modules call it for reboots.

Priorities decide who overtakes whom: timers and CAN transmission 17, the 4G task 16, the
power manager, GNSS and J1939 13, CAN and the pool's workers 10, UDS 8, time and battery
6, the supervisor 5.

### Inventory

| component | source | state | operations | what must be right |
|---|---|---|---|---|
| circular byte queue | `common/cqueue.c` | buffer, size, free-running `in`, `out` | init, put, get, peek, lengths | contents are a bounded FIFO although counters wrap |
| message task pool | `core/tbox_task.c` | slot: state, handle, module, stack size, queue | start, stop, attach, detach, add, select, message loop, check, reset, forbid | one worker per slot, known to it; a message is handled once, in order; no message is stranded; a failed slot comes back |
| block watch | `core/tbox_task.c` | name and start tick per slot, table of blocked messages | begin, end, walk, count, report | long handling is noticed although ticks wrap; nothing else is |
| runloop tasks | `core/tbox_task.c`, handlers in `4g.c`, `tbox_pm.c`, `tbox_adsp.c` | handle and state per runloop, the module's own copy of the handle | create, check, report, reset, tell the module | a dead task is found, replaced once, and its module learns by what |
| supervisor | `core/tbox_supervise.c` | notification bits, report queue, timeout | loop, report, handle | reports are not lost, checks go on after a wake-up |
| core life cycle | `core/tbox_core.c` | - | init, start, stop | order of start and stop |
| message bus | `core/tbox_message.c`, `common/tbox_hashmap.c`, `tbox_dlist.c` | topics, subscribers, call handlers | register, subscribe, publish, call, enable | a published message reaches each subscriber once; no lock is held over a callback that takes it |
| module registry | `core/tbox_module.c` | modules with state, id, handle | register, init, start, stop, enable, send | a started module runs, a stopped one does not |
| core memory | `core/tbox_memory.c`, `common/tbox_mp.c` | a buffer per pool, cut into chunks of 72 classes, a free list per class | create, alloc, free, check | blocks do not overlap, a block has one owner |
| software timers | `service/timer` | wheel of slots, list of due timers, notification | create, start, stop, trigger, clear, interrupt, task | a started timer is in one list, at the place its time asks for, and its task hears of it |
| power manager | `service/pm` | sleep state, post action, power action, modem action, nightly reboot | tick, reboot, sleep, wake | the unit sleeps, wakes and reboots when it should; the modem is not left off |
| operating mode | `service/mode` | mode, voltages | sample | hysteresis, no flapping |
| CAN manager | `service/can`, `driver/can` | receive and transmit list from one pool of nodes, timing, bus state, error counts and timers per port | send, interrupt, two tasks, stop, start, recovery | no frame is stuck or lost unsaid; clients know the bus state; a port comes back from bus-off |
| J1939 stack | `service/j1939` | sorted table of parameter groups, subscriptions, one reassembly session | subscribe, filter, tick | what is subscribed passes; messages of several packets arrive whole and unmixed |
| 4G modem | `service/4g` | command queues, current command, UART, buffers; state machines for sockets, dialling, SIM | put, send, receive, time out, reset | a command is answered once and in time; a buffer has one owner |
| UDS | `service/uds` | sessions, requests | - | one request at a time |
| GNSS, time, update, configuration, health monitor, secure element, small services | `service/*` | device protocols | - | retries end, an update is taken whole or not at all |
| HPM application | `app/hpm` | manager, socket, session, lists of reports, receive buffer, flash ring of unsent data, parameters | login, heartbeat, report, store, sleep, wake | a report is in one place until the server has it; it is sent once the server is back; the flash ring survives a failed write and a loss of power |
| log, drivers, test applications | `core/tbox_log.c`, `driver`, `app/fct`, `app/ast` | I/O | - | - |

`PROJECT.json` lists every component with its files and its status.

### What is hard here

 - **Notifications merge.** Start, stop, message and quit bits set while a task is busy come
   back in one word and are handled in the order of the code, not of events.
 - **Decide, unlock, act.** A slot is selected, a handle or the post action read, a task
   state looked at, and used after the mutex was given back or without it.
 - **Replacing a worker.** The supervisor asks, waits 400 ms, kills, creates, while worker,
   clients and power manager go on.
 - **The key.** ACC may turn between any two steps of a power-down that takes half a minute.
 - **Two reasons to reboot at once.** Nightly reboot, health monitor, server, shell and
   update use the same post action and the same power action.
 - **Answers that come late.** Modem and server answer a request that was given up, cut, or
   asked twice; the next one in line takes the answer for its own.
 - **A good event that undoes the wrong thing.** A frame that was good before the port went
   down stops the timer that was to bring it back.
 - **Flash.** A write or an erase fails half-way, the power goes between a packet and the
   record of the positions, and NOR cells can only be cleared.
 - **Numbers.** Queue counters and ticks wrap; clock reads are older than what they are
   compared with.

## 2. Modules

| module | models | uses |
|---|---|---|
| `BoundedFifo` | abstract: a bounded FIFO of bytes | - |
| `CQueue` | `cqueue.c`, every operation | implements `BoundedFifo` |
| `Delivery` | abstract: what the pool promises to senders | - |
| `TaskPool` | pool slots with clients, power manager, registrar, supervisor | implements `Delivery` |
| `MCTaskPool` | `TaskPool` with symmetry, for TLC | `TaskPool` |
| `TaskPoolProofs` | theorems about `TaskPool` | `TaskPool` |
| `BlockWatch` | `tbox_task_check_block` and its table | - |
| `BlockWatchProofs` | theorems about `BlockWatch` | `BlockWatch` |
| `PowerState` | the power manager, its callers, modules, modem and key | - |
| `PowerStateProofs` | theorems about `PowerState` | `PowerState` |
| `FlashQueue` | abstract: a queue that forgets its oldest entries, and survives a loss of power when its record is up to date | - |
| `HpmFlash` | `hpm_flash.c` on a NOR or an SD flash that may fail | implements `FlashQueue` |
| `QueueProofs` | theorems about `CQueue` and `HpmFlash` | these |
| `HpmReport` | manager, socket, session, lists and receive buffer of the application, with the socket of the modem and the server | - |
| `HpmReportProofs` | theorems about `HpmReport` | `HpmReport` |
| `MCHpm` | `HpmReport`, `HpmFlash`, `CQueue` side by side, for TLC | these |
| `CanFrames` | the way of frames through one CAN port, with interrupt, two tasks, a sender, stop and start | - |
| `CanRecovery` | error counts, bus-off, their timers, of one port | - |
| `J1939Filter` | the table of parameter groups and its binary search | - |
| `J1939Transport` | reassembly of broadcast messages | - |
| `BusProofs` | theorems about `CanFrames`, `CanRecovery`, `J1939Transport`, `J1939Filter` | these |
| `STimer` | the timer wheel with interrupt, task and users | - |
| `AtCommands` | the AT command layer with UART and buffers | - |
| `AtCommandsProofs` | theorems about `AtCommands` | `AtCommands` |
| `Runloops` | tasks of modules: check, report, reset, and the messages by which a module learns of it | - |
| `MemPool` | `mp_alloc` and `mp_free`, with the classes of sizes | - |
| `CoreProofs` | theorems about `MemPool`, `Runloops` and `STimer` | these |
| `MCServices` | the CAN, J1939, timer, command, runloop and memory modules, side by side, for TLC | these |

Each module's head says what its state stands for; each action's comment names the function
or the part of it that it is. Definitions keep the names of the code where they can. A
section under a mutex is one action. Sections are joined where no other task reads or
writes what they touch; calls of FreeRTOS outside the mutex are steps of their own.

**Wrong variants.** Operators with a comment "Wrong: ..." (`PutUnbounded`, `TakeLeaves`,
`CountStands`, ...) are plausible slips of the operator that follows them. No
specification uses them: they are there to show, listed under "mutants" in
`PROJECT.json`, that each property fails when the code has that slip.

### CQueue

`in` and `out` count modulo `Word` (2^32 in the code), `size` is the power of two that
`align_to_power` finds, and a byte is at index `in % size`. `cqueue_put` and `cqueue_get`
copy in two parts around the end of the buffer. `cqueue_init` may come at any time with
another size. `IsFifo` maps the queue to the sequence of bytes between `out` and `in`.

### TaskPool

A slot is the entry of `tbox_task_infos`: `state`, `handle`, `module`, `stack`, `queue`. Its
worker is a FreeRTOS task, kept apart from the slot (`worker`, numbered by `gen`), because
the code can lose hold of one: a handle that names an older worker names a dead task. The
worker's program counter follows `tbox_task_process`: boot, wait for a notification, the
message loop, the handler, leaving. Clients, the manager (`tbox_task_start`,
`tbox_task_stop` by the power manager), the registrar (attach, detach) and the supervisor
(check, delete, reset) have program counters of their own. The queue holds whole messages:
`CQueue` shows that the bytes below come back as they were put in, and header and data are
put under one lock.

`Delivery` promises: a message accepted is handled at most once, in the order accepted, and
waiting messages are lost only all together. It allows loss, as stop and reset empty the
queue. That none is stranded is a liveness property, `MessageLeaves`.

The supervisor is in the same module, as it and the slots share every race: the report
queue, the merged bits and the order in which `tbox_supervise_task` handles them
(`Pause`, `WakeToNone`, `HandleReport`, `Timeout`). Blocked reports come from anywhere here
(`ReportBlocked`, at most `MaxBlocked`); `BlockWatch` says when they really do.

### BlockWatch

Slots are reduced to what the watch reads, and ticks count modulo `Word`. The worker's
`Begin`, `Finish` and `Remove` are separate, as the code is; the supervisor reads the clock
once (`Check`), looks at each slot (`CheckSlot`), enters the message (`AddBlock`) and judges
(`Judge`). `age` and `flagged` are history, not code: how long a handling really took, and
whether it was found overdue. The code has 5 places for its 8 slots, and a message that finds no place
is dropped (`AddBlock`, `tbox_task.c:147-161`) after its name was taken out of the slot.

### PowerState

The tick of the power manager runs four parts one after the other (`Tick...`,
`CheckStartup`, `Period...`, `Night...`), and another task may come between any two.
`state` is `tbox_pm_state`, `post` the post action, `action` and `left` the power action and
its timer, `modem` what is being done to the modem, with the stages of a deep reset in
`deep`; `on` says whether the modem really runs. Callers of `tbox_pm_reboot` go through
`Ask` (may it be done), `Set` (enter it) and `DoReboot` or `Handle`. Whoever decides to
sleep goes through `BeginSleep`, `FallAsleep` and `WakeUp` before it goes on. Modules in
`Sync` stop inside their stop function; modules in `Async` (4G, J1939, ADSP) stop later or
never (`ModuleStops`). The reset of the MCU ends a behaviour.

`tbox_pm_reboot` gives the mutex back between entering a reboot and acting on it. So a reboot of the MCU is
handled as in the state its caller saw (`call[c].old`), and one of the modem performs the post action that is
entered by then (`Replaced`).

Left open: whether all modules agree to stop, the operating mode, the sleep mode, whether it
is night, and when the key turns. Left out: the wake type (only logged), the count of
shutdowns (zero whenever it is looked at), `tbox_pm_enable`, `tbox_pm_fctsleep`, the levels of
the pins.

### HpmReport

`data` holds the four lists of `hpm_data.c` and the store, where a report is its number;
`mgr`, `sock` and `ses` are the three state machines that the 100 ms timer message drives one after
the other (`hpm_mgr_process`, `hpm_socket_process`, `hpm_session_process`), a step each. A
sender in state WAIT is a member of `ses.waits`. `rx` is the receive buffer, packet by packet: an
answer may be cut (`cut`), its rest comes later (`rest`), and bytes that are no packet (`Noise`)
may block it. `link` and `up` stand for the socket of the 4G module and the requests on
the connection, which the server answers in order or not any more. A heartbeat may be due in any
step of a session that runs (`hpm_session_send_heartbeat`): it is one more request, whose answer nobody waits
for; the server may leave it out. `HpmSleeps` and
`HpmWakes` are `hpm_stop` and `hpm_start`. `freed`, `received`, `lost` and `misread` are
history. Every refusal, heartbeat, lost connection, cut answer, failed save and wake-up without key counts
against `MaxTroubles`.

The store is a sequence here (`data.flash`); `HpmFlash` shows that the flash ring is one.

### HpmFlash

A packet of the ring is the set of reports programmed into it since its sector was erased,
and whether one of them was programmed to its end. The NOR adapter can only add to it, the SD
adapter replaces it. `mgrinfo` is the position record in memory, `record` its copy in flash.
Writes, erases, reads and the record may fail, and the power may go, at any point
(`hpm_flash_init` is the restart). `damaged` is history. It is set by three things after
which a bad packet is possible, and which the code does not exclude: a restart
from an older record, another report saved where a write had failed half-way, and the
shell's `clearflash` on NOR, which leaves the sector bits as they are. `FlashQueue` names the
same three.

### CanFrames and CanRecovery

One port. The critical sections of `can.c` are the steps; interrupt, `can_task`, `can_tx_task`, a
sender and power management interleave between them. `rx_list` counts (the frames received
are alike), `tx_list` and `hw_buffer` hold the frames sent, both lists take nodes from one pool
(`Free`). `tx_tick` is whether a transmission is timed. `outcome` says what became of the frames:
`sent` and `dropped` are the statistics of `can_mgr.c`, `bus` and `gone` what really happened. `drv_can_deinit` and
`drv_can_init` empty the controller's buffer, at a stop and a start, at a bus-off with main power
(`can_busoff.c:69`) and when its timer sets the controller up again: those frames stay counted
as sent and never reach the bus. A change of the baud rate (`can_if_setbaud`, by the shell and the factory test) does the
same and is left out. Of bus errors and bus-off this module has what they do to frames. `hist` remembers what a stop threw
away. In `CanRecovery`, `task`, `good` and `switch` are the steps that `can_task`,
`can_tx_task` and `can_stop`/`can_start` still have to take; the timer task has a higher
priority, so its callbacks come between any two of them. `past` remembers the good frame that
ended a recovery (`given_up`) or the muting (`muted`), and handlers under way at a stop (`late`).

### J1939Filter and J1939Transport

The table is a sequence of entries; the search is that of the code, halving an interval. The
initial table is given by the set of its parameter groups. In the transport a frame is the kind
of its parameter group, the message it belongs to, and its number; the receiver knows only
source, length and number. `pdu` keeps the last frame over the ticks, as in the code, with its
number set to 0 once it is used. Frames may be missed, sources may give up a message, and
frames of several sources come interleaved. An RTS ends the behaviour: in the code, its
loop in `j1939_tl_periodic` (line 140) does not end either.

### STimer

The wheel has `WheelSlots` lists. Start, stop, trigger and clear run in any task under a critical
section, the interrupt turns the wheel, the task empties the list of due timers one by one. A
reset of the task by the supervisor leaves the handle null, and one of the shell's task stores the
shell's (`stimer.c:529` compares with the shell's module id). `left` counts the turns
that a timer still has to wait.

### AtCommands

`at_step` is where the 4G task is in `mgr_4g_all_period`, every 10 ms; the UART's interrupt
comes between steps, and within `at_4g_transmit_check_recv`, whose update of the state word is not
protected (`race`). A query recognises its answer while its response code is unknown, an order
takes any OK, and all take any error. `deadline`, `answers` and `early` are history. A command
without answer that is current when a line comes makes the code call a null function
(`4g_at_transmit.c:1042`); the model does not go on there.

Other tasks use the layer without a lock (`AtOthers`). The power manager's task resets it (`tbox_4g_reset`,
`4g.c:71`; `power_4g_wakeup_in_sleep`, `4g_power.c:449`) and puts commands (`4g_power.c:450`). The health monitor
resets it too, and the time service (`if_4g_ntp`, `if_4g_cclk`) and the factory test (`if_4g_set_phone_num`) put commands. All are of
lower priority than the 4G task, which comes between any two of their steps: between finding and marking
a buffer (`OtherFinds`, `OtherMarks`) or a place (`OtherPlaces`, `OtherPuts`), and between the three
parts of `mgr_4g_reset` that concern this module (`data_4g_init`, `sharemem_4g_reinit`, `at_4g_transmit_reset`). The copy of
a command to its place and the mark of the place are one step: in between, the 4G task would see a free place, and
overwrite it or not, as it does after `OtherPlaces`. They run only where the 4G task waits or is in a client of its own. What goes wrong there the model
shows: a buffer or a place that was free when it was found is used when it is taken, or a reset leaves a
command current whose time it has set to 0, which then is never over. `torn` is history and marks it; a reset
that nothing comes between ends it.

### Runloops

A handle is the address of a control block, and the kernel gives the block of a deleted task to
the next one (`tcb`). So the table of runloops, a report in the supervisor's queue, a message in
the pool and a module's own copy may each name a block that is another task's by now.
`supervisor` is where `tbox_supervise_task` is, between two sections under a mutex or two calls
of the kernel: it looks at one runloop after the other, takes one report per waking, publishes,
deletes, creates, enters, publishes. `notes` are the messages to the modules; any idle slot handles
the next one, so they come in any order. `excused` is history: what befell a runloop that the code
does not mend. Slots appear only by a report that takes a place in the queue.

### MemPool

Addresses count from the start of the pool's buffer, where the heads of the zones lie. `chunks` holds the
headers by address, `pos` is where the rest begins, `free_lists` has the lists of all zones in one
sequence, of which each zone sees its own entries. `mem_zoneindex` and `ClassSize` are the two results
of one function of the code: the zone, and by its parameter the size that is carved. Its eight branches are a
table here. A call is one action, as it holds the pool's mutex throughout. A request
that is refused changes nothing. The bytes in the blocks are left out; that nobody writes beyond
what was asked for is the caller's part.

## 3. Runs

All runs end within four minutes with two workers.

| run | question | instance | result |
|---|---|---|---|
| `pool_reset` | is a slot safe while its worker fails, is killed, replaced, forbidden? | 1 slot, 1 client, 2 messages, queue of 1, 3 workers, 2 starts, 1 blocked report, all policies, allocation and creation may fail | holds |
| `pool_live` | is any message stranded by stop and start, is a killed worker replaced? | 1 slot, 1 client, 2 messages, queue of 2, 2 workers, 2 starts, policy RESET | holds |
| `pool_share` | does the pool deliver with several slots and an attached module? | 2 slots of two sizes, 1 module, 2 messages, queue of 1 | holds |
| `pool_stop_holds` | does a stopped pool stay quiet? | 1 slot, 2 messages, 2 starts | **violated** |
| `supervisor_starts` | does the supervisor check after each start? | 1 slot, 2 starts | **violated** |
| `block_count` | is a message counted right, is a stuck handler noticed? | 1 slot, 3 names, 2 places, ticks mod 3, 1 kill, 1 stop | holds |
| `power_sleep` | does a power-down end, does the key bring the unit back, is the modem left off, is the MCU reset with its modules running? | 1 caller of MCU reboots, nightly reboot | holds |
| `power_modem` | do actions end, do the modules run? | 1 caller of all modem reboots | holds |
| `power_acc` | does the key always wake the unit? | power manager alone | **violated** |
| `power_night` | does the nightly reboot happen? | nightly reboot, no caller | **violated** |
| `hpm` | is any report lost unsaid, freed too early or stranded; is the flash ring a queue over failures; is the byte queue one? | 3 reports in 2 nodes, store of 1, 2 troubles; ring of 2 sectors of 2 packets, 2 reports, 1 fault; counters mod 8, sizes 1, 2, 4, transfers to 3 | holds |
| `services` | is any frame, port, timer, buffer or command forgotten or in two places? | see below | holds |

`hpm` and `services` each check several modules that do not share state: the variable `part` says
which of them a behaviour is about, and the others stay as they started. They are one
run each because their parts are small; a product of them would add nothing.

`services`: a pool of 2 nodes, 1 hardware slot, passes of 1 frame, 2 sends, 2 arrivals, 1 stop and start and 1 bus
error or bus-off, of which 4 together (`MaxCan`, where a fault counts twice); error threshold 0 and 1 failed set-up or stop; an initial table of 2 parameter groups, 3 more
to subscribe, room for 5; 2 sources, 3 messages of 3 packets, buffers of 8, 1 frame lost, announcement given up
or unusual; a wheel of 3 slots, 1 timer of each kind, periods 1 and 4; one place each of high and
low priority, 2 buffers, 2 commands, timeouts 1 and 2, retries 0 and 1, 1 reset, 1 other task; 2 runloops, one of a
module that handles the notices, 3 control blocks, room for 2 reports, 2 deaths, and 1 lost message,
failed creation or report of a slot; a pool of 20 KB as in `tbox_config.h`, 3 chunks, 14 sizes at both ends
of classes.

Why the bounds are enough:

 - *Reports.* With three reports and two nodes all nodes are in use while another is made, so
   that the oldest goes to flash; with a store of one the second one there is dropped. Two
   troubles let one failure be followed by another, such as a lost connection and a cut answer, or a
   heartbeat and a late answer to it.
 - *Flash ring.* Two sectors of two packets: the writer erases a sector that the reader is
   in, fills it, and wraps around. One fault stands at every place of every such round. The
   theorem holds for every ring and any number of faults.
 - *CAN.* The second arrival finds what the first left undone, the second send finds the
   hardware full; a fault comes with two frames on their way, or with a stop and a frame. With a threshold of 0 the first error is
   counted and the second mutes the report. `CanRounds` times `CanOnce` is the number
   of frames one pass takes, so that the second stays for the next.
 - *Timers.* Periods below and above the number of slots: with and without rounds.
 - *Commands.* One command is current while the other waits, with every order of priorities. One other
   task is enough to be interrupted by the 4G task at each of its steps; the theorems hold for any number.
 - *Watch.* Three names fill the two places while the third finds the table full: a late entry of a handling that
   is over stays for the next one of its name. In the code, five of its eight slots do.
 - *Runloops.* Two deaths are both runloops at once, or a second death amid the repair of the
   first; three blocks for two tasks let a new task get the block of a dead one. A report of a slot
   and two deaths overfill the queue. Each of the six exceptions occurs: without any one of them
   `RunloopsRepaired` is violated. Three deaths (792293 states), four blocks and two subscribers
   were tried and hold.
 - *Memory.* Three chunks: one between two others. The sizes stand at both ends of classes of each
   branch's rounding, and one is too large; the theorem holds for all.
 - *Queue.* A counter mod 8 with sizes up to 4 wraps after two fillings of the largest
   buffer, at every offset; the code needs only that the size divides the width, which the
   instance keeps. The theorem lifts the occupancy to every width.
 - *One slot.* Slots share no state but the supervisor's attention, the report queue and the
   selection; the races of a slot are with its own worker, and one slot with three
   generations of workers has a second replacement begin after the first. `pool_share` has
   two slots, where selection, attaching and different stack sizes matter. The theorems
   hold for any number.
 - *Two messages, queue of one.* One waits while one is handled, and a third party finds the
   queue full. `pool_live` has a queue of two for the order of two waiting messages.
 - *Starts.* Two starts give start, stop, start: the order of bits that a busy worker or
   supervisor finds together.
 - *Ticks.* The period between two looks at the clock and the limit are smaller than the
   width, as in the code; the width is small so that the wrap happens in every position.
 - *Counters of PowerState.* `StopTimeout`, `ShutdownTime` and `DeepTime` are 2 in place of 30,
   34 and 231 ticks: one tick that waits and one that ends. `MaxResets` is 1 in place of 3:
   one allowed, one refused (two for plain resets). Steps of the modem may come at any tick,
   so ratios of times are not used, but for one: the modem's shutdown takes 3.3 of the 34
   seconds of its action (`InTime`).

*Symmetry* (`MCTaskPool`) permutes messages and clients, which no definition tells apart; it is
used in runs of safety properties only. `CHECK_DEADLOCK FALSE` is set where the system may
rightly stop: every message sent, every start used up, or the MCU reset.

### Properties

 - `Occupancy`, `IsFifo`: the difference of wrapping counters stays within the size; contents
   are those of a bounded FIFO.
 - `BusyIsHandled`: no slot is left marked busy; `tbox_taskpool_select_task` would avoid it.
 - `StoppedIsEmpty`: what waited before a stop or reset is not handled after it.
 - `KnownWorker`, `OneWorker`: no worker out of the slot's reach, and never two.
 - `IsDelivery`: refinement of `Delivery`.
 - `MessageLeaves`, `KilledIsReplaced`: liveness of messages and of the repair. A message stays
   in the queue of a deleted worker until the repair or a stop empties it. The repair is
   stated for the first period between start and stop: after a second start the supervisor may
   be stopped (finding 2).
 - `OneEntry`, `NoReport`: the table of blocked messages has one entry per message and slot,
   and no message is counted up to a report while no worker is killed.
 - `StuckIsCounted`: a handler that never returns is in the table in the end, or its message is
   reported, until the core is stopped: a start empties the table, and a handling that was
   counted before it is not counted again. Excepted is a message that finds the table full (`NoPlace`),
   which is lost.
 - `SleepEnds`, `KeyStarts`, `ActionEnds`: no state of the power manager is for ever. `SleepEnds`
   leaves out the nights with a reboot (finding 4), `KeyStarts` and `ModemNotLeftOff` a unit
   in which a reboot was entered: `tbox_pm_reboot` overwrites the post action whatever it was,
   and a modem that was shut down may then be left off. The runs have callers of one kind of
   reboot each: of two callers of different kinds one may do what the other entered (`tbox_pm_state.c:195`). The theorems
   are about all kinds and say which steps they leave out (section 5).
 - `ModemNotLeftOff`, `SyncModulesRun`, `ResetAfterStop`: what is off is on its way to being
   on, what was stopped is started, and the MCU is reset only after that. `ResetAfterStop` excepts a caller
   whose post action was replaced before it came to it (`Replaced`).

 - `NothingForgotten`: a report that was made and neither acknowledged nor dropped by a full or
   failing store is in exactly one list or in the store, and at most one is under way.
 - `AckedIsReceived`: a report is freed only when the server has it. Three cases are excepted
   (`misread`), in which the report takes what comes for its own answer: a login that was sent again while its answer was
   on the way, or sent while the session is logged in already; a report that was sent while the answer to a heartbeat was on the way; and an
   answer that was cut behind its result.
 - `QuietWhenStopped`: when the manager says stopped, socket and session are.
 - `Delivered`: with the key on for good every report leaves in the end, unless bytes that are no
   packet block the receive buffer for good (`Blocked`, `hpm_data_recv.c:180`).
 - `NothingGarbled`, `FlashIsQueue`: what the reader will reach are whole reports, in order; the
   oldest go only to make room, and a saved record makes a loss of power harmless. Damage as
   above excepted.
 - `NoFrameVanishes`: a frame is refused, counted as dropped, on its way in one place, or with the
   driver; the driver's frames, and no others, are counted as sent, also those that are gone with the controller's
   buffer.
 - `NoFrameWaits`: no frame waits for an event that was lost. Excepted is what a stop or
   start throws away (`untimed`, `unread`), and a backlog beyond what one pass takes, which
   waits for the next frame.
 - `ClientsKnowTheBus`: clients hear ACTIVE before frames and were told what the manager
   believes. Excepted is a stop and start (`slept`): clients get SLEEP and WAKEUP, which none handles.
 - `PortRecovers`: a port that went down or was muted has a timer that will see to
   it, and is down while the unit sleeps; `given_up`, `muted` and `late` excepted.
 - `SubscribedPasses`: what was subscribed passes the binary search. Of a parameter group
   subscribed with two addresses only the one the search meets passes; that is excepted.
 - `NothingMixed`, `NothingMissed`, `StaleSessionYields`: a message handed on has its own packets
   in order; one whose frames come in time arrives; a session that hears nothing ends. The
   byte count of a message of one byte less than the buffer may be overwritten by padding
   (`j1939_tl.c:273`).
 - `TimersInPlace`, `DueIsNoticed`: a started timer is in one list, at the slot and round of its
   time left; a due timer's task is notified, as long as the task is the one the
   module was started with.
 - `BufferOwned`: a buffer has one owner or is free, but for a torn layer and the middle of a reset by
   another task. `AnsweredInTime`: a client waits no longer than timeouts and retries, a reset and a torn
   layer excepted. `AnsweredOnce`: it is told once, unless the
   answer came before the last byte was sent (`early`).
 - `RunloopsRepaired`: the death of a module's task is on its way to repair, no runloop has two
   tasks, and a module that has handled its messages holds the handle of its task. Excepted are a
   runloop whose report found the queue full (`dropped`; the table forgets the handle first,
   `tbox_task.c:389`), whose new task could not be created (`failed`), whose dead task's block was
   given away before the check (`masked`), whose new task got a block that a report or a message
   names (`renamed`), and whose module lost a message (`missed`) or got one late (`late`).
 - `BlocksApart`: header, guards and bytes of a used chunk and the links of a free one touch no other
   chunk, no head of a zone and not the end of the pool; a free chunk is in one place of one list.

### Fairness

 - `TaskPool`: weak fairness of each worker, of a client amid a call and of the manager amid a
   pass. FreeRTOS runs a ready task once those above it wait, all tasks block in their loops,
   mutexes pass priority on, and handlers are assumed to return. Nobody has to send or to start. `RecoverSpec` adds the supervisor,
   whose timeouts come; a worker need not run short of stack.
 - `BlockWatch`: the supervisor goes on and ticks come; a handler need not return.
 - `HpmReport`: weak fairness of manager, socket and session, as the message of the 100 ms timer
   comes again and again; of the socket's events and the server's answers; of a wake-up with ACC on.
   None for troubles, sleep, or the key. `MCFair` is the same for the part `report`.
 - `PowerState`: weak fairness of each task's steps, for the timer that ticks and for sources
   that wake the unit (the clock is always one of them, except in the factory and at low
   voltage). Strong fairness of `ModemTimeout`: its notification stays pending while the power
   manager is busy, and is taken at the next wait. None for `ModuleStops`, the key or callers.

## 4. What the runs found

Each is listed under "findings" in `PROJECT.json` with the lines concerned.

 1. **A stopped slot goes on** (`pool_stop_holds`). After a handler, `tbox_task_process` sets
    `TBOX_TASK_RUN_IDLE` whatever the state is by then. A stop during the handler is undone.
 2. **The supervisor stays stopped after a wake-up** (`supervisor_starts`). Stop and start found in
    one notification are handled start first. The supervisor is of low priority and may sleep
    400 ms while killing a task; the power manager leaves 300 ms between the two.
 3. **A lost key** (`power_acc`). Between the last look at ACC and the arming of its edge there
    are 200 to 300 ms.
 4. **The nightly reboot hangs** (`power_night`). Begun in `SLEEP_POST_CHECK` it makes the sleep's
    action busy; the state machine stays in `DOACTION`, with all modules stopped, and ignores
    both the reboot and the key.

Not listed there, as it is what a property that holds says: `tbox_task_check_block` never reports
a blocked message. It would after three findings in a row (`tbox_task.c:216`, `227`), but it clears the
name it counted, and the end of the handler removes the count. `NothingReported` proves that no
count passes two, for any configuration without a killed worker.

## 5. Proofs

Checked by TLAPS with Z3, Zenon and LS4; no step is left open. They hold for all values of
the constants that satisfy the named assumptions, in particular without the bounds of the runs.

| theorem | states | assumes |
|---|---|---|
| `QueueTypes`, `QueueOccupancy` | `Spec => []TypeOK` (no run checks it besides), `Spec => []Occupancy` of `CQueue` | `WordAssumption` |
| `QueueIsFifo` | `Spec => IsFifo`: `CQueue` implements `BoundedFifo` | `WordAssumption` |
| `WatchTypes`, `EntriesDiffer`, `NothingReported` | `[]TypeOK`, `[]OneEntry`, `[]NoReport` of `BlockWatch` | `WatchAssumption` |
| `PoolTypes` | `[]TypeOK` of `TaskPool` (no run checks it besides) | `PoolAssumption` |
| `WorkersKnown`, `OneWorkerOnly` | `[]KnownWorker`, `[]OneWorker` | `PoolAssumption` |
| `StoppedEmpty`, `BusyHandled` | `[]StoppedIsEmpty`, `[]BusyIsHandled` | `PoolAssumption` |
| `PoolDelivers` | `Spec => IsDelivery`: `TaskPool` implements `Delivery` | `PoolAssumption` |
| `PowerTypes` | `[]TypeOK` of `PowerState` | `PowerAssumption` |
| `ResetsWait` | `ResetAfterStop`, the action property | `PowerAssumption` |
| `ModulesRunAgain` | `[]SyncModulesRun`, of behaviours without an `Overtaken` step | `PowerAssumption` |
| `ModemIsStarted` | `[]ModemNotLeftOff`, of behaviours without a `Crossed` step | and `ShutdownTime > 1` |
| `FlashTypes`, `StoreNotGarbled` | types and `[]NothingGarbled` of `HpmFlash` | `FlashAssumption` |
| `StoreIsQueue` | `FlashSpec => FlashIsQueue`: `HpmFlash` implements `FlashQueue` | and `RecordAssumption` |
| `StoppedIsQuiet` | `[]QuietWhenStopped` of `HpmReport` | `ReportAssumption` |
| `ReportsAreKept`, `FreedWereReceived` | `[]NothingForgotten`, `[]AckedIsReceived` | `ReportAssumption` |
| `FramesAccountedFor`, `NothingIsStuck`, `ClientsAreTold` | `[]NoFrameVanishes`, `[]NoFrameWaits`, `[]ClientsKnowTheBus` of `CanFrames` | `CanAssumption` |
| `PortsRecover` | `[]PortRecovers` of `CanRecovery` | `RecoveryAssumption` |
| `StaleSessionsYield`, `ExpectedArrive`, `PacketsStayApart` | `[]StaleSessionYields`, `[]NothingMissed`, `[]NothingMixed` of `J1939Transport` | `TransportAssumption` |
| `SubscribedFramesPass` | `[]SubscribedPasses` of `J1939Filter` | `FilterAssumption` |
| `BuffersAreOwned` | `[]BufferOwned` of `AtCommands` | `AtAssumption` |
| `ClientsAreAnswered`, `ClientsAreAnsweredOnce` | `[]AnsweredInTime`, `[]AnsweredOnce` | `AtAssumption` |
| `BlocksStayApart` | `[]BlocksApart` of `MemPool` | `MemAssumption` |
| `RunloopsAreRepaired` | `[]RunloopsRepaired` of `Runloops` | `RunloopAssumption` |
| `TimersStayInPlace`, `DueTimersAreNoticed` | `[]TimersInPlace`, `[]DueIsNoticed` of `STimer` | `STimerAssumption` |

*Queue.* The inductive invariant (`Positions`) says that both counters are below `Word` and their
wrapped difference is at most `size`. The lemmas say what `%` makes of the sum and of the
difference of two such numbers (`ModOnce`, `SubValue`, `AddValue`): it subtracts or adds `Word`
once, or nothing; with that each operation is a case distinction over linear facts. For `IsFifo`,
`FifoInv` says that the size is a power of two that divides `Word`, so that counting on by one goes to the
next cell even where the counter wraps, and that the buffer has a byte in each cell. The contents are then compared
cell by cell: `SliceIs` says what the bytes between two counters are, `StoredIs` what they are after bytes were stored behind them
in one or two pieces, as the buffer's end asks for. Each operation is the abstract one of its name.

*Watch.* `OneEntry` follows from the types and from the search that precedes each insertion.
`NoReport` is not inductive: what keeps the counts low is that a handling is flagged once, its
name is cleared then, and the entry goes with the end of the handling. The invariant
`CountedOnce` says that an entry counts one, or two, and two only if the handling it belongs
to was flagged and its count is no longer on the way to the table. `NoReport` follows for
`ReportAt > 2` as long as no worker is killed.

*Pool.* `KnownWorker` is not inductive by itself. The invariant is `Typed`, that is `TypeOK` and
`Sending` (a client amid a call has a message), with `Known`: `KnownWorker`, `OneWorker`, and two
more. `Held` says that the handle of a slot is null or names its latest worker. `SupKnows` says
what the supervisor's copy of a handle is worth at each of its steps: while it looks, kills and
creates, it is that of the latest worker; after a kill that worker is dead; and the slot's handle
is null from there until the new worker is entered. Together they are preserved by each action.
`StoppedEmpty` and `BusyHandled` are inductive relative to `Typed`. `PoolDelivers` maps what waits in a slot to its
inbox and the message its worker has to its current one. Most steps stutter; adding is `Accept`, taking is `Begin`, the end of a
handler and the deletion of a worker in it are `End`, and stop, start, detach and reset are `Drop`. Two invariants
carry it: `InHand`, a worker has a message exactly in its handler, and `Fresh`, a message in a client's hands is in no other's, waits nowhere
and was not begun, which is what `Accept` asks for.

*Power.* The types need `Limits`: what `tbox_pm_action_is_cando` saw of the two counts is still true when the action
ends and raises them. The other three are about any reboots that other tasks ask for. `ResetAfterStop` rests on which
task can be where: a caller between entering its reboot and performing it never has one of the MCU (`Asked`), so
that only the tick in SLEEP_POST_CHECK performs `REBOOT_MCU`, or a caller whose post action was replaced.

The code breaks the other two where calls of `tbox_pm_reboot` cross each other or the tick between two reads, as
section 6 says. So the theorems are about the behaviours in which no step is `Overtaken`, or
`Crossed`. A step is `Outdated` if a reboot of the MCU is handled as in a state that is not the present one;
it `Intrudes` if a caller stops the modules while the power manager is in the middle of its pre-check; it is `Misled`
if a caller performs another's post action; and it is `TooLate` if a reboot of the modem is entered when
the modules are stopping or stopped for a sleep. `Overtaken` is one of the first two, `Crossed` is the first and the last two.
All of them name the step, not its result; every other crossing is in the theorems.

For `SyncModulesRun` the states
that lead back to RUNNING without a start of the modules, that is RUNNING, the pre-check and the power manager amid
it, must have them running as well (`SyncKept`); only the stop of all modules stops a module of `Sync`. `ModemNotLeftOff`
needs to know where the modem is off at all: `OffKnown` says that it is so in the shutdown that was entered, or on
the way to a reset. What keeps that true is said step by step: what a sleep begins with and in which states it may
be (`Sleeps`), where the shutdown of the modem and its action can still be going on (`ShutsDown`, `InShutdown`: with two ticks
left when the action is counted down, the modem is off before the sleep begins), where it can be reset (`Resets`),
that a deep reset in its last stage has the modem on (`Deep`), and that the modem is on and left
alone while the modules stop for a sleep, unless a reboot with a reset of the MCU is on its way (`Stops`). The power manager's times are any, the callers and modules any number.

*Flash ring.* `NothingGarbled` speaks of what the reader will reach, which a write can disturb only
on a NOR flash, where programming adds to what a packet holds. The invariant `FlashInv` adds
to it what makes the place of the writer safe (`Discipline`): no sector but the writer's has its bit
set; behind the writer its sector is blank; the packet at the writer holds at most the
report that was not finished; and in that sector the reader is not beyond the writer. All this is
claimed as long as nothing is `damaged`. The lemmas walk the ring: what is between reader
and writer when either goes on by one, or skips to the next sector. `StoreIsQueue` numbers the positions by
their distance from the reader (`Dist`), so that what waits is a sequence, and follows it through each operation: a save is `Put`
or, where the write fails, `PutFails`; erasing the next sector drops its packets from the front when the reader is in it and
keeps all when it is not (`ErasedDrop`, `ErasedKeeps`); a load is `Take` or `TakeFails`; the record, written at sleep and by the period, is
`Sync` or `SyncFails`; and initialisation is `Restart`.

*Reports.* `QuietWhenStopped` follows from how the three statuses go together (`Settled`): a session runs on
a connected socket only, and the manager's last act before STOPPED is to force the socket to stop.
`NothingForgotten` is a count, so its invariant `Counted` says where everything is: a report that is
owed is in exactly one place of the three lists of reports and the flash, any other in none, and no more nodes are
used than there are. One lemma for each operation of `hpm_data.c` says what it adds to and takes from the count; `Single`, that the
list under transmission holds one node at most and none before the session asked to send, keeps a second one from being freed
with the first. `AckedIsReceived` needs to know which answer the session will read, as it takes any for the report's. The
invariants say what is under way, from the requests sent to the bytes in the buffer: behind an answer to a login
there is nothing (`LoginLast`), none is left when the session is logged in (`LoginDone`), and from there on only answers to
heartbeats are on their way, and that to the report under transmission before all of them (`OnlyMine`). Until the server has got
that report, nothing is there to be read (`Unanswered`). They hold until the end of a cut answer reads as a
success, or a login or a report is sent while an answer is coming that it could take for its own (`misread`), the cases the property leaves out.

*CAN frames.* `NoFrameVanishes` needs `Places`: the list, the controller's buffer, the frame in the task's hand, the one a
sender offers, those on the bus, those gone with the buffer, and those dropped or refused are disjoint and together
all frames asked for; and `SentCounted`: the statistics count what the driver has or had, but for the frame that a
sender has just handed over. `NoFrameWaits` needs an
invariant for each direction: what waits to be sent is timed or has a bit set, or the task goes on to it in this pass (`TxServed`);
received frames without a bit are taken in the pass under way, or more had piled up than it takes (`RxServed`).
`ClientsKnowTheBus` needs what the clients know at every step of `can_task`, not only at those where it waits (`Informed`).

*CAN recovery.* `PortRecovers` is not inductive because of the steps between taking the port down and arming the timer that
brings it back. `OnItsWay` says that at each of them the timer runs, its notice is there, or the task's next step arms it;
`Asleep`, that once `can_stop` has stopped the bus-off timer nothing can put the port up but what was under
way then.

*J1939 transport.* `StaleSessionYields` is inductive with the types. For `NothingMissed`, the message that is awaited has
the session, the packets before the next one are saved, and the timer is not ahead of the silence that was counted
(`Awaiting`); and the frame left in the machine's place has been used, so that it is not saved twice (`Spent`). For `NothingMixed`,
`Unmixed` follows the frames from the source to the message: those of one node stand in the list in their order,
the packets of an unbroken message are all there behind its announcement, and the ones saved are
the first of it with nothing left out between them and the list.

*J1939 filter.* The binary search is a recursive function. `SearchEnds` shows that its equation has a solution and
`SearchIs` what it returns, both for intervals of length 0, 1, and so on, of which a shortest that failed would lead to a
shorter one. `AddIs` says where an insertion puts the new entry, and `SortedIs` that the initial table can be sorted. The groups of the
initial table keep one entry each (`KnownOnce`): they always pass, and what passes is not added again. A
subscription has an entry for its address or for any (`Stored`), which the search meets when it is the group's only one.

*Commands.* `BufferOwned` is inductive together with `AtTyped`, which says besides the types that a current
command was in state `WAITSEND` before it became current: from there its buffers go back to
where they belong, whatever ends it. A task that is about to put a command owns the buffer it marked; when its find was stale
or the layer was reset under it, the layer is torn, of which the property says nothing until the next reset has ended and
left nothing behind. `AnsweredInTime` counts down a deadline; `WithinTime` says where the time left of each
command is: in its timer and its retries in the queue, or in those of the current command, with one tick
still to be counted while its monitor runs. `AnsweredOnce` needs that a command is in one place at a time
and, once its client was told, in none (`Untold`).

*Memory.* `BlocksApart` is not inductive: a free chunk is known by its header only, and what keeps the
next owner within it is the size it was carved with. The invariant `MemInv` says that every chunk has a zone for
good, such that chunks of their zones' sizes lie behind one another, and that a used chunk's size leads to
its zone and a free one's list entry names it. That rests on `ZoneIs`: for each of the eight branches,
the zone and the rounded size that `mem_zoneindex` returns belong together.

*Runloops.* `DeathIsKnown` is inductive with two facts: a living task is the one that the table names or the
one just created (`NamesTasks`, from which `OneTask` follows), and what the supervisor has in its hands
at each step (`AtHand`): the handle it looks at is still the table's, the runloop it creates a task for has none, and
the block of the new task is given to nobody else while it is entered. `ModuleKnowsTask` speaks of a module without
messages only; `WillKnow` says what holds while some wait: the module's copy is the handle of its task, or a notice that
waits will make it so, and none behind that one takes it away. A notice of a deleted task could take it away if it named the
block of a living one; `NotMeant` excludes that for tasks that did not get a block still named, in the
notices and in the reports from which they are made.

*Timers.* `FallsDueOnTime` is inductive together with what the lists are made of: the started timers are
divided among the slots and the list of the due ones, and each list has a timer once (`Placed`). In that form
every operation takes a timer out of one set and puts it into another, and the count of links follows at the
end (`PlacedIsLinkedOnce`). What stays of a list, in its order, is said with the ranks of places (`Those`), not by recursion;
`RanksAre` says that ranks number a finite set without gaps, and `ThoseAre` that nothing is lost or doubled. The time left is
the distance to the slot and the rounds: the distance goes down by one with each turn, and from the current slot it
goes around the wheel at the price of a round (`NextSlot`, `OneTurnLess`). `DueIsNoticed` needs to know which
notification it is: START and STOP do not make the task empty the list, so `Noticed` asks for INPUT,
unless it was used up.

## 6. What is only checked, and what is not modelled

Only model-checked: the liveness properties (`MessageLeaves`, `KilledIsReplaced`, `StuckIsCounted`, `SleepEnds`,
`KeyStarts`, `ActionEnds`, `Delivered`), as TLAPS does not deal with fairness and ENABLED. Every safety property and
every refinement that a passing run checks is a theorem.

Components that are not modelled, or not yet, are in `PROJECT.json` with the reason. Most of
the lines of the repository are FreeRTOS, the vendor's SDK, CMSIS, and project files: third-party
code, which the models take for what the firmware expects of it. So the share of all lines that
the modules stand for stays small, however much of the firmware they cover.

In the modelled parts: start-up failures of `tbox_task_init`, memory exceptions (only published), log
output, and mutexes that a killed worker holds. Several slots that fail in one check of the
supervisor, with a full report queue, wait for a larger instance. Of runloops, their creation and
first start, the end of the pool, and the policy FORBID, which nothing sets for deleted tasks. Of the
memory, creation and destruction of pools and the check of guards. Chunks are never joined nor given
to another class, so a large request can fail although all is free; and what a killed worker held is lost.

Hazards seen in the code that no model covers, or that a property has to except because the code does go wrong
(its name is given then), each with its place:

 - `cqueue.c:150`: a queue that is set up a second time leaks its buffer.
 - `tbox_task.c:570`, `1483`: a slot without handle, because its worker found no buffer or the new one
   could not be created, is skipped by every later check.
 - `tbox_task.c:1533`, `1547`: a new task of a runloop gets `stack_size` words where the first one got
   as many bytes (`1042`), so its creation needs four times the memory.
 - `tbox_supervise.c:340`: one report per waking; when two tasks die at once the second report
   waits for the next one, or for the next stop or start.
 - Only the 4G, PM and ADSP modules, and STimer under the shell's id, handle the notices of a new task;
   CAN, GNSS, J1939, UDS, TIME and BATTERY keep the handle of the dead one.
 - `tbox_pm_state.c:657`: a reboot of the MCU asked for in DOACTION or FINISH is dropped and the
   caller told `TBOX_E_OK`; a TODO there says so.
 - `4g_mgr.c:59-92`: the static `is_doing` of `mgr_4g_all_period` stays set when the task is reset in the
   middle of a tick; the period then does nothing any more.
 - `j1939_tl.c:140-144`: after an RTS the loop over received frames does not end.
 - `4g_at_transmit.c:1042`: a command without answer has a null function for lines that come.
 - `4g_at_transmit.c`: the response code of a line that nobody took stays for the next one;
   when a busy UART refuses data, the command stays current until its timeout.
 - `4g_socket.c`, `4g_dial.c`, `4g_info.c`: steps of one sequence are entered with different priorities, and
   may be sent in another order.
 - The message bus gives back its mutex and then walks the list of subscribers.
 - `hpm_flash.c`: clearing the ring leaves the sector bits in flash.
 - The recovery flag of a CAN bus error is not reset by its timer; `drv_can_send` is called without
   the lock of the port.
 - `stimer.c:529`: the handle of the timer task follows the shell's task.
 - `tbox_task.c:147-161`: a message that finds the table of blocked messages full is lost, and its handling is not looked
   at again (`NoPlace` in `StuckIsCounted`).
 - `drv_can.c:301`: the frames in the controller's buffer are lost at a stop, a bus-off and a set-up, and stay counted as sent (`gone`).
 - `hpm_session.c:692`: the answer to a heartbeat is taken for that of a report that was sent behind it (`misread`).
 - `4g_mgr.c:165-181`, `4g_sharememery.c:141-150`: resets and allocations outside the 4G task have no lock (`torn`). After a
   reset that the 4G task came into, a command may stay current with no time left to run, and no other is sent until the
   next reset.
 - `tbox_pm_state.c:463`: a reboot of the MCU asked for by another task while `tbox_pm_timeout_in_sleepprecheck`
   (`391`) is between its questions and its decision stops the modules and enters SLEEP_POST_CHECK; the tick
   then enters RUNNING all the same, with the modules stopped (`Intrudes`).
 - `tbox_pm_state.c:199-207`: a reboot of the MCU is handled as in the state that the caller saw. Handled as in the pre-check
   while the power manager runs again, or has begun to shut the modem down, it leaves modules stopped or the modem off (`Outdated`).
 - `tbox_pm_state.c:133`: a reboot of the modem performs the post action that is entered when it comes
   to it, not the one it entered. When a sleep was decided in between, that is a shutdown of the modem while
   the modules stop, and the key then brings back RUNNING without starting it (`ModemNotLeftOff`); when a
   reboot of the MCU was, the reset comes at once (`ResetAfterStop`). These are `Misled` and `Replaced`.
 - `tbox_pm_state.c`: early starts and the saved last action have no model.

## 7. Plan

In order; the first changes what all others rest on, so it came first.

 1. *Done:* `CQueue`, `TaskPool` with `Delivery`, `BlockWatch`, `PowerState`.
 2. *Done but for creation and first start:* `Runloops`.
 3. `MessageBus` over an abstract map, and `HashMap` as its refinement: publish while
    subscribers come and go, a call that times out and whose answer comes late, enable and
    disable. Bounds: 2 topics, 2 subscribers, a map of 2 buckets.
 4. `Modules`: registration, start, stop, enable, exit, composed with `TaskPool`
    (attached slots) and `PowerState` (stop and start of all). Question: what becomes of a module
    that is still stopping when `tbox_module_start` takes it for started.
 5. *Done:* `MemPool`. The blocks a killed worker loses would need `TaskPool` beside it.
 6. *Done:* `STimer`; `CanFrames`, `CanRecovery`; `J1939Filter`, `J1939Transport`; `HpmReport`, `HpmFlash`;
    `AtCommands`.
 7. `Sequences`: the modem's sequences of commands over `AtCommands`, with retries and the restart of
    the modem; `ModemPower`: the pins of a deep reset, start-up after a reset of the MCU.
 8. `Fota`, `Mode`, `Time` where states remain to be said.

The theorems to come are those of the modules to come: that `MessageBus` over the hash map implements
the one over an abstract map, and that no module is taken for started while it stops.
