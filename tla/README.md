# Verification of the IFSC repository

The repository collects the programs of several student projects. The largest
that is a *system* is `src/tcc`: a PBX hands every telephone digit to a
**manager** (GLib, Linux), which forwards it over TCP to a **board** (LPC2368,
FreeRTOS, uIP) that switches an LED, shows what happens on a display, and
reports the LED back; the manager turns the report into a short message for a
GSM radio. These specifications start there. TLC checks each of them on small
instances; TLAPS proves nearly all of their safety properties for every instance.

## 1. Inventory

### The telephone system (`src/tcc`)

| Component | State | Operations | Interaction |
|---|---|---|---|
| **Manager** `manager/main.c, service.c, mcu.c, gsm02.c, script.c` | three ports with one worker thread each, a connection object and two timers per connection, two `GAsyncQueue`s | accept, read, handle, push, pop timer, keep-alive timer, destroy | TCP to board, radio and script; worker threads and the main thread share the objects |
| **Digit client** `manager/scr2nagcar.py` | none | connect, send one digit, close | one TCP connection per digit |
| **Board's network task** `embedded/uip_task.c, client.c, uip/uip.c` | `uip_conns`, last port, `snd_nxt`, `rcv_nxt`, outstanding length, retransmission counter | timer, input, application callbacks | TCP to the manager; pushes to the display's queue and sleeps in callbacks |
| **Display** `embedded/lcd16x2.c`, button task in `embedded/main.c` | a queue of three messages, cursor and write counter, the screen | push (two tasks), pop, clear, goto, puts | FreeRTOS queue between three tasks of the same priority |
| **Ethernet driver** `embedded/webserver/emac.c, EMAC_ISR.c` | descriptor rings, receive position | receive interrupt, read frame, send frame | interrupt gives a semaphore to the network task |
| **Kernel** `embedded/rtos/tasks.c, queue.c, list.c` | lists of ready, sleeping and waiting tasks, tick counter, suspension, queues and their locks | tick, context switch, delay, send and receive by tasks and by interrupts | preemptive scheduler under every task; interrupts come between any two critical sections |
| **Serial driver** `embedded/serial` | two queues | interrupt, put, get | not used by the running tasks |
| **Test protocol** `embedded/dgt.c` | two flags and a configuration | handle, send | not connected to a task any more |

### Other programs

| Component | What it is |
|---|---|
| `pi.3.morgana` | AVR clock and meter: software timers with an interrupt (`timer.c`), an RTC over I2C and setup menus (`main.c`), A/D samples |
| `medicos/embedded` | AVR meter: interrupt-driven UART over ring buffers (`uart.c`, `buffer.c`), moving average, histogram |
| `fundamentum/lib` | node.js crawlers that fetch company statements and write a file for each company: one chain of callbacks (`cvm.js`, keeps the statements in memory until the file is written), a second crawler with a pool of requests (`cvm-crawler.js`), and statistics over the files |
| `stocks` | trading robots: each tick of the market runs a handler over the open and closed orders; `milestone-22.5.mq4` also limits itself by the day's profit and counts days in a file |
| `beos`, `irpf`, `budget`, `cem_20308`, `pi_1`, `pi_3` | build trials, tax files, documents |
| `tcc/embedded/telnetd`, `webserver` demos, `uip` helpers | uIP demo code the program does not start |

### What is hard, and what makes each part correct

* **Manager.** Connect handlers run in worker threads, everything else in the
  main thread; a disconnection can overtake the handler that is still setting
  up. Correct means: digits and messages leave in order and at most once, none
  is lost while its receiver is there, timers do not outlive their connection,
  a port whose client leaves opens again, a client cannot take the process down.
* **Board.** The network loses, repeats and reorders; uIP leaves
  retransmission of data to the application; the application reconnects from
  inside TCP's callbacks, which may reuse the table entry uIP is working on.
  Correct means: every message of the manager is handled once and in order, the
  two ends agree on sequence numbers, the board never stops trying, table
  entries come free again, and connections do not meet on one local port when
  the ports are used again.
* **Display.** A slow consumer behind a queue of three blocks the network task;
  the button is sampled by polling. Correct means: the screen shows the latest
  message whole, the tasks never block each other for ever, the last button
  message agrees with the button once it rests.
* **Ethernet driver.** An interrupt and a polling loop share rings and a
  semaphore: no frame may wait for the next interrupt.
* **Kernel.** Interrupts use queues and wake tasks while a task is half-way into
  waiting, while the scheduler is suspended and while the tick counter wraps.
  Correct means: the most urgent ready task runs, no wake-up is lost, waits are
  as long as asked for, and they end.
* **AVR programs.** Interrupt handlers and the main loop share lists, buffers
  and flags without locks.
* **Crawlers.** Callback chains that forget to call back on an error, pages and
  archives that are not what was asked for, an update that ends half-way through
  a file. Correct means: a file holds one list of statements as the site gave
  it, and later updates make up for what earlier ones missed.
* **Robots.** Orders fail, prices jump between ticks, a robot restarts with
  orders open and its globals gone. Correct means: the basket keeps to one
  direction and its limits, decisions rest on totals that still hold, the day's
  growth and the counters of days and targets agree with what was closed.

`PROJECT.json` lists the hazards of every part, each at its line, with the
properties that watch them or the reason there is none yet.

## 2. Plan

1. `Manager`, with the abstract `LossyFifo` it implements: done.
2. `Manager_proofs`: done.
3. `Board` and `Board_proofs`: done.
4. `Display`: done.
5. `Display_proofs`: done for the queue discipline and the screen.
6. `Link`: Manager and Board composed over one connection. Questions: does the
   second connection the board opens after a close starve (one client per
   port), how long can both sides hold a half-open connection, what becomes of
   a report cut to the length of a reply.
7. `Emac`, `Emac_proofs`: receive ring, interrupt and semaphore (`emac.c`,
   `EMAC_ISR.c`, `uip_task.c`): done. The transmit ring is left.
8. `Meter`, `Meter_proofs` (`pi.3.morgana/timer.c` and the tasks of `main.c`):
   the software timers against their interrupt, the button that disables
   interrupts and the setup menu that enables them again: done.
9. `RingUart` (`medicos/embedded/uart.c`, `buffer.c`): interrupt against main
   loop, at the granularity of loads and stores.
10. `Statements` (`fundamentum/lib/cvm.js`): the update of the statements, with
    failures and ends at any place, and `Statements_proofs`: done. `Crawler`
    (`cvm-crawler.js`): every started fetch is accounted for: left.
11. `DayTrade`, `DayTrade_proofs`: one robot of `stocks` with failing orders and
    restarts: done.
12. `Kernel`, `Kernel_proofs`: one queue and the scheduler: done.

Steps 6 and 9 and the rest of 10 are left. Runs stay small: one or two clients per port, two
table entries, three ports that come round, queues of the real length, two days of trading.

## 3. Modules

| Module | Models |
|---|---|
| `LossyFifo` | abstract: elements are accepted, wait in order, and are forwarded or dropped |
| `Manager` | the manager, its clients and the kernel between them |
| `MCManager` | how many clients and messages TLC considers |
| `Manager_proofs` | proofs, those about `LossyFifo` included |
| `Board` | the application `client.c` in uIP's TCP, the network, the manager's end |
| `MCBoard` | how many messages the manager writes |
| `Board_proofs` | proofs |
| `Display` | display queue, display task, button task, the network task as producer |
| `Display_proofs` | proofs |
| `Emac` | the receive ring, the controller, its interrupt and the loop of the network task |
| `Emac_proofs` | proofs |
| `Kernel` | FreeRTOS: one queue, its tasks and interrupts, the scheduler beneath |
| `MCKernel` | which tasks, with which priorities, calls and waits |
| `Kernel_proofs` | proofs |
| `Meter` | `pi.3.morgana`: the software timers, their interrupt, the button and the menu |
| `MCMeter` | the timeouts |
| `Meter_proofs` | proofs |
| `DayTrade` | `milestone-22.5.mq4`: the robot, its file, its orders at the broker, the terminal |
| `MCDayTrade` | the prices |
| `DayTrade_proofs` | proofs |
| `Statements` | `fundamentum`: the update of the companies' statements, its files, the site |
| `Statements_proofs` | proofs |

### Manager

`worker[p]` is the position of a port's thread in the connect handler (armed
read, pop timer added, keep-alive timer added, in `g_main_loop_run`, returned),
`object[p]` the life of the connection object, `timers` the timeout sources.
One action is one callback of the main thread or one stretch of a worker thread
between two points where the other can see the difference; the destroy callback
is two actions (`ReadEnd`, `FinishDestroy`) because a worker can use the object
in between. `g_free` followed by a use is undefined behaviour; the outcomes the
model admits are listed at the head of the module. Bytes, framing and logging
are left out; a read takes any number of messages and handles the first, as the
code does. The client and network actions (`Connect`, `Send`, `Close`, `Reset`)
stand for the board, the radio and the digit client.

### Board

`conns` is `uip_conns` with the fields that matter: state, which call of
`uip_connect` made it, outstanding length and retransmission counter. `calls`
counts these calls, and a connection is known by its number; `lport` has the
local port the call found and `lastport` is the static variable its search goes
on from. `NextPort` is that search (`uip.c:451-466`): the next port, round from
the last to `WrapPort`, until no entry has it. `Found` goes by the port alone,
as the demultiplexing does, so that once ports are used again a segment of an
earlier connection finds the entry of a later one: a reset ends it (`RecvRst`),
anything else ends it while it waits for its SYN-ACK (`RecvStale`: there the
application is told *before* the entry is closed, so that its call of
`uip_connect` cannot take it) and is answered or ignored later. `snd` and `rcv`
are kept per connection, relative to the SYN; the initial sequence numbers of
two connections from one port are taken to differ by more than what they
exchange (`iss` counts on with every call of the periodic timer, and a port
rests for 28 000 connections), so that `Own` says whose numbers a segment has.
`out` is the set of all segments the board ever sent, and the manager's end may
receive any of them at any time: loss, delay, repetition and reordering need no
actions of their own. In the other direction `Segments(p)` computes every
segment the manager's end can have sent so far. One action is one pass through
`uip_process` with the application callback inside it, because the network task
is the only one that touches uIP; the five-second sleep in `client_uip_closed`
is a delay the network already has. What is counted is one unit for a short
message and two for an LED report, the only difference between lengths that the
code reacts to.

### Display

`queue` is the FreeRTOS queue of three, `lcd`, `btn` and `net` the positions of
the three tasks in their loops. A task that sends to a full queue simply has no
step until there is room (`portMAX_DELAY`). `Push` is the allocation and the
send; `LcdPop` and `LcdShow` are one turn of `lcd_task`, in two steps because
the senders run between them. `last` and `button` record what was sent and shown
last, for the properties only. The network task appears with the messages its
callbacks send and the order it can send them in (after `CLOSED` comes a sleep
and then `TRY`); which callback runs is `Board`'s subject.

### Emac

The controller (`Arrive`), the interrupt handler (`isr`, two steps: the
interrupt is cleared, then the semaphore given) and the network task (`task`,
its place in the loop of `vuIP_Task`) run beside each other; only the handler
keeps the task from running. `Check` to `EndReadFrame` are `uiGetEMACRxData`,
in three steps because the controller writes the ring meanwhile. `rxDone` is
the latched interrupt, the only one the program enables. A frame is its number;
`accepted` and `handled` record what was stored and what reached uIP, for the
properties. That the controller keeps one fragment free and drops what does not
fit is taken from its use of the two indices (the program compares them for
equality to find the ring empty). The model starts with the loop: frames that
arrive between the set-up of the controller and the enabling of its interrupt
find the interrupt pending, as in the model.

### Kernel

A critical section is one step, and so is an interrupt handler (`Tick`,
`Device`), which may come between any two steps, also while the scheduler is
suspended and the queue locked. The lists of the kernel are not kept as
sequences: `list[t]` and `event[t]` are the `pxContainer` of a task's two list
items, and where a list is ordered by priority (`vListInsert`) the first is one
of the highest; which of several equals goes first is left open, so what is
shown does not rest on it. A task's call is `Begin`, the look at the queue
(`Do`, `GiveUp`, `MustWait`), and the way to sleep: `SuspendAll`, `LockQueue`,
`Decide` (the time-out check, the second look and the place in the waiting
list; with the tick counter standing still and the queue locked nothing can
come between), `UnlockTx`, `UnlockRx`, `ResumeAll`, `Unwind` and `Yield`. The
loops inside the masked sections are steps of their own and `Masked` keeps the
interrupts out. `waited` counts the ticks since a call began to wait, for
`TimeoutsAreExact` only. The port (context switch, interrupt masking) is
external: the repository's ARM port is used as `tasks.c` relies on it.

### Meter

`state` is the table of `timer.c`, `at` and `place` the position of
`timer_loop_run` in it and in the handler it calls. `Tick` is the interrupt,
between any two steps while `enabled`. `Look` and `LookAgain` are
`main_button_read`, with the pause for debouncing between them; `LookAgain`
sets `mode` and disables interrupts in one step, because the interrupt does not
read `mode`. `Enter` and `Leave` are `SetupMode_Write`; the choices between them
change nothing that is kept here. Both handlers return nothing but are called as
if they returned a result; the model takes either. `split` records that the last
tick of the button came while the loop was at the menu's turn, for
`WedgedWithCause` only: then the menu may have returned before the button
disables the interrupts, and no tick will ever make it due again.

### DayTrade

One tick is `start()`, in the stages `pc` names: `Prepare` (the history and the
totals, kept in `view`), `Milestone`, `Trade`, `Manage`, `Stops`. The broker
answers within a stage, and may refuse every opening and closing; `closeAll`
stops at the first refusal, so that any number of the last orders may be closed.
The terminal may stop (`Crash`) between any two stages and forgets the globals;
the orders, the history and the file stay, and the next `Start` reads the file
and runs the first two stages. A unit of time is five minutes: the first of a
day is what `prepareHistory` leaves to the day before (`> 300`), the first two
are what `milestone` takes for the turn of the day (`<= 600`). Money is counted
in whole units. The signals and the calendar are any. A closed order is named by
its position in `history`, so that `Gain` can sum any set of them. `started` is
when the robot was started last and `quote` when `milestone` ran last, for the
properties that speak of them. `Clock` assumes
that a robot which runs sees a quote after the first ten minutes of each day; a
market that is closed for a whole day would leave `turn` set and that day, and
the next, uncounted.

### Statements

An update hangs on one chain of callbacks, so that one place, `pc`, is enough:
what the program waits for. `co` and `last` are the company in turn and the last
of this update (the command line may name one company), `codeList` the list the
site gave, `dfps` what `this.companies[ccvm].dfps` holds. `Codes`, `List`,
`Each`, `Download`, `Extract`, `Parse`, `WriteFile` and `Written` are the
functions from `requestNegociationCode` to the callback of `fs.writeFile`; each
may fail in the ways its code tells apart: an error is handed to the end of the
chain and ends the whole update (`Fail`), a callback that is never called leaves
node with nothing to wait for (`NeverCalled`, `Exit`), any other page is a page
without codes or statements. `Crash` is the end of the process anywhere, so also
between the emptying of a file and its filling. `Publish` is the site: a
statement for a new year, or one in place of an earlier one. A statement is its
code. `shown` records the lists a company was shown with, for `FilesAreOneList`
only; after `calm` nothing fails any more. Every company has codes to trade
with; one without them, or without a CNPJ, is passed over and has no file.

## 4. Runs

| Run | Module, cfg | Shows |
|---|---|---|
| `manager` | `Manager.cfg` | two loads. Digits: script connections and a microcontroller; messages: LED reports and two radio connections. `TypeOK`, `NoOrphanTimer`, refinement of `LossyFifo` by both queues (`QueuesAreLossyFifos`), no digit lost while its receiver is served, a crash has one of the two known causes; with fairness, a port whose client leaves reopens and a queue with a lasting client drains |
| `board` | `Board.cfg` | two table entries, three ports, four loads. Three messages on one connection and two calls of `uip_connect`; one message and three calls; four calls of which one fails; five calls, so that ports are used again and late segments meet the later connection. `SequenceAgreement`, `HandledInOrder`, `AnswersInOrder`; the table is never empty (`AlwaysTrying`), no two connections have one port (`OnePortPerSlot`) and a port rests while the others are used (`PortsRest`); an opening or closing connection leaves its entry (`EntriesAreFreed`), and a call that found the table full is made up for (`ConnectsAgain`) |
| `rexmit`, `told`, `rst` | | **violations** of what uIP's documentation and comments say |
| `display` | `Display.cfg` | a queue of three between three tasks: `ScreenIsLast`; a resting button is shown as it is (`ButtonIsShown`) |
| `emac` | `Emac.cfg` | nine frames through the ring of four: `NoLostWakeup`, `NothingStoredIsLost`; every stored frame is handled (`StoredIsHandled`) |
| `kernel` | `Kernel.cfg` | three tasks of two priorities and a device at a queue of two: `HighestRuns`, `NoLostWakeup`, `WakeIsAhead`, `TimeoutsAreExact` |
| `kernel_live` | `Kernel_live.cfg` | two receivers of one priority, one of which takes what the other is woken for: a call that waits for a number of ticks returns (`CallsReturn`) |
| `meter` | `Meter.cfg` | five timers, their interrupt and a finger: the loop only hangs in the two ways `WedgedWithCause` names; samples go on, and a held button is seen again after every visit to the menu |
| `daytrade` | `DayTrade.cfg` | two days, three orders, two starts: `OneDirection`, `OpensOnFreshTotals`; `GrowthIsTodays`, `TargetsAreEarned` and `SleepsAfterClosing`, which name the cases in which growth, the count of targets and the rest after a close are wrong |
| `statements` | `Statements.cfg` | two companies, two statements each, updates that fail or end anywhere: `FilesAreOneList`; once failures end, every file up to the first that was cut off becomes what the site lists (`FilesRecover`) |

**Bounds.** `Loads` (Manager): which clients come, how many messages each
sends, and which may vanish; a behaviour begins with one of them. Two
connections are the least in which a timer of the first meets the object of the
second, two digits on each of two script connections the least in which an order
can be wrong after one was lost. `Loads` (Board): how often `uip_connect` is
called, how much the manager writes on each connection and which ones its host
answers; behaviours stop there, which the liveness properties name. `MaxRtx = MaxSynRtx = 1` instead of 8
and 5: the counter only decides *when* to give up, and one retransmission
already gives every order of a retransmission, an answer and a time-out.
`Conns = 2` instead of 40 so that the table fills. `FirstPort = WrapPort = 1` and
`EndPort = 4` for 1025, 4096 and 32000: three ports are the least in which the
search of two entries always ends (`PortAssumption`), and with `MaxCalls = 5` the
search comes round, meets a port that is in use, and the connection from a port
used again can be ended by a segment of the earlier one and followed by another.
In that load only the first connection and the one that takes its port again are
answered, in the load of four calls only the first two; a load of five calls that are all answered has been checked for the
invariants.
`QueueLen = 3` is the length in `lcd16x2.c`; the display needs no other bound.
`NumRxFrag = 4` is the length in `emac.h`; `MaxFrames = 9` lets the indices go
round twice and the ring fill in every position.
Kernel: `MaxDelay = 4` is the width of the tick counter, 5 values instead of
2^32, so that every wait can span the wrap; `MaxMissed = 2` bounds the ticks and
the device's uses of the queue during one suspension: two are the least for
which the unlocking task goes round its loop again. Three tasks are the least
for a waiter, its rival for the element, and a third that sends or sleeps.
Meter: timeouts 1, 1, 2, 3, 3 for 1, 1, 20, 100, 100: what matters is that the
button's and the menu's are equal and divide the ticks less often than the
others'. `Wrap = 8` for 2^32: neither is a multiple of the button's timeout.
DayTrade: `DayLength = 3` units are the two of the turn and one for the rest of
the day, `Days = 2` the least with a turn between days that traded,
`MaxOrders = 3` one more than `MaxTrades = QueryHistory = 2`, so that the basket
fills and the history is cut; `MaxStarts = 2` is one restart. The prices 0, 1, 3
are near and far from each other (`Space = 1`) and their differences below, at
and beyond the target of 2. `Sleep = 2` lets a pause reach from a close over
later closes of its day and, across the start of the next, over a restart.
Statements: two companies are the least for one to keep the other from its turn,
two codes the least for a second year and for a statement that is replaced while
its predecessor is on the way. Three codes have been checked as well.

`CHECK_DEADLOCK FALSE` is used where the bounds, or a crashed process, really
stop the system.

**Fairness.** Manager: weak fairness of every worker thread (the kernel
schedules it), of the read callback and of the pop timer (GLib dispatches a
source that stays ready; no callback runs for ever). Nothing is assumed of
clients. Board: weak fairness of the periodic timer of each entry (the network
task runs it twice a second whether or not frames arrive: the loop takes frames
first, so the frames must leave it a gap, which half a second at the frame rate
of this link does); nothing of the network or the manager.
Display: weak fairness of each of the three tasks (FreeRTOS shares the processor
among tasks of one priority; a display that answers ends its busy wait), and
nothing of the button or of the network.
Ethernet driver: weak fairness of the interrupt handler and of the network
task's steps, but neither of the semaphore's timeout nor of the periodic timer,
so that what is shown does not depend on the half second after which the task
would look again anyway.
Kernel: strong fairness of the tick (the timer's interrupt stays pending while
interrupts are masked, so it comes once they are not), of each task's steps
(interrupts take the processor from it, but not for ever), and of the switch to
each task (`vTaskSwitchContext` walks through the ready list of a priority, so
that equals take turns). Nothing is assumed of the device. `CallsReturn` is
claimed for tasks of the highest priority only, as all three of the board's are
(`main.c:129-133`); others may starve, and do in the model.
Meter: weak fairness of the loop (its handlers end: `_delay_ms` and the display's
waits are finite) and strong fairness of the tick (the timer runs on; it comes
whenever interrupts are enabled often enough); none of leaving the menu.
DayTrade: none; its properties are about safety.
Statements: weak fairness of the chain and of the end of a process (node calls
back what answers, and ends when nothing is left; the answers themselves, by
`calm`, are assumed from some time on) and strong fairness of an update of all
companies: that its user runs it again and again is an assumption about the user.
Nothing is assumed of updates of one company, or of the site.

## 5. Disagreements found

* `rexmit`: the application answers every message when it comes, without asking
  `uip_acked` whether its last answer has arrived; when it has not, the new answer
  takes the sequence numbers and the length of the old (`NewDataWhenAcked`;
  `uip.h:649-651`). That the application ignores `uip_rexmit` as well is part of
  the model: lost data is never repeated.
* `told`: one close is reported twice, and the application opens a connection
  each time.
* `rst`: the reset of a timed-out connection carries the port of the new one,
  because the application reused the entry while being told.

Found without a run of their own, as exceptions that properties name.
`CrashNeedsCause`: `service.c:376` asserts that writing succeeds, but
`gsm02_destroy` forgets the pop timer, which goes on firing on the freed object
and breaks the assertion with every served client present; so does a client that
leaves, and both stop all three ports.
`FilesRecover`: a file of statements that was cut off in the middle of a write
(`cvm.js:270`) does not parse (`:243`), ends every later update at its company,
and keeps the companies after it from their turn until it is removed by hand.
`DayTrade`: the pause `SleepSeconds` describes (`milestone-22.5.mq4:80`) is cut short
when an older close of the day overwrites the time of the last one (`:385`), and
by a restart on a later day, which looks for closes of that day only (`:379-382`);
the growth of the day leaves out what lies beyond the last 14 closes (`:374`); a
restart in the first ten minutes counts the day again, and the target with what
was closed in those minutes; a target is counted on the day after the one that
reached it, which is the last day with quotes and not always the day before. `basketCount` is reset
before every comparison (`:499-501`), and only the count of backups limits the
basket.

## 6. Proofs

Every safety property that a run checks, but for `PortsRest`, is a theorem, of the specification as the
run has it and for every value of the constants that these assumptions admit:
`BoundsAssumption`, `ConnsAssumption`, `PortAssumption`, `RtxAssumption`, `QueueLenAssumption`,
`RingAssumption`, `TaskAssumption`, `QueueAssumption`, `BoundAssumption`,
`TimeoutAssumption`, `WrapAssumption`, `TargetAssumption`, `LimitAssumption`,
`TimeAssumption`, `CompaniesAssumption`, `CodeAssumption`. Each is in the module
that declares the constant.

* **Manager** `TypeCorrect`, `NoOrphans`, `LoopsEnd`, `CrashesHaveCauses`,
  `QueuesRefine`, `QueuesKeepOrder`, `ServedDigitsAreWritten`. `NoOrphanTimer` and
  `LoopCanEnd` are not inductive: `Lifecycle` ties the worker's position, the
  object, the link and the half-done destroy callback together (a worker that
  loops has a live object, an object that is freed under a worker had a client
  that left). The refinements of `LossyFifo` need nothing beyond types: each step
  pushes, forwards, drops or leaves the queue. `QueuesKeepOrder` is what the
  refinement is for: what leaves a lossy FIFO ascends (its `InOrder`), and so it
  does in both queues; `QueuesOrdered` adds that waiting elements ascend, come
  after all that left and before all to come. `ServedDigitsAreWritten` goes by
  cases on who may shorten the queue: only a pop does (`OnlyPopTakes`), and a pop
  for a receiver that is served writes what it took.
* **Board** `TypeCorrect`, `NeverGivesUp`, `PortsAreApart`, `HandlesInOrder`,
  `EndsStayInStep`, `AnswersStayInOrder`, for every table of two entries or more,
  range of ports, retransmission limit and bound. `OnePortPerSlot` speaks of the
  local ports, which are used again: it holds because the search of `uip_connect`
  finds a port that no entry has (`NextPortIsUnused`), and it finds one because
  `Conns + 1` steps of it meet different ports, also across the wrap
  (`CandidatesDiffer`), and `Conns` entries cannot hold them all (`SearchEnds`, by
  the pigeonhole principle); `CallsMade` says that every active entry is of a call
  that was made. `AlwaysTrying` needs the second entry for `RecvStale` only: there
  the call cannot take the entry that is closed next, and a full table leaves
  another, a table with a free entry the new connection.
  `HandledInOrder` needs `HandledIsBehind` (what was handled lies before
  `rcv_nxt`) and that nothing is handled before a connection is established,
  since the SYN-ACK sets `rcv_nxt` back to the beginning. That `uip_connect`
  really finds a free entry (`FirstFreeIsFree`) rests on the natural numbers
  being well-founded. `SequenceAgreement` and `AnswersInOrder` need `AInv`:
  `EndsAgree` relates a table entry to the manager's end of its connection and to every
  segment ever sent there (no number beyond `snd`, no end beyond `snd` and the
  outstanding length, no answer to a message not yet received); `AnswersRead`
  says that later data answers later messages and that the manager is past the
  data of every answer it has read, which is why a repeated segment cannot bring
  an answer twice although its contents were never sent again; `Untouched`, that
  nothing is known of a connection before it is made.

* **Display** `TypeCorrect`, `ShowsTheLast`, for every length of the queue.
  `ScreenIsLast` speaks of an idle display only; `Pending` says where the last
  message is before that (at the end of the queue, or in the display's hands).
* **Emac** `TypeCorrect`, `NeverSleepsOnAFrame`, `FramesAreKept`, for every
  ring of at least two fragments. `NoLostWakeup` speaks of a task that waits;
  `WakeUpOnTheWay` extends it to one that is about to wait, with the three
  places a wake-up can be (pending, in the handler, in the semaphore).
  `NothingStoredIsLost` needs `ReadsAFragment` (the task copies and frees only
  what is there); the lemmas `ArriveAdds` and `EndReadTakes` say what a step of
  either index does to the sequence of stored frames.

* **Kernel** `TypeCorrect`, `SleepersAreAhead`, `TheUrgentRun`, `WaitsAreExact`,
  `NobodyIsForgotten`, for any tasks, priorities, waits, width of the tick counter and length of the
  queue. `TypeOK` is not inductive: `Control` says at which places of a call the
  scheduler is suspended and the queue locked, and that only the running task is
  at one of them. `HighestRuns` adds `Awake` (whoever is in the middle of a call
  and not asleep is ready) and `Top` (a task that is more urgent than the running
  one can only be pending, with a switch noted). `TimeoutsAreExact` needs `Timed`
  (the entry time, the wrap flag and what is left of the wait add up to what was
  asked for) and `Slept` (a sleeping task's wake time does). `NoLostWakeup`
  compares the elements (or free places) with the tasks that are on their way to
  them and with what the queue's lock has counted. `OnList` says who can be on
  an event list at all (a task that sleeps in a call for just that), and the
  proof then follows both numbers through every step: one that brings an element
  wakes a task, adds to the lock's count or is itself on the way.

* **Meter** `TypeCorrect`, `HangsHaveACause`, `NoTickBehindTheMenu`, for any
  timeouts of which the button's and the menu's are equal, and any width of the
  count of ticks. `WedgedWithCause` speaks of disabled interrupts; `Together`
  says before that: a button that is due, by a tick that came elsewhere than at
  the menu's turn, is looked at before a menu that is due as well. `Busy` ties
  the position in a handler to its task being due.

* **DayTrade** `TypeCorrect`, `NeverHedged`, `TotalsAreFresh`, `GrowthIsRight`,
  `PauseIsKept`, `TargetsAreWorth`, for any prices, limits and lengths of day and
  pause, and for histories of any length. `OneDirection` is not inductive,
  because the tick trades on totals that `Milestone` may have made stale:
  `TotalsTold` adds that orders still are what was counted, or the last trade is
  at this very time, and then the pause keeps the tick from opening. What
  `closeAll` leaves whatever is refused is a lemma of its own
  (`CloseAllLeavesAPrefix`), and so is what it adds to the sums (`BookGain`) and
  counts (`BookCount`) of the day's closes.
  The other three rest on `BooksInv`. `HistoryInOrder`: closes are in the order
  of time, so that those of today are the last, and if the robot misses one there
  are more than it asks for (`LookedUpIsRight`). `GrowthTold` says of every place
  of a tick, and of the time between ticks, whose growth `milestoneGrowth` is:
  that of the last day with quotes until the day has turned (`CarriedOver`),
  today's after that (`TurnedRight`, `ActingRight`), and nothing is closed on a
  day before it has turned (`NotTurned`), but for a robot that was started in the
  day's first minutes. `LastTold` says what the time of the last trade is: not
  before the last close, or the time of another close of its day, or that of
  a robot that does not know of it.
* **Statements** `TypeCorrect`, `FilesAreWhatWasShown`, for any number of
  companies and statements. A file is one list because it is written from a
  memory that is the beginning of one list the site showed (`FirstOfTheList`),
  also when some of it was read from the file and the rest fetched, and only when
  it is all of it (`Complete`).

`AddUp`, a recursive function, is reasoned about without induction over data: a
sequence of partial sums exists (`SumsExist`) and `AddUp` agrees with it
(`AddUpIs`), because otherwise there would be a least place where it does not,
and the natural numbers are well-founded.

Only proved: `Meter`'s `MenuIsUndisturbed`, `Manager`'s `LoopCanEnd`, the order
of its queues (`InOrder`), the type invariants of `Emac` and `Meter`.

Only model-checked: all liveness properties (`PortReopens`, `QueueDrained`,
`EntriesAreFreed`, `ConnectsAgain`, `ButtonIsShown`, `StoredIsHandled`, `CallsReturn`,
`SamplesGoOn`, `HeldButtonIsSeen`, `FilesRecover`), out of the prover's reach like
everything about ENABLED and fairness; `PortsRest`, whose proof would count the
ports the search passes between two calls; and the three violations.

## 7. Not modelled

* Bytes of messages, checksums, framing, IP, ARP, UDP, ICMP: data the modelled
  properties do not distinguish. Reads that split a message need a model of
  bytes (listed as a hazard).
* Wrap-around of sequence numbers, and initial sequence numbers that are equal or
  near for two connections from one port.
* uIP demos and telnetd, which the program does not start. Of FreeRTOS: what the
  program does not call or build (mutexes, peeking, deletion, `vTaskDelayUntil`,
  changes of priority, the alternative API, co-routines, the heap) and the ARM
  port. A wait during which its task is kept from the processor for a whole turn
  of the tick counter (seven weeks) is excluded from `TimeoutsAreExact`.
  `Display` and `Emac` use the queue and the semaphore by what `Kernel` shows of
  them: a full or empty queue makes its caller wait, and no wake-up is lost.
* `Meter`: the samples, the display, the clock's registers and the menu's
  choices (nothing reads the registers back: `Read_DS1307` is only called in code
  that `#if 0` removes), and `timer_source_remove`, which nothing calls.
* `DayTrade`: how signals and news are computed, lots, margins and spread, the
  growth of the target with the balance, orders of other symbols at the same
  broker, swaps, `closeAll("profits")` (which needs profits beyond the largest
  balance ever), the pause of `managePositions` while the equity is below half
  of the balance (`multipleMargin`), the inputs that are off by default
  (`CloseAll`, `KillBasket`), and the endless recursion of `daytrade_file_read`
  when the file can be neither read nor written. Prices, and with them profits,
  stand still during a tick. The other robots.
* `Statements`: what is in a statement, the archives and the files unpacked from
  them, the names and codes `ConsultaInfoEmp` holds, `requestCompaniesList`
  (nothing calls it) and the readers of the files (`database.js`, `stocks.js`),
  which change nothing. The other crawler, `cvm-crawler.js`.
* Documents, tax files, build trials: no behaviour.
* The remaining programs of section 1 wait for the steps of the plan.
