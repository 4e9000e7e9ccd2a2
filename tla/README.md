# Try Kernel in TLA+

Try Kernel is a small real-time kernel for the RP2040 (one Cortex-M0+ core) with
the T-Kernel style API: tasks of fixed priorities, sleep and wakeup, semaphores,
event flags, message buffers, interrupt handlers and a device manager with two
drivers.  There are no tests and no documents in the repository besides the
comments; the comments are what the code is compared with.

## Inventory

| part | source | state it keeps | operations |
|---|---|---|---|
| task queues | `kernel/task_queue.c` | `pre`, `next` in the TCBs, queue heads | add at the end, remove the top, remove an entry |
| task management | `kernel/task_mange.c`, `context.c` | `tcb_tbl` | `tk_cre_tsk`, `tk_sta_tsk`, `tk_ext_tsk` |
| task synchronisation | `kernel/task_sync.c` | `wupcnt`, `waifct`, `waitim`, `waierr` of the TCBs | `tk_dly_tsk`, `tk_slp_tsk`, `tk_wup_tsk` |
| scheduler, dispatcher | `kernel/scheduler.c`, `dispatch.S` | `ready_queue`, `sche_task`, `cur_task`, `disp_running` | `scheduler`, `dispatch_entry` (PendSV) |
| system timer | `kernel/systimer.c` | `wait_queue` | `systimer_handler` (SysTick) |
| semaphores | `kernel/semaphore.c` | `semcb_tbl` | `tk_cre_sem`, `tk_wai_sem`, `tk_sig_sem` |
| event flags | `kernel/eventflag.c` | `flgcb_tbl` | `tk_cre_flg`, `tk_set_flg`, `tk_clr_flg`, `tk_wai_flg` |
| message buffers | `kernel/messagebuf.c` | `mbfcb_tbl` and the byte rings | `tk_cre_mbf`, `tk_snd_mbf`, `tk_rcv_mbf` |
| device manager | `device/devmgr/` | `dev_tbl` | `tk_opn_dev`, `tk_srea_dev`, `tk_swri_dev` |
| ADC driver, I2C driver | `device/adc/`, `device/i2c/` | `ll_devcb` and a semaphore per unit; the controllers' FIFOs and abort flag | open, read, write; the I2C transfer, byte by byte |
| application | `application/usermain.c` | `tim1`, `tim2`, a message buffer | sensor task, LED task, echo handler |
| interrupt controller | `kernel/interrupt.c` | the vector table, NVIC registers | `tk_def_int`, `EnableInt`, ... |
| boot, initial task | `boot/`, `kernel/inittsk.c` | | `Reset_Handler`, `main` |
| GPIO, serial output | `kernel/gpio.c`, `syslib.c` | | register I/O |

The parts meet in the TCBs and the queues.  Every waiting API does the same:
take the caller off the top of its ready queue, note in its TCB why it waits and
where the result belongs, put it at the end of the one wait queue that all wait
factors share, and call the scheduler.  Every releasing API and the timer do the
reverse for a task in the wait queue.  The scheduler only writes `sche_task` and
sets PendSV pending; the switch happens in the PendSV exception, later.

What makes this hard: an API masks interrupts from `DI` to `EI`, but between two
API calls, between `EI` and PendSV, and inside the dispatcher's two windows a
SysTick or another handler may change the queues; the timer walks a queue it
takes entries out of; results are written through pointers into stack frames of
other tasks; and the code relies on facts it nowhere checks, such as that the
caller of a waiting API is the first of its ready queue.

What makes each part correct:

* queues: the pointers always spell the order of arrival;
* tasks: a task is in the one queue its state names, once;
* scheduler and dispatcher: what runs is what the ready queues call for, and no
  dispatch is lost, whatever interrupts come when;
* sleep and wakeup: no task sleeps on while a wakeup is queued for it, and none is
  counted twice; a timeout is reported to the call that waits;
* timer: every limited wait ends;
* semaphores, event flags, message buffers: resources, bits and bytes are
  conserved, nobody waits for what is there, grants are in order;
* devices: one transfer at a time on a unit, and a caller gets its own bytes;
* application: every distance shown is of the last trigger, and the task goes on
  measuring whatever the sensor does.

## Modules

| module | stands for | proofs |
|---|---|---|
| `FifoQueues` | what `task_queue.c` promises: FIFO queues of TCBs | |
| `TaskQueue` | `task_queue.c` with its `pre` and `next` pointers; refines `FifoQueues` | `TaskQueue_proofs` |
| `TimerScan` | `systimer_handler` on those pointers, and how long a wait lasts | `TaskQueue_proofs` |
| `Kernel` | tasks, sleep and wakeup, scheduler, dispatcher, system timer, boot | `Kernel_proofs` |
| `Semaphore` | `semaphore.c`, over `Kernel` | `Semaphore_proofs` |
| `EventFlag` | `eventflag.c`, over `Kernel` | `EventFlag_proofs` |
| `MessageChannel` | what message buffers promise: FIFO channels | |
| `MessageBuffer` | `messagebuf.c` with its ring of bytes, over `Kernel`; refines `MessageChannel` | `MessageBuffer_proofs` |
| `SerialDevice` | what the drivers promise: calls served one by one | |
| `Device` | device manager and drivers, over `Semaphore`, with the hardware they drive; refines `SerialDevice` | `Device_proofs` |
| `Application` | `usermain.c` and `interrupt.c`, over `MessageBuffer`, with the sensor | `Application_proofs` |
| `SeqLemmas` | facts about `Append`, `Tail`, `\o` and `RemoveAt` for the proofs | itself |
| `MCKernel`, `MCSemaphore`, `MCEventFlag`, `MCMessageBuffer`, `MCTimerScan`, `MCDevice`, `MCApplication` | values a configuration cannot write | |

### How the code becomes actions

Every API masks interrupts from `DI` to `EI`, so its body is one action: all it
writes, `scheduler()` included.  A call that only returns an error code, or
`E_TMOUT` at once for `TMO_POL`, changes nothing and is no step.

* `TaskCreates`, `TaskStarts`, `tk_ext_tsk`, `tk_dly_tsk`, `tk_slp_tsk` and
  `TaskWakes` are calls of the running task, `main` the calls of `main()`.
  They need `InTask`: thread code that belongs to a live task runs, no handler
  is active and PendSV is not pending.  PendSV set by an API is taken at its
  `EI`, before the next instruction of the thread.
* `HandlerStarts`, `HandlerWakes`, `HandlerSignals` and `HandlerSets` are calls
  of interrupt handlers, whenever interrupts are open: in a thread, before
  `dispatch_entry` masks them, and in the idle loop.  A handler's call is atomic
  for the rest of the system.  Handlers are installed by tasks, so there are
  none before a task runs.
* `PendSV`, `Dispatch` and `LeaveIdle` are the exception entry, `dispatch_entry`
  from its masking of interrupts to `disp_030` or to the idle loop, and the
  idle loop finding a task.  `thread` is the code on the processor, `context`
  what each TCB's saved stack would resume: the live function of the task or,
  after `tk_ext_tsk`, the loop behind it (`exited`).
* `SysTick`, `TickForever`, `TickCount`, `TickExpire`, `TickReturn` are
  `systimer_handler`, turn by turn.  SysTick has the highest priority and
  nothing interrupts it; it interrupts everything that has interrupts open.
* `enter_wait` is the block every waiting API repeats and `release` the one
  every releasing API repeats.  `waierr[t]` names the frame that
  `tcb->waierr` points into; `err[t]` is that frame's variable.
* In `Semaphore`, `EventFlag` and `MessageBuffer` the step `KernelStep` is any
  step of the kernel, so waits for an object mix with delays, sleeps, timeouts
  and dispatches.  `ledger` in `Semaphore` and `content` in `TaskQueue` are
  history variables, which no action reads to decide.
* In `TimerScan` the handler's loop is taken turn by turn on `next` and `pre`
  themselves: `Skip`, `Count`, `Expire` (`RemoveEntry` of the entry it stands
  on), `Relink` (`Add` to a ready queue).  Between ticks the queues are used in
  every way `TaskQueue` allows.  `asked` and `passed` are history.
* In `Device` a task's call of a driver is several steps, because interrupts are
  open from `tk_wai_sem` to `tk_sig_sem`: `Enters` (the checks, which look at
  what is never unset, and the lock), `set_com_start`, `TransStart`, for each
  byte a step that commands the controller and one that ends the polling,
  `TransEnd`, `Unlock`; `AdcStart` and `AdcRead` for the ADC.  `call[t].pc` is
  where the call of `t` stands.  `Hardware` executes commands; a slave may
  refuse any byte.  `OtherCall` is any kernel call of a task that is in no
  driver.
* In `Application` every task is its function, one step per kernel call or I/O
  access (`pc[t]`).  `echo_inthdr` comes with `hll_inthdr` and the interrupt's
  enabling, disabling and clearing; `sensor` is the environment.  A time is what
  it was taken of: an edge of the last trigger's echo, or older.

Where the C code steps out of its arrays the models take the most benign
outcome.  A task of priority 16 is queued in `ready_queue[16]`, the word behind
the array: here a queue of its own that nothing else uses.  The byte behind a
message buffer is a byte nobody uses.  The search for a free table entry, which
has no bound when the table is full, finds nothing.

## Runs

| run | instance | what it shows |
|---|---|---|
| `timer_scan` | a wait queue and a ready queue, 3 TCBs, a limit that ends at the second tick, none, and one that wraps to 0 | after any additions and removals, the handler's included, the pointers spell the queues (`Linked`), and a walk along `next` sees a FIFO queue (`WalkIsFifo`: refinement of `FifoQueues`); the handler misses nobody whose time has passed and ends no wait early |
| `kernel` | 3 tasks, priorities 1 and 2, delay, sleep with and without limit, wakeups by tasks and handlers | task states and queues agree, the choice is current, what runs is what should run, the idle loop runs only when nothing is ready, no sleeping task has a wakeup pending, equals are served in order |
| `kernel_live` | 2 tasks, restarts by handlers too, fairness | every limited wait ends, the chosen task comes to run |
| `kernel_restart` | handlers that call `tk_sta_tsk` | *violated*: an ended task runs on |
| `semaphore` | 1 semaphore of 2 units, calls for 1 or 2, all kinds of time limits, delays | units are neither lost nor made, grants are in order, a timeout is reported to the call that waits, also after `tk_sig_sem` has pointed a `waierr` at another frame |
| `semaphore_idle` | as `semaphore` | *violated*: one call returns two units, the second waiter waits on |
| `event_flag` | 1 flag, 2 bits, 3 modes, time limits, two waiters | a wait ends with `E_OK` only with a pattern that meets its condition; of two satisfied waiters the first is released; a call leaves a satisfied waiter only behind the one it serves |
| `event_flag_vain` | as before, waits without limit | *violated*: one call sets the bits two tasks wait for, the second waits on |
| `message_buffer` | a buffer of three messages of two bytes, two contents, time limits | messages come out whole, once and in order (`IsChannel`: refinement of `MessageChannel`), nothing is stored behind the buffer, `freesz` is exact, nobody waits without cause |
| `device` | 2 tasks, an I2C unit and the ADC, reads and writes of 0 and 2 bytes, writes that go on to read, 2 slaves or channels, aborts | one transfer at a time on a unit and no caller left waiting for a free one, locks are distinct, the ADC's missing write is never called, and what callers see is a serial device (`IsSerialDevice`: refinement of `SerialDevice`) |
| `application` | the program's three tasks, a sensor that answers, is silent or still busy, fairness | a distance sent is that of the last trigger, no second wakeup is ever pending, no distance is dropped, the task measures for ever, every distance is shown unless another follows |
| `message_full` | messages of 1 and 2 bytes, a buffer of 6 | *violated*: a full ring is taken for an empty one |

### Bounds

* Tasks: the initial task is one of them.  Three tasks give a running one, a
  ready one of the same or another priority and one that waits; the timer's
  walk then meets two waiters and removes either.  Two suffice where the
  question is between one who waits and one who, or whose handler, releases;
  with two tasks both can wait while handlers and the timer act.
* `CNF_MAX_TSKPRI = 3`: the initial task's priority, one below it, and the
  word behind the array, where no run goes.
* `TIMER_PERIOD = 2` and limits of 1 or 3: a wait ends at its second or third tick, so
  a tick that only counts and one that expires both happen.  The system counts
  10 ms per tick; only the ratio matters.
* `UW_MAX = 15`: all that matters in these runs is that `TMO_FEVR` converts to
  the largest value and that no limit used reaches it.  In `timer_scan` it is 7,
  and with a period of 2 the limit 6 wraps to a wait of 0; `NeverEarly` and
  `NobodyOverdue` are about the limits that do not (`Counted`).
* `MaxWup = 1`: a wakeup is queued or not; `tk_wup_tsk` does not look at the
  count.  `MaxWup` is the only bound in a guard.  `WaitersPerFlag` in
  `EventFlag` is a limit on the application.
* `Device`: two tasks, because a unit has one holder and the interesting state is
  another task that comes to the lock in the middle of a transfer.  Two bytes
  are the least with a first and a last, none is the call that is an error; two
  `Start` values tell the bytes of two slaves apart.  `iicb` would be a third
  unit that behaves as `iica`.
* `Application`: `SlpTmo = 3` ms of 2 ms ticks for the sleep of 1000 ms of 10 ms
  ticks, `MbfDepth = 3` messages for the 5 of the code (the run passes with 5
  as well, in a minute).
* `RelTim` is empty where delays would only multiply the states that other runs
  explore, and `Tmo` has only the limits the run's question needs.

### What the passing runs presuppose

* `kernel` has no handler that starts tasks: `kernel_restart` shows that
  `ExitedNeverRuns` fails with one.  The other invariants do hold with such
  handlers, by proof.
* `kernel` uses the priorities the scheduler scans.  `tk_cre_tsk`
  (task_mange.c:23) accepts `CNF_MAX_TSKPRI` itself, and such a task sits in the
  word behind `ready_queue`, where `scheduler` never looks: with that priority
  in `ItsPri` of `Kernel.cfg`, `NothingReadyWhenIdle` is violated.
* `device` checks `NoIdleUnits` for locks, whose calls ask for one unit.  The
  loop of `tk_sig_sem` goes on along `tcb->next`, which `tqueue_add_entry` has
  just cleared, so one call serves one waiter; that is enough for a lock, not
  for a call of two units (`semaphore_idle`).
* `device` takes a driver's `init` and `opncnt` for one fact, because
  `tk_opn_dev` masks interrupts around both.  A second open of a device returns
  a variable nothing was assigned to (device.c:20-39); the call changes no state
  and the reads and writes do not look at what it returned, so it is no step.
* `application` presupposes that an echo, its handler's run included, is over
  before the sleep that waits for it can end by its limit (`SensorAssumption`;
  `EchoTicks = 2` ticks after the trigger here).  The sensor's pulse lasts at
  most 38 ms, the sleep is 1000 ms (usermain.c:129).  Without the assumption,
  with `EchoTicks = 3`, an echo can race the timeout, and `DistanceIsFresh` is
  violated: the wakeup between the timeout and `DisableInt` is kept for the next
  measurement.  With 4, `NoPileOfWakeups` is too.
* `CallsAssumption` of `Application` says that the sets of arguments the kernel's
  modules are given contain what the program passes, and `ApplicationAssumption`
  that the message buffer has room for more than one distance.
* `event_flag` asks of a call that leaves a satisfied waiter in the queue only
  that another is served before it (`LeftOnlyBehindAnother`).  That no satisfied
  waiter is left at all fails for the same reason as with semaphores: `tk_set_flg`
  (eventflag.c:52) releases one waiter per call (`event_flag_vain`).  With one
  task waiting for a flag at a time it holds, by proof.
* `message_buffer` uses messages of one size and a buffer that is a whole number
  of them with their lengths, as the application's is.  Otherwise the length
  can land in the last byte of the ring, and the first byte of data behind it,
  because the test for the end follows the data only (messagebuf.c:52-56); and
  `tk_cre_mbf` accepts a buffer of `maxmsz + 1` bytes, in which no message of
  `maxmsz` ever finds room (messagebuf.c:17, 98).

### Fairness

Two runs assume any.

`kernel_live`: `WF` of `SysTick` and of the handler's turns: the timer's
interrupts keep coming (systimer is periodic) and the handler's loop is code
that nothing interrupts.  `SF` of `PendSV`, `Dispatch` and `LeaveIdle`: the
processor takes the pending exception and executes the dispatcher whenever no
handler is active, and handlers keep coming and going, so weak fairness would
promise nothing.  No fairness is assumed of tasks or of the application's
handlers: a task may run for ever without calling the kernel.

`application` assumes the same of timer and dispatcher.  There the tasks are
known, and each reaches its next call, so `AppTask` and `echo_inthdr` have `SF`:
the processor executes what it runs whenever no other handler is active, and
takes the interrupt whenever it is enabled and pending.  `WF` of `sensor`: it
answers or stays silent in the end.

## Proofs

`Kernel_proofs` proves for every number of tasks and priorities, every timer
period and all arguments, from `KernelAssumption` alone, that `Spec` implies
`[]TypeOK`, `[]QueuesMatchState`, `[]SchedulerUpToDate`, `[]RunsTheTop` and
`[]NoSleepWithPendingWakeup`.  The assumption says that tables are not empty,
that there is a queue for the initial task's priority and that arguments are in
the range of their C types.

The argument is one inductive invariant, `Inv`.  `QueuesMatchState` is not
inductive: `enter_wait` removes the top of the caller's ready queue, which is
right only if the caller is that top.  That it is follows from
`SchedulerUpToDate`, the scheduler's choice being the top, and from
`DispatchInv`, by which a thread that runs with no dispatch pending is the
scheduler's choice.  `DispatchInv` in turn needs that `disp_running` is exactly
the idle loop's flag, that a current task exists outside it once `main` is
left, and that a started task has a context; `BootInv` covers the steps of
`main()` before there is a task.  `RunsTheTop` is then a consequence.  That no
task sleeps on a queued wakeup is one more invariant, inductive relative to `Inv`.

The module goes on from `Inv` to the order of things.  `TimeoutHitsTheWaiter` rests on
`OwnFrame`: a task that waits has its own frame in `waierr`, and its `err` is
`E_OK`.  `FifoAmongEquals` is proved step by step: a removal takes a top and an
entry goes to the end, by the lemmas of `SeqLemmas`.  Two results hold under a
condition on the callers, which their statements name: `ExitedNeverRuns` when
only tasks start tasks (`TasksStart`), because a handler may start a task that
has ended but not yet left the processor; `NothingReadyWhenIdle` when every
priority used is one the scheduler scans (`ScannedOnly`), because
`tk_cre_tsk` admits one more.

`TaskQueue_proofs` proves for any number of queues and any finite set of TCBs
that the pointers always spell the queues, with their ends and back links, and
that no TCB is in two queues.  The duties of the callers that it takes as guards
(a TCB that is added is in no queue, one that is removed is in that queue) are
what `QueuesMatchState` of `Kernel` establishes for every call the kernel makes.
`WalkIsFifo` follows: `Walk` is a recursive function, and the proof shows that
the sequence `content` satisfies its equations (`LoopSpells`) and that only one
function does (`LoopIsUnique`: the first place where two differ would have the same
TCB before it in both), so that a walk reads what was put in.

The same module then takes up `TimerScan`.  The handler's steps are steps of
`TaskQueue` (`HandlerUsesQueues`), so both results hold while it walks the queue it
removes from.  `NobodyOverdue` and `NeverEarly` need to know where the walk
stands.  `CursorInv` says that the entry the handler goes on with is in the wait
queue, also when the one it has just dealt with was unlinked; `Charged(t)` that
what is left of a wait and the ticks it was charged for make up its limit and one
period, where the tick that is going on counts only for those the handler has
passed (`Ahead`), so that nobody is skipped or charged twice.

`Semaphore_proofs` proves the properties of `Semaphore` for any number of tasks
and semaphores.  The kernel's `Inv` and `OwnFrame` are inductive for `SemNext`
too, because its steps are `enter_wait` and `release` again.  `UnitsConserved`
needs that nothing but a signal grants: the lemma `NextObjectWaits` shows that
the only step of the kernel that ends a wait for an object is a timeout, and
that, by `OwnFrame`, it leaves `E_TMOUT` with the waiter.  A signal grants to the
one task it serves.  `NoIdleUnits` fails in general (`semaphore_idle`); it is
proved when all calls are for one unit (`UnitCalls`), where every waiter finds
an empty semaphore (`WaitersFindEmpty`) and a non-empty line has a first.

`EventFlag_proofs` does the same for event flags.  `WaitsEndForCause`,
`ReleasedInOrder` and `LeftOnlyBehindAnother` hold for any number of waiters; the
last rests on a satisfied waiter having a first one before it (`SomeoneIsFirst`,
`FirstIsBefore`) and on bits being added to an awaited flag only by a call that
looks at its waiters (`OnlySetsAdd`).  `NobodyWaitsInVain`, which `event_flag_vain`
refutes for two waiters, is proved for `WaitersPerFlag = 1`: with one waiter
(`AtMostOne`), who is satisfied is the first, and the calls that release nobody
only take bits away from awaited flags (`NoNewWait`).

`Device_proofs` proves the properties of `Device` for any number of tasks and
semaphores, any devices opened and all sizes.  Its first result is that a
device's steps are steps of `Semaphore` or leave it alone (`DevicesUseSemaphores`), so
that `Semaphore`'s invariants hold here without another proof.  `DInv` adds what
the drivers rely on: the shape of the control blocks (`Shape`), an open device
has a semaphore of its own (`OpenInv`), a call that goes on is on an open device
and in a mode it was opened with (`CallInv`), who waits for a unit waits in
`tk_wai_sem` of the driver for the lock of its device, without a limit
(`WaitInv`), and a lock has a unit or a holder, not both and not two
(`HoldInv`).  Waits for locks have no limit, so the timer never ends one, and
the steps between lock and unlock change no semaphore; only a signal moves a
unit, and it moves it to the first waiter.

It ends with the refinement of `SerialDevice`.  `DataInv` says of every call under
way how far it is and what it has in hand (`CallsSound`): its request is still
the one that was asked, the bytes in its buffer are those the unit gave this
call, with their number and their order, and what is still in the controller's
FIFOs or on the wire completes them; of a unit nobody uses it says that nothing
is left in it (`UnitsQuiet`).  Each step of a driver and of the hardware has a
lemma about the call and the unit alone (`BeginSound` to `AbortSound`).  That no
other call is disturbed is the lock's work: two calls that hold the same device
are one (`OneUser`, from `HoldInv`).  `Enters` is then the abstract `Ask`, the end
of a transfer or conversion is `Serve`, the return of the lock is `Return`, and all
else stutters.

`MessageBuffer_proofs` proves the kernel's invariant under these waits for all
messages, and the rest under `WholeMessages`: messages of one size, and buffers
of two or more slots, a slot being a message with its length; `message_full` and
the presuppositions above say what happens otherwise.  Both pointers and the
size of the buffer are then multiples of a slot (`SlotsApart`), so a message never
straddles the end (`DataIs`), and `RingInv` needs no list of the messages stored:
slots are filled in the order of their addresses and never emptied, so those
before `buf_wp` hold messages, and all do once `buf_wp` has gone round.  The
strict comparison of `tk_snd_mbf` leaves at least one slot free (`RoomIs`), which
is why equal pointers mean an empty ring.  `WaitersInv` is why nobody waits in
vain: a send finds a receiver only at an empty buffer and leaves it empty, and
whoever takes a message from a buffer with a waiting sender makes room for it.

Under the same condition it proves the refinement of `MessageChannel`
(`BuffersAreChannels`).  `Contents` reads the ring as `retrieve_msg` would, from one
length to the next; counted in slots that reading is arithmetic (`Place`, `Held`), and
`ContentsAre` shows that it meets the messages of the slots from `buf_rp` to `buf_wp`,
by the same argument as for `Walk`.  Then `store_msg` appends (`StoreContents`),
because the slot it writes holds none of them, and `retrieve_msg` takes the first
(`RetrieveContents`).  A call that does both is the channel's `Pass`.

`Application_proofs` proves the safety properties of the program.  `AppInv` puts
together where each task stands and what the kernel holds of it then
(`PlacesInv`, `WaitsInv`), what `usermain` has set up so far (`UsermainInv`), that
the buffer holds at most the one distance the LED task has not taken
(`BufferInv`), and, for the echo, that the handler's edges, the enabled interrupt
and the task's place agree (`EchoInv`): at most one wakeup is on its way, and only
while the task sleeps or is about to.  That a sleep never ends between the two
edges is arithmetic: as long as an echo is due, the time the sleep has left and
the ticks the echo has taken make up the limit (`TimeInv`), and by
`SensorAssumption` the echo is over first.  Every step is one of `MessageBuffer` or
leaves the kernel alone (`AppUsesTheKernel`), which brings the kernel's and the
buffer's invariants in.

Assumptions on constants.  Besides the ranges of arguments, the proofs use
`TCBsAreFinite` (`tcb_tbl` is an array), `NullIsNoRecord` (`NULL` is distinct from
the records it stands in for), and those of the program named above.

Model-checked only: the liveness properties `TimeoutsFire`, `ChosenRuns`,
`MeasuresForever` and `SentIsShown`, which need fairness and `ENABLED`.

## Not modelled

* Register set-up at boot, clocks, pins, serial output and those NVIC accesses
  that the application does not make: I/O without state that anything reads
  back.  `tk_def_int` with `TA_ASM` handlers, which nobody defines.
* A bus on which neither a byte nor an abort ever comes: `i2c_trans` polls
  without a limit, so nothing can be promised then and `device` has no liveness.
* The stray bytes of a read of slaves after an abort: the code returns `E_IO`.
* The compiler.  `set_primask` has no memory clobber; the models take it that
  accesses stay between `DI` and `EI`.
* Stacks and registers: a saved context is one value.
* Messages of no bytes or longer than `maxmsz`, which nothing refuses and no
  caller uses; `E_QOVR` and the like, whose calls change nothing.
* The 32-bit limits of `semcnt` and `wupcnt`.

## Plan

Done: `TaskQueue`, `TimerScan`, `Kernel`, `Semaphore`, `EventFlag`,
`MessageBuffer`, `Device`, `Application`, their runs, and the proofs of all safety
and action properties the runs check and of the refinements of `FifoQueues`,
`MessageChannel` and `SerialDevice`.

Left: the facts the liveness properties rest on that are safety (that the dispatcher
always has a step to take, that a scan comes to its end), which can be proved though
the liveness itself cannot.
