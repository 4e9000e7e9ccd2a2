------------------------------- MODULE Kernel -------------------------------
(***************************************************************************)
(* The core of Try Kernel: task management (kernel/task_mange.c), sleeping *)
(* and delays (task_sync.c), the scheduler (scheduler.c), the dispatcher   *)
(* (dispatch.S), the system timer handler (systimer.c) and the boot path   *)
(* of inittsk.c, on one processor with interrupts.                         *)
(*                                                                         *)
(* An API runs between DI and EI, so its body is one action.  Between two  *)
(* actions interrupts are open: SysTick, the interrupt handlers of the     *)
(* application and, when nothing else is active, PendSV may come.  SysTick *)
(* has the highest priority, its handler is never interrupted; PendSV has  *)
(* the lowest, its entry and its idle loop have windows with interrupts    *)
(* open.  Queues are sequences here; TaskQueue.tla has their pointers.     *)
(***************************************************************************)
EXTENDS Integers, Sequences, SequencesExt

CONSTANTS
  CNF_MAX_TSKID,    \* config.h: number of TCBs
  CNF_MAX_TSKPRI,   \* config.h: number of ready queues
  TIMER_PERIOD,     \* sysdef.h: milliseconds per SysTick
  UW_MAX,           \* the largest UW; TMO_FEVR stored in a RELTIM
  NULL,
  ItsPri,           \* the itskpri arguments of tk_cre_tsk
  RelTim,           \* the dlytim arguments of tk_dly_tsk
  Tmo,              \* the tmout arguments of tk_slp_tsk
  HandlerApi,       \* the APIs that interrupt handlers call
  MaxWup            \* bound: no more than MaxWup wakeups are queued per task

Task == 1 .. CNF_MAX_TSKID

ASSUME KernelAssumption ==
  /\ CNF_MAX_TSKID \in Nat \ {0}
  /\ CNF_MAX_TSKPRI \in Nat /\ CNF_MAX_TSKPRI > 1   \* ctsk_ini.itskpri is 1
  /\ TIMER_PERIOD \in Nat \ {0}
  /\ UW_MAX \in Nat \ {0}
  /\ NULL \notin Task
  /\ ItsPri \subseteq Int
  /\ RelTim \subseteq 0 .. UW_MAX
  /\ Tmo \subseteq Int
  /\ MaxWup \in Nat

VARIABLES
  \* The TCBs.
  state,        \* tcb->state
  itskpri,      \* tcb->itskpri
  wupcnt,       \* tcb->wupcnt
  waifct,       \* tcb->waifct
  waitim,       \* tcb->waitim
  waierr,       \* whose stack frame *tcb->waierr lies in
  err,          \* the err variable in that frame of the task
  context,      \* what tcb->context resumes: nothing yet, or a saved thread
  \* The globals of the kernel.
  ready_queue,  \* the queue of each priority; the last index is the word
                \* behind the array, which tk_sta_tsk can reach
  wait_queue,
  cur_task,
  sche_task,
  disp_running,
  \* The processor.
  thread,       \* the code that runs, or is suspended by an exception
  cpu,          \* "thread", "pendsv" (dispatch_entry, interrupts still open)
                \* or "idle" (the loop at disp_020)
  pend_sv,      \* PENDSVSET of the ICSR
  tick,         \* systimer_handler is active
  scan          \* tcb in systimer_handler: the next waiter to look at

tcb == << state, itskpri, wupcnt, waifct, waitim, waierr, err >>
queues == << ready_queue, wait_queue >>
dispatcher == << cur_task, disp_running, cpu, thread, context >>
timer == << tick, scan >>
vars == << tcb, queues, dispatcher, timer, sche_task, pend_sv >>

\* knldef.h:17-25: why a task waits.
WaiFct == {"TWFCT_NON", "TWFCT_DLY", "TWFCT_SLP", "TWFCT_FLG", "TWFCT_SEM",
           "TWFCT_MBFS", "TWFCT_MBFR"}

TMO_FEVR == -1
Pri == 0 .. CNF_MAX_TSKPRI        \* what tk_cre_tsk accepts, and 0

\* The ready queues scheduler looks at; and a bug, without the last of them.
AllButLast == 0 .. CNF_MAX_TSKPRI - 2
Scanned == 0 .. CNF_MAX_TSKPRI - 1

\* The conversion of an int to a UW; and a bug, without it.
SignedTime(n) == n
UW(n) == n % (UW_MAX + 1)

-----------------------------------------------------------------------------
(***************************************************************************)
(* The helpers the APIs share.  A definition that another one is said to   *)
(* replace is a plausible bug: the properties are tried on it.             *)
(***************************************************************************)

\* For tqueue_add_entry: adds at the front.
AddInFront(s, t) == << t >> \o s

\* task_queue.c, on sequences.
tqueue_add_entry(s, t) == Append(s, t)

\* For tqueue_remove_top: forgets to clear the head with the last entry.
KeepsLast(s) == IF Len(s) <= 1 THEN s ELSE Tail(s)

tqueue_remove_top(s) == IF s = << >> THEN s ELSE Tail(s)
tqueue_remove_entry(s, t, r) ==
  \E i \in 1 .. Len(s) : s[i] = t /\ r = RemoveAt(s, i)

\* The first task of the first ready queue that is not empty.
IsTop(t, rq) ==
  \/ /\ t = NULL
     /\ \A p \in Scanned : rq[p] = << >>
  \/ \E p \in Scanned :
       /\ rq[p] # << >>
       /\ t = Head(rq[p])
       /\ \A q \in Scanned : q < p => rq[q] = << >>

\* For scheduler: returns early while the dispatcher idles.
SkipsWhenIdle ==
  \/ disp_running /\ UNCHANGED << sche_task, pend_sv >>
  \/ /\ ~disp_running
     /\ sche_task' \in Task \cup {NULL}
     /\ IsTop(sche_task', ready_queue')
     /\ pend_sv' = (pend_sv \/ sche_task' # cur_task)

\* For scheduler: dispatches only if it has found a task.
DispatchesTasksOnly ==
  /\ sche_task' \in Task \cup {NULL}
  /\ IsTop(sche_task', ready_queue')
  /\ pend_sv' = (pend_sv \/ (sche_task' \notin {cur_task, NULL} /\ ~disp_running))

\* Called when the caller has made its changes to the ready queues.
scheduler ==
  /\ sche_task' \in Task \cup {NULL}
  /\ IsTop(sche_task', ready_queue')
  /\ pend_sv' = (pend_sv \/ (sche_task' # cur_task /\ ~disp_running))

\* For enter_wait: leaves waierr as an earlier wait has set it.
KeepsWaierr(fct, tim) ==
  /\ ready_queue' = [ready_queue EXCEPT ![itskpri[cur_task]] = tqueue_remove_top(@)]
  /\ state' = [state EXCEPT ![cur_task] = "TS_WAIT"]
  /\ waifct' = [waifct EXCEPT ![cur_task] = fct]
  /\ waitim' = [waitim EXCEPT ![cur_task] = tim]
  /\ waierr' = [waierr EXCEPT ![cur_task] = IF @ = NULL THEN cur_task ELSE @]
  /\ err' = [err EXCEPT ![cur_task] = "E_OK"]
  /\ wait_queue' = tqueue_add_entry(wait_queue, cur_task)
  /\ scheduler
  /\ UNCHANGED << itskpri, wupcnt >>

\* The lines every waiting API has: from tqueue_remove_top to scheduler().
enter_wait(fct, tim) ==
  /\ ready_queue' = [ready_queue EXCEPT ![itskpri[cur_task]] = tqueue_remove_top(@)]
  /\ state' = [state EXCEPT ![cur_task] = "TS_WAIT"]
  /\ waifct' = [waifct EXCEPT ![cur_task] = fct]
  /\ waitim' = [waitim EXCEPT ![cur_task] = tim]
  /\ waierr' = [waierr EXCEPT ![cur_task] = cur_task]
  /\ err' = [err EXCEPT ![cur_task] = "E_OK"]
  /\ wait_queue' = tqueue_add_entry(wait_queue, cur_task)
  /\ scheduler
  /\ UNCHANGED << itskpri, wupcnt >>

\* From the wait queue to the end of the ready queue, before scheduler().
release(t) ==
  /\ tqueue_remove_entry(wait_queue, t, wait_queue')
  /\ state' = [state EXCEPT ![t] = "TS_READY"]
  /\ waifct' = [waifct EXCEPT ![t] = "TWFCT_NON"]
  /\ ready_queue' = [ready_queue EXCEPT ![itskpri[t]] = tqueue_add_entry(@, t)]
  /\ UNCHANGED << itskpri, wupcnt, waitim >>

\* waitim of a wait with a TMO.
WaitTim(tmout) == IF tmout = TMO_FEVR THEN UW(tmout) ELSE UW(tmout + TIMER_PERIOD)

\* What runs, and who may call the kernel: a thread once PendSV is taken, an
\* interrupt handler whenever interrupts are open.  Tasks install and enable
\* the handlers, so there are none before a task runs.
Running == cpu = "thread" /\ ~pend_sv /\ ~tick
InTask == Running /\ thread = "live"
InHandler == ~tick /\ thread \in {"live", "exited"}

-----------------------------------------------------------------------------
(***************************************************************************)
(* Task management.                                                        *)
(***************************************************************************)
tk_cre_tsk(pri) ==
  /\ pri > 0 /\ pri <= CNF_MAX_TSKPRI
  /\ \E t \in Task :
       /\ state[t] = "TS_NONEXIST"
       /\ \A u \in Task : u < t => state[u] # "TS_NONEXIST"
       /\ state' = [state EXCEPT ![t] = "TS_DORMANT"]
       /\ itskpri' = [itskpri EXCEPT ![t] = pri]
  /\ UNCHANGED << wupcnt, waifct, waitim, waierr, err, queues, sche_task, pend_sv, context >>

tk_sta_tsk(t) ==
  /\ state[t] = "TS_DORMANT"
  /\ state' = [state EXCEPT ![t] = "TS_READY"]
  /\ context' = [context EXCEPT ![t] = "live"]     \* make_context
  /\ ready_queue' = [ready_queue EXCEPT ![itskpri[t]] = tqueue_add_entry(@, t)]
  /\ scheduler
  /\ UNCHANGED << itskpri, wupcnt, waifct, waitim, waierr, err, wait_queue >>

tk_ext_tsk ==
  /\ InTask
  /\ state' = [state EXCEPT ![cur_task] = "TS_DORMANT"]
  /\ ready_queue' = [ready_queue EXCEPT ![itskpri[cur_task]] = tqueue_remove_top(@)]
  /\ scheduler
  /\ thread' = "exited"
  /\ UNCHANGED << itskpri, wupcnt, waifct, waitim, waierr, err, wait_queue,
                  cur_task, disp_running, cpu, context, timer >>

\* main() creates the initial task at priority 1, starts it and loops.
main ==
  /\ Running
  /\ \/ /\ thread = "main_cre" /\ thread' = "main_sta"
        /\ tk_cre_tsk(1)
     \/ /\ thread = "main_sta" /\ thread' = "main_end"
        /\ tk_sta_tsk(1)
  /\ UNCHANGED << cur_task, disp_running, cpu, timer >>

TaskCreates ==
  /\ InTask
  /\ \E pri \in ItsPri : tk_cre_tsk(pri)
  /\ UNCHANGED << cur_task, disp_running, cpu, thread, timer >>

TaskStarts ==
  /\ InTask
  /\ \E t \in Task : tk_sta_tsk(t)
  /\ UNCHANGED << cur_task, disp_running, cpu, thread, timer >>

HandlerStarts ==
  /\ InHandler /\ "tk_sta_tsk" \in HandlerApi
  /\ \E t \in Task : tk_sta_tsk(t)
  /\ UNCHANGED << cur_task, disp_running, cpu, thread, timer >>

-----------------------------------------------------------------------------
(***************************************************************************)
(* Delay, sleep and wakeup.                                                *)
(***************************************************************************)
tk_dly_tsk ==
  /\ InTask
  /\ \E dlytim \in RelTim :
       /\ dlytim > 0
       /\ enter_wait("TWFCT_DLY", UW(dlytim + TIMER_PERIOD))
  /\ UNCHANGED << dispatcher, timer >>

tk_slp_tsk ==
  /\ InTask
  /\ \/ /\ wupcnt[cur_task] > 0
        /\ wupcnt' = [wupcnt EXCEPT ![cur_task] = @ - 1]
        /\ err' = [err EXCEPT ![cur_task] = "E_OK"]
        /\ UNCHANGED << state, itskpri, waifct, waitim, waierr, queues, sche_task, pend_sv >>
     \/ /\ wupcnt[cur_task] = 0
        /\ \E tmout \in Tmo : enter_wait("TWFCT_SLP", WaitTim(tmout))
  /\ UNCHANGED << dispatcher, timer >>

\* For tk_wup_tsk: counts the wakeup of a sleeping task too.
CountsAlways(t) ==
  /\ state[t] \in {"TS_READY", "TS_WAIT"}
  /\ wupcnt[t] < MaxWup
  /\ wupcnt' = [wupcnt EXCEPT ![t] = @ + 1]
  /\ UNCHANGED << state, itskpri, waifct, waitim, waierr, err, queues, sche_task, pend_sv >>

tk_wup_tsk(t) ==
  \/ /\ state[t] = "TS_WAIT" /\ waifct[t] = "TWFCT_SLP"
     /\ release(t)
     /\ scheduler
     /\ UNCHANGED << waierr, err >>
  \/ /\ state[t] = "TS_READY" \/ (state[t] = "TS_WAIT" /\ waifct[t] # "TWFCT_SLP")
     /\ wupcnt[t] < MaxWup
     /\ wupcnt' = [wupcnt EXCEPT ![t] = @ + 1]
     /\ UNCHANGED << state, itskpri, waifct, waitim, waierr, err, queues, sche_task, pend_sv >>

TaskWakes ==
  /\ InTask
  /\ \E t \in Task : tk_wup_tsk(t)
  /\ UNCHANGED << dispatcher, timer >>

HandlerWakes ==
  /\ InHandler /\ "tk_wup_tsk" \in HandlerApi
  /\ \E t \in Task : tk_wup_tsk(t)
  /\ UNCHANGED << dispatcher, timer >>

-----------------------------------------------------------------------------
(***************************************************************************)
(* dispatch_entry.  PendSV is taken as soon as no handler is active; an    *)
(* interrupt may still come before dispatch_entry masks them.              *)
(***************************************************************************)
PendSV ==
  /\ cpu = "thread" /\ pend_sv /\ ~tick
  /\ cpu' = "pendsv"
  /\ pend_sv' = FALSE
  /\ UNCHANGED << tcb, queues, cur_task, disp_running, thread, context, timer, sche_task >>

\* For SwitchTo: leaves disp_running as the idle loop has set it.
KeepsDispRunning(t, ctx) ==
  /\ cur_task' = t
  /\ thread' = ctx[t]
  /\ disp_running' = disp_running
  /\ cpu' = "thread"

\* disp_030: t becomes the current task and resumes from its context ctx[t].
SwitchTo(t, ctx) ==
  /\ cur_task' = t
  /\ thread' = ctx[t]
  /\ disp_running' = FALSE
  /\ cpu' = "thread"

\* From the masking of interrupts to the first branch that opens them again.
Dispatch ==
  /\ cpu = "pendsv" /\ ~tick
  /\ context' = IF cur_task = NULL THEN context
                ELSE [context EXCEPT ![cur_task] = thread]
  /\ \/ /\ sche_task # NULL
        /\ SwitchTo(sche_task, context')
     \/ /\ sche_task = NULL
        /\ cur_task' = NULL
        /\ disp_running' = TRUE
        /\ cpu' = "idle"
        /\ thread' = thread
  /\ UNCHANGED << tcb, queues, timer, sche_task, pend_sv >>

\* The idle loop finds that an interrupt has made a task ready.
LeaveIdle ==
  /\ cpu = "idle" /\ ~tick
  /\ sche_task # NULL
  /\ SwitchTo(sche_task, context)
  /\ UNCHANGED << tcb, queues, timer, context, sche_task, pend_sv >>

-----------------------------------------------------------------------------
(***************************************************************************)
(* systimer_handler, one action per turn of its loop.  scan is tcb; what   *)
(* the handler keeps in next is read before tcb leaves the queue.          *)
(***************************************************************************)
SysTick ==
  /\ ~tick
  /\ tick' = TRUE
  /\ scan' = IF wait_queue = << >> THEN NULL ELSE Head(wait_queue)
  /\ UNCHANGED << tcb, queues, dispatcher, sche_task, pend_sv >>

\* For Advance: reads tcb->next after tqueue_add_entry has made it NULL.
AdvanceToNull == scan' = NULL

Advance ==
  \E i \in 1 .. Len(wait_queue) :
    /\ wait_queue[i] = scan
    /\ scan' = IF i = Len(wait_queue) THEN NULL ELSE wait_queue[i + 1]

TickForever ==
  /\ tick /\ scan # NULL
  /\ waitim[scan] = UW(TMO_FEVR)
  /\ Advance
  /\ UNCHANGED << tcb, queues, dispatcher, tick, sche_task, pend_sv >>

TickCount ==
  /\ tick /\ scan # NULL
  /\ waitim[scan] # UW(TMO_FEVR)
  /\ waitim[scan] > TIMER_PERIOD
  /\ waitim' = [waitim EXCEPT ![scan] = @ - TIMER_PERIOD]
  /\ Advance
  /\ UNCHANGED << state, itskpri, wupcnt, waifct, waierr, err, queues,
                  dispatcher, tick, sche_task, pend_sv >>

TimeoutErr(fct) == IF fct = "TWFCT_DLY" THEN "E_OK" ELSE "E_TMOUT"

TickExpire ==
  /\ tick /\ scan # NULL
  /\ waitim[scan] # UW(TMO_FEVR)
  /\ waitim[scan] <= TIMER_PERIOD
  /\ err' = [err EXCEPT ![waierr[scan]] = TimeoutErr(waifct[scan])]
  /\ release(scan)
  /\ Advance
  /\ UNCHANGED << waierr, dispatcher, tick, sche_task, pend_sv >>

TickReturn ==
  /\ tick /\ scan = NULL
  /\ tick' = FALSE
  /\ ready_queue' = ready_queue
  /\ scheduler
  /\ UNCHANGED << tcb, wait_queue, dispatcher, scan >>

-----------------------------------------------------------------------------
Init ==
  /\ state = [t \in Task |-> "TS_NONEXIST"]
  /\ itskpri = [t \in Task |-> 0]
  /\ wupcnt = [t \in Task |-> 0]
  /\ waifct = [t \in Task |-> "TWFCT_NON"]
  /\ waitim = [t \in Task |-> 0]
  /\ waierr = [t \in Task |-> NULL]
  /\ err = [t \in Task |-> "E_OK"]
  /\ context = [t \in Task |-> "none"]
  /\ ready_queue = [p \in Pri |-> << >>]
  /\ wait_queue = << >>
  /\ cur_task = NULL
  /\ sche_task = NULL
  /\ disp_running = FALSE
  /\ thread = "main_cre"
  /\ cpu = "thread"
  /\ pend_sv = FALSE
  /\ tick = FALSE
  /\ scan = NULL

TaskStep == main \/ TaskCreates \/ TaskStarts \/ tk_ext_tsk \/ tk_dly_tsk \/ tk_slp_tsk \/ TaskWakes
HandlerStep == HandlerStarts \/ HandlerWakes
DispatchStep == PendSV \/ Dispatch \/ LeaveIdle
TickStep == SysTick \/ TickForever \/ TickCount \/ TickExpire \/ TickReturn

Next == TaskStep \/ HandlerStep \/ DispatchStep \/ TickStep

Spec == Init /\ [][Next]_vars
-----------------------------------------------------------------------------
(***************************************************************************)
(* Properties.                                                             *)
(***************************************************************************)
TypeOK ==
  /\ state \in [Task -> {"TS_NONEXIST", "TS_READY", "TS_WAIT", "TS_DORMANT"}]
  /\ itskpri \in [Task -> Pri]
  /\ wupcnt \in [Task -> 0 .. MaxWup]
  /\ waifct \in [Task -> WaiFct]
  /\ waitim \in [Task -> 0 .. UW_MAX]
  /\ waierr \in [Task -> Task \cup {NULL}]
  /\ err \in [Task -> {"E_OK", "E_TMOUT"}]
  /\ context \in [Task -> {"none", "live", "exited"}]
  /\ ready_queue \in [Pri -> Seq(Task)]
  /\ wait_queue \in Seq(Task)
  /\ cur_task \in Task \cup {NULL}
  /\ sche_task \in Task \cup {NULL}
  /\ disp_running \in BOOLEAN
  /\ thread \in {"main_cre", "main_sta", "main_end", "live", "exited"}
  /\ cpu \in {"thread", "pendsv", "idle"}
  /\ pend_sv \in BOOLEAN
  /\ tick \in BOOLEAN
  /\ scan \in Task \cup {NULL}

\* s lists the tasks of S, each once.
Lists(s, S) ==
  /\ \A i \in 1 .. Len(s) : s[i] \in S
  /\ \A i, j \in 1 .. Len(s) : s[i] = s[j] => i = j
  /\ \A t \in S : \E i \in 1 .. Len(s) : s[i] = t

\* A READY task is queued once, under its own priority, a WAIT task once in
\* the wait queue, and the others nowhere (knldef.h:9-14): the APIs remove a
\* queue's top without looking whose TCB it is, so one removal under a wrong
\* priority or of a wrong top loses a task for ever.
QueuesMatchState ==
  /\ \A p \in Pri : Lists(ready_queue[p], {t \in Task : state[t] = "TS_READY" /\ itskpri[t] = p})
  /\ Lists(wait_queue, {t \in Task : state[t] = "TS_WAIT"})

\* Outside the timer handler sche_task is the task the ready queues call for,
\* however the calls, the handlers and the dispatcher interleaved
\* (scheduler.c:15-26).
SchedulerUpToDate == ~tick => IsTop(sche_task, ready_queue)

\* No dispatch is ever missed: with no exception active or pending, the code
\* that runs belongs to the task which is the one to run, or is main() before
\* it has started one (scheduler.c:27-30, dispatch.S:10-90).
RunsTheTop ==
  Running =>
    \/ thread \in {"main_cre", "main_sta"}
    \/ cur_task = sche_task /\ IsTop(cur_task, ready_queue) /\ cur_task # NULL

\* A task that has ended never runs on: what tk_sta_tsk starts is a new
\* context (task_mange.c:54-59).
ExitedNeverRuns == Running => thread # "exited"

\* When the scheduler finds nothing to run, nothing is ready (scheduler.c:24).
NothingReadyWhenIdle ==
  ~tick /\ sche_task = NULL => \A t \in Task : state[t] # "TS_READY"

\* No wakeup is lost: a task does not sleep while wakeups for it are queued,
\* whether they came before, during or after its earlier waits
\* (task_sync.c:36-38, 76-78).
NoSleepWithPendingWakeup ==
  \A t \in Task : state[t] = "TS_WAIT" /\ waifct[t] = "TWFCT_SLP" => wupcnt[t] = 0

\* The timer writes the result of a timed-out wait into the waiting call's own
\* frame (systimer.c:25-29).
TimeoutHitsTheWaiter ==
  [][\A t \in Task : err'[t] = "E_TMOUT" /\ err[t] = "E_OK" =>
       scan = t /\ state[t] = "TS_WAIT" /\ waifct[t] # "TWFCT_DLY"]_vars

Before(s, t, u) == \E i, j \in 1 .. Len(s) : i < j /\ s[i] = t /\ s[j] = u

\* Tasks of one priority run first come, first served: who is before a queued
\* task was there before it, so no task is overtaken by one that becomes ready
\* later, nor by one already ready (knldef.h:105-109).
FifoAmongEquals ==
  [][\A p \in Pri, t, u \in Task :
       /\ \E i \in 1 .. Len(ready_queue[p]) : ready_queue[p][i] = u
       /\ Before(ready_queue'[p], t, u)
       => Before(ready_queue[p], t, u)]_vars

-----------------------------------------------------------------------------
(***************************************************************************)
(* Liveness.  SysTick fires again and again and its handler, which nothing *)
(* interrupts, runs to its end.  PendSV is held off by handlers but is     *)
(* taken when they return, hence strong fairness; the dispatcher proceeds  *)
(* as soon as no handler is active.                                        *)
(***************************************************************************)
Fairness ==
  /\ WF_vars(SysTick) /\ WF_vars(TickForever) /\ WF_vars(TickCount)
  /\ WF_vars(TickExpire) /\ WF_vars(TickReturn)
  /\ SF_vars(PendSV) /\ SF_vars(Dispatch) /\ SF_vars(LeaveIdle)
  /\ WF_vars(main)

FairSpec == Spec /\ Fairness

\* Every wait with a time limit ends (systimer.c:14-36).
TimeoutsFire ==
  \A t \in Task :
    state[t] = "TS_WAIT" /\ waitim[t] # UW(TMO_FEVR) ~> state[t] # "TS_WAIT"

\* The task the scheduler has chosen comes to run, unless it chooses another
\* (dispatch.S:10-90).
ChosenRuns ==
  \A t \in Task : sche_task = t ~> sche_task # t \/ (Running /\ cur_task = t)
=============================================================================
