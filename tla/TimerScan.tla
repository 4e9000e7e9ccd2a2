----------------------------- MODULE TimerScan -----------------------------
(***************************************************************************)
(* systimer_handler on the pointers of TaskQueue: its loop takes the TCB   *)
(* it stands on out of the wait queue and links it into a ready queue by   *)
(* the same two fields it walks along.  Between two ticks the queues are   *)
(* used in any way that TaskQueue allows.                                  *)
(*                                                                         *)
(* asked and passed are history: the limit of a wait that is going on, as  *)
(* the caller gave it, and the ticks since it began.                       *)
(***************************************************************************)
EXTENDS TaskQueue, Integers

CONSTANTS
  wait_queue,
  TIMER_PERIOD,   \* milliseconds from tick to tick
  UW_MAX,         \* the largest unsigned word
  Limit           \* the limits of waits in milliseconds, TMO_FEVR for none

ASSUME TimerScanAssumption ==
  /\ wait_queue \in Queue
  /\ TIMER_PERIOD \in Nat \ {0} /\ UW_MAX \in Nat \ {0}
  /\ Limit \subseteq Int

VARIABLES
  waitim,
  turn,      \* "off", or where the loop is: "loop", or "relink" with tcb unlinked
  tcb, nxt,  \* the handler's local variables
  asked, passed

handler == << turn, tcb, nxt >>
times == << waitim, asked, passed >>
scanvars == << vars, handler, times >>

ready_queues == Queue \ {wait_queue}

TMO_FEVR == -1
UW(n) == n % (UW_MAX + 1)

\* For WaitTim: forgets that the first tick may come at once.
WaitTimShort(lim) == UW(lim)

\* What a wait is given to count down.
WaitTim(lim) == IF lim = TMO_FEVR THEN UW(lim) ELSE UW(lim + TIMER_PERIOD)

\* The limits that WaitTim neither wraps nor takes for TMO_FEVR.
Counted(lim) == lim >= 0 /\ lim + TIMER_PERIOD < UW_MAX

\* t's wait, if any, is over.
Over(t) ==
  /\ asked' = [asked EXCEPT ![t] = TMO_FEVR]
  /\ passed' = [passed EXCEPT ![t] = 0]

-----------------------------------------------------------------------------
(***************************************************************************)
(* Between ticks.                                                          *)
(***************************************************************************)
BeginWait(t, lim) ==
  /\ turn = "off"
  /\ Add(wait_queue, t)
  /\ waitim' = [waitim EXCEPT ![t] = WaitTim(lim)]
  /\ asked' = [asked EXCEPT ![t] = lim]
  /\ UNCHANGED << handler, passed >>

Release(t) ==
  /\ turn = "off"
  /\ RemoveEntry(wait_queue, t)
  /\ Over(t)
  /\ UNCHANGED << handler, waitim >>

ReadyStep ==
  /\ turn = "off"
  /\ \E q \in ready_queues :
       \/ RemoveTop(q)
       \/ \E t \in TCB : Add(q, t) \/ RemoveEntry(q, t)
  /\ UNCHANGED << handler, times >>

-----------------------------------------------------------------------------
(***************************************************************************)
(* systimer_handler.  A definition that another one is said to replace is  *)
(* a plausible bug.                                                        *)
(***************************************************************************)
Tick ==
  /\ turn = "off"
  /\ turn' = "loop"
  /\ tcb' = head[wait_queue]
  /\ passed' = [t \in TCB |->
       passed[t] + IF InQueue(wait_queue, t) /\ Counted(asked[t]) THEN 1 ELSE 0]
  /\ UNCHANGED << vars, nxt, waitim, asked >>

InLoop == turn = "loop" /\ tcb # NULL

Forever == waitim[tcb] = UW(TMO_FEVR)

Skip ==
  /\ InLoop /\ Forever
  /\ tcb' = next[tcb]
  /\ UNCHANGED << vars, times, turn, nxt >>

Count ==
  /\ InLoop /\ ~Forever /\ waitim[tcb] > TIMER_PERIOD
  /\ waitim' = [waitim EXCEPT ![tcb] = @ - TIMER_PERIOD]
  /\ tcb' = next[tcb]
  /\ UNCHANGED << vars, turn, nxt, asked, passed >>

Expire ==
  /\ InLoop /\ ~Forever /\ waitim[tcb] <= TIMER_PERIOD
  /\ nxt' = next[tcb]
  /\ RemoveEntry(wait_queue, tcb)
  /\ turn' = "relink"
  /\ Over(tcb)
  /\ UNCHANGED << tcb, waitim >>

\* For Successor: read when tcb is in its ready queue.
SuccessorLate == next'[tcb]

Successor == nxt

Relink ==
  /\ turn = "relink"
  /\ \E q \in ready_queues : Add(q, tcb)
  /\ tcb' = Successor
  /\ turn' = "loop" /\ nxt' = NULL
  /\ UNCHANGED times

Return ==
  /\ turn = "loop" /\ tcb = NULL
  /\ turn' = "off"
  /\ UNCHANGED << vars, times, tcb, nxt >>

systimer_handler == Tick \/ Skip \/ Count \/ Expire \/ Relink \/ Return

-----------------------------------------------------------------------------
ScanInit ==
  /\ Init
  /\ waitim = [t \in TCB |-> 0]
  /\ turn = "off" /\ tcb = NULL /\ nxt = NULL
  /\ asked = [t \in TCB |-> TMO_FEVR] /\ passed = [t \in TCB |-> 0]

ScanNext ==
  \/ \E t \in TCB : Release(t) \/ \E lim \in Limit : BeginWait(t, lim)
  \/ ReadyStep
  \/ systimer_handler

ScanSpec == ScanInit /\ [][ScanNext]_scanvars

-----------------------------------------------------------------------------
(***************************************************************************)
(* Properties.                                                             *)
(***************************************************************************)

\* The handler never ends a wait early: the first of the ticks may come at any
\* time after the wait began, so it does not count (task_sync.c:20, 46,
\* systimer.c:18-20).
NeverEarly ==
  [][\A t \in TCB :
       InLoop /\ tcb = t /\ Counted(asked[t]) /\ InQueue(wait_queue, t) /\ ~InQueue(wait_queue, t)'
         => (passed[t] - 1) * TIMER_PERIOD >= asked[t]]_scanvars

\* The handler misses nobody: when it returns, every wait whose time has passed
\* is over, whichever entries it took out on its way (systimer.c:14-35).
NobodyOverdue ==
  turn = "off" =>
    \A t \in TCB : InQueue(wait_queue, t) /\ Counted(asked[t]) =>
      (passed[t] - 1) * TIMER_PERIOD < asked[t]
=============================================================================
