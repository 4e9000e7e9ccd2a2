----------------------------- MODULE Semaphore -----------------------------
(***************************************************************************)
(* kernel/semaphore.c over the kernel: tasks create semaphores and wait    *)
(* for units, tasks and interrupt handlers return units.  The waiters of   *)
(* all semaphores share the kernel's wait queue with everybody else.       *)
(*                                                                         *)
(* ledger is a history variable: the units a semaphore should have by what *)
(* its callers were told, that is by the arguments of the calls that       *)
(* return units and by the results of those that ask for units.            *)
(***************************************************************************)
EXTENDS Kernel, FiniteSetsExt

CONSTANTS
  CNF_MAX_SEMID,   \* config.h: number of semaphores
  CSem,            \* the arguments of tk_cre_sem, [isemcnt, maxsem]
  Cnt              \* the cnt arguments of tk_wai_sem and tk_sig_sem

Sem == 1 .. CNF_MAX_SEMID

ASSUME SemaphoreAssumption ==
  /\ CNF_MAX_SEMID \in Nat
  /\ CSem \subseteq [isemcnt : Nat, maxsem : Nat]
  /\ \A c \in CSem : c.isemcnt <= c.maxsem
  /\ Cnt \subseteq Nat \ {0}

VARIABLES
  semcb,    \* the table of semaphores, semcb_tbl
  waiobj,   \* tcb->waiobj of the waits for a semaphore, NULL before the first
  waisem,   \* tcb->waisem
  ledger

semvars == << semcb, waiobj, waisem, ledger >>

TMO_POL == 0
Exists(s) == semcb[s].state = "KS_EXIST"

-----------------------------------------------------------------------------
(***************************************************************************)
(* Waiters and the ledger.                                                 *)
(***************************************************************************)
WaitsFor(t, s) == state[t] = "TS_WAIT" /\ waifct[t] = "TWFCT_SEM" /\ waiobj[t] = s

\* For FirstWaiter: any waiter, as if the loop went on where it breaks.
AnyWaiter(t, s) == WaitsFor(t, s) /\ \E i \in 1 .. Len(wait_queue) : wait_queue[i] = t

\* t is the first waiter for s that a loop over wait_queue meets.
FirstWaiter(t, s) ==
  /\ WaitsFor(t, s)
  /\ \E i \in 1 .. Len(wait_queue) :
       /\ wait_queue[i] = t
       /\ \A j \in 1 .. i - 1 : ~WaitsFor(wait_queue[j], s)

\* The waits for s that end in this step with E_OK: their callers take it that
\* they have got the units.
Granted(s) == {t \in Task : WaitsFor(t, s) /\ state'[t] = "TS_READY" /\ err'[t] = "E_OK"}

\* A call gives units to s (takes them, if negative), and waits may end.
Enter(s, units) ==
  ledger' = [r \in Sem |->
    ledger[r] + (IF r = s THEN units ELSE 0) - MapThenSumSet(LAMBDA t : waisem[t], Granted(r))]

-----------------------------------------------------------------------------
(***************************************************************************)
(* The APIs.  A call that returns E_ID, E_NOEXS, E_LIMIT, E_QOVR or, with  *)
(* TMO_POL, E_TMOUT changes nothing and is no step.  A definition that     *)
(* another one is said to replace is a plausible bug.                      *)
(***************************************************************************)
tk_cre_sem(pk) ==
  /\ \E s \in Sem :
       /\ ~Exists(s)
       /\ \A r \in Sem : r < s => Exists(r)
       /\ semcb' = [semcb EXCEPT ![s] =
            [state |-> "KS_EXIST", semcnt |-> pk.isemcnt, maxsem |-> pk.maxsem]]
       /\ UNCHANGED << tcb, queues, sche_task, pend_sv, waiobj, waisem >>
       /\ Enter(s, pk.isemcnt)

tk_wai_sem(s, cnt, tmout) ==
  /\ Exists(s)
  /\ \/ /\ semcb[s].semcnt >= cnt
        /\ semcb' = [semcb EXCEPT ![s].semcnt = @ - cnt]
        /\ err' = [err EXCEPT ![cur_task] = "E_OK"]
        /\ UNCHANGED << state, itskpri, wupcnt, waifct, waitim, waierr,
                        queues, sche_task, pend_sv, waiobj, waisem >>
        /\ Enter(s, -cnt)
     \/ /\ semcb[s].semcnt < cnt
        /\ tmout # TMO_POL
        /\ enter_wait("TWFCT_SEM", WaitTim(tmout))
        /\ waiobj' = [waiobj EXCEPT ![cur_task] = s]
        /\ waisem' = [waisem EXCEPT ![cur_task] = cnt]
        /\ UNCHANGED << semcb, ledger >>

\* For Suffices: one unit stays behind.
MoreThanSuffices(units, cnt) == units > cnt

Suffices(units, cnt) == units >= cnt

\* For Rest: the waiter's units stay in the semaphore too.
RestOfNothing(units, cnt) == units

Rest(units, cnt) == units - cnt

\* The part of tk_sig_sem that runs when s has units to give: the first waiter
\* gets its units, if they suffice.  Later waiters are not looked at, because
\* tqueue_add_entry has made tcb->next NULL.  frame is the caller's.
Serve(s, units, frame) ==
  \/ \E t \in Task :
       /\ FirstWaiter(t, s)
       /\ Suffices(units, waisem[t])
       /\ semcb' = [semcb EXCEPT ![s].semcnt = Rest(units, waisem[t])]
       /\ release(t)
       /\ waierr' = [waierr EXCEPT ![t] = frame]
       /\ err' = err
       /\ scheduler
  \/ /\ \A t \in Task : FirstWaiter(t, s) => ~Suffices(units, waisem[t])
     /\ semcb' = [semcb EXCEPT ![s].semcnt = units]
     /\ UNCHANGED << tcb, queues, sche_task, pend_sv >>

\* For Fits: no limit.
AlwaysFits(s, units) == TRUE

Fits(s, units) == units <= semcb[s].maxsem

tk_sig_sem(s, cnt, frame) ==
  /\ Exists(s)
  /\ Fits(s, semcb[s].semcnt + cnt)
  /\ Serve(s, semcb[s].semcnt + cnt, frame)
  /\ Enter(s, cnt)
  /\ UNCHANGED << waiobj, waisem >>

TaskCreatesSem ==
  /\ InTask
  /\ \E pk \in CSem : tk_cre_sem(pk)
  /\ UNCHANGED << dispatcher, timer >>

TaskWaits ==
  /\ InTask
  /\ \E s \in Sem, cnt \in Cnt, tmout \in Tmo : tk_wai_sem(s, cnt, tmout)
  /\ UNCHANGED << dispatcher, timer >>

TaskSignals ==
  /\ InTask
  /\ \E s \in Sem, cnt \in Cnt : tk_sig_sem(s, cnt, cur_task)
  /\ UNCHANGED << dispatcher, timer >>

HandlerSignals ==
  /\ InHandler /\ "tk_sig_sem" \in HandlerApi
  /\ \E s \in Sem, cnt \in Cnt : tk_sig_sem(s, cnt, NULL)
  /\ UNCHANGED << dispatcher, timer >>

-----------------------------------------------------------------------------
SemInit ==
  /\ Init
  /\ semcb = [s \in Sem |-> [state |-> "KS_NONEXIST", semcnt |-> 0, maxsem |-> 0]]
  /\ waiobj = [t \in Task |-> NULL]
  /\ waisem = [t \in Task |-> 0]
  /\ ledger = [s \in Sem |-> 0]

\* The steps of the kernel, the end of a wait by the timer among them.
KernelStep ==
  /\ Next
  /\ Enter(NULL, 0)
  /\ UNCHANGED << semcb, waiobj, waisem >>

SemNext == KernelStep \/ TaskCreatesSem \/ TaskWaits \/ TaskSignals \/ HandlerSignals

SemSpec == SemInit /\ [][SemNext]_<< vars, semvars >>

-----------------------------------------------------------------------------
(***************************************************************************)
(* Properties.                                                             *)
(***************************************************************************)
SemTypeOK ==
  /\ semcb \in [Sem -> [state : {"KS_NONEXIST", "KS_EXIST"}, semcnt : Nat, maxsem : Nat]]
  /\ \A s \in Sem : semcb[s].semcnt <= semcb[s].maxsem
  /\ waiobj \in [Task -> Sem \cup {NULL}]
  /\ waisem \in [Task -> Cnt \cup {0}]
  /\ ledger \in [Sem -> Int]

\* Units are neither lost nor made: the count is what the callers were told,
\* whether a wait ended by a signal, by a timeout, or a signal and a timeout
\* came together (semaphore.c:42-47, 82-108).
UnitsConserved == \A s \in Sem : ledger[s] = semcb[s].semcnt

\* Waiters are served in the order in which they came, also when a later one
\* asks for less (semaphore.c:84-102).
GrantsInOrder ==
  [][\A s \in Sem, t, u \in Task :
       t \in Granted(s) /\ WaitsFor(u, s) => ~Before(wait_queue, u, t)]_<< vars, semvars >>

\* Nobody who is first in line waits for units that are there: a wait begins
\* when the units are lacking (semaphore.c:49) and ends when there are enough
\* (semaphore.c:88).
NoIdleUnits ==
  \A s \in Sem, t \in Task : FirstWaiter(t, s) => semcb[s].semcnt < waisem[t]
=============================================================================
