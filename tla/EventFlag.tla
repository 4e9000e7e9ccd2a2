----------------------------- MODULE EventFlag -----------------------------
(***************************************************************************)
(* kernel/eventflag.c over the kernel: tasks create flags, wait for bits   *)
(* and clear bits, tasks and interrupt handlers set bits.  A pattern is    *)
(* the set of its bits, a wait mode the set of its options.                *)
(***************************************************************************)
EXTENDS Kernel

CONSTANTS
  CNF_MAX_FLGID,   \* config.h: number of event flags
  Bit,             \* the bits the application uses
  Ptn,             \* the patterns of its calls
  WfMode,          \* the wfmode arguments of tk_wai_flg
  WaitersPerFlag   \* the application's limit on the tasks waiting for a flag

Flg == 1 .. CNF_MAX_FLGID

ASSUME EventFlagAssumption ==
  /\ CNF_MAX_FLGID \in Nat
  /\ Ptn \subseteq SUBSET Bit
  /\ WfMode \subseteq SUBSET {"TWF_ORW", "TWF_CLR", "TWF_BITCLR"}
  /\ WaitersPerFlag \in Nat

VARIABLES
  flgcb,    \* the table of event flags, flgcb_tbl
  waiobj,   \* tcb->waiobj of the waits for a flag, NULL before the first
  waiptn,   \* tcb->waiptn
  wfmode,   \* tcb->wfmode
  flgptn    \* *tcb->p_flgptn, the pattern handed to the waiting task

flgvars == << flgcb, waiobj, waiptn, wfmode, flgptn >>

TMO_POL == 0

\* For Exists: an index is taken for a flag.
AlwaysExists(f) == TRUE

Exists(f) == flgcb[f].state = "KS_EXIST"

check_flag(ptn, wait, mode) ==
  IF "TWF_ORW" \in mode THEN ptn \cap wait # {} ELSE wait \subseteq ptn

\* For Cleared: TWF_BITCLR is forgotten.
ClearedAll(ptn, wait, mode) == IF "TWF_CLR" \in mode THEN {} ELSE ptn

\* What a satisfied wait leaves of the flag.
Cleared(ptn, wait, mode) ==
  IF "TWF_CLR" \in mode THEN {} ELSE IF "TWF_BITCLR" \in mode THEN ptn \ wait ELSE ptn

-----------------------------------------------------------------------------
WaitsFor(t, f) == state[t] = "TS_WAIT" /\ waifct[t] = "TWFCT_FLG" /\ waiobj[t] = f

Satisfied(t, f, ptn) == WaitsFor(t, f) /\ check_flag(ptn, waiptn[t], wfmode[t])

\* For FirstSatisfied: tests the flag as it is before the new bits are set.
SatisfiedBefore(t, f, ptn) == Satisfied(t, f, flgcb[f].flgptn)

\* For FirstSatisfied: whichever waiter it is.
AnySatisfied(t, f, ptn) ==
  Satisfied(t, f, ptn) /\ \E i \in 1 .. Len(wait_queue) : wait_queue[i] = t

\* The first waiter a loop over wait_queue finds that ptn satisfies.
FirstSatisfied(t, f, ptn) ==
  /\ Satisfied(t, f, ptn)
  /\ \E i \in 1 .. Len(wait_queue) :
       /\ wait_queue[i] = t
       /\ \A j \in 1 .. i - 1 : ~Satisfied(wait_queue[j], f, ptn)

-----------------------------------------------------------------------------
(***************************************************************************)
(* The APIs.  A call that returns E_ID, E_NOEXS, E_LIMIT or, with TMO_POL, *)
(* E_TMOUT changes nothing and is no step.                                 *)
(***************************************************************************)
tk_cre_flg(iflgptn) ==
  /\ \E f \in Flg :
       /\ flgcb[f].state = "KS_NONEXIST"
       /\ \A g \in Flg : g < f => flgcb[g].state # "KS_NONEXIST"
       /\ flgcb' = [flgcb EXCEPT ![f] = [state |-> "KS_EXIST", flgptn |-> iflgptn]]
  /\ UNCHANGED << tcb, queues, sche_task, pend_sv, waiobj, waiptn, wfmode, flgptn >>

\* The first waiter that the pattern satisfies is released and gets the pattern
\* as it was before the clearing.  The others are not looked at, because
\* tqueue_add_entry has made tcb->next NULL.
tk_set_flg(f, setptn) ==
  LET ptn == flgcb[f].flgptn \cup setptn
  IN  /\ Exists(f)
      /\ \/ \E t \in Task :
              /\ FirstSatisfied(t, f, ptn)
              /\ release(t)
              /\ flgptn' = [flgptn EXCEPT ![t] = ptn]
              /\ scheduler
              /\ flgcb' = [flgcb EXCEPT ![f].flgptn = Cleared(ptn, waiptn[t], wfmode[t])]
              /\ UNCHANGED << waierr, err >>
         \/ /\ \A t \in Task : ~FirstSatisfied(t, f, ptn)
            /\ flgcb' = [flgcb EXCEPT ![f].flgptn = ptn]
            /\ UNCHANGED << tcb, queues, sche_task, pend_sv, flgptn >>
      /\ UNCHANGED << waiobj, waiptn, wfmode >>

\* clrptn is the mask of the bits that stay.
tk_clr_flg(f, clrptn) ==
  /\ Exists(f)
  /\ flgcb' = [flgcb EXCEPT ![f].flgptn = @ \cap clrptn]
  /\ UNCHANGED << tcb, queues, sche_task, pend_sv, waiobj, waiptn, wfmode, flgptn >>

tk_wai_flg(f, wait, mode, tmout) ==
  /\ Exists(f)
  /\ \/ /\ check_flag(flgcb[f].flgptn, wait, mode)
        /\ flgptn' = [flgptn EXCEPT ![cur_task] = flgcb[f].flgptn]
        /\ flgcb' = [flgcb EXCEPT ![f].flgptn = Cleared(@, wait, mode)]
        /\ err' = [err EXCEPT ![cur_task] = "E_OK"]
        /\ UNCHANGED << state, itskpri, wupcnt, waifct, waitim, waierr, queues,
                        sche_task, pend_sv, waiobj, waiptn, wfmode >>
     \/ /\ ~check_flag(flgcb[f].flgptn, wait, mode)
        /\ tmout # TMO_POL
        /\ enter_wait("TWFCT_FLG", WaitTim(tmout))
        /\ waiobj' = [waiobj EXCEPT ![cur_task] = f]
        /\ waiptn' = [waiptn EXCEPT ![cur_task] = wait]
        /\ wfmode' = [wfmode EXCEPT ![cur_task] = mode]
        /\ UNCHANGED << flgcb, flgptn >>

TaskCreatesFlg ==
  /\ InTask
  /\ \E iflgptn \in Ptn \cup {{}} : tk_cre_flg(iflgptn)
  /\ UNCHANGED << dispatcher, timer >>

\* The application keeps to its limit of waiting tasks.
TaskWaits ==
  /\ InTask
  /\ \E f \in Flg, wait \in Ptn, mode \in WfMode, tmout \in Tmo :
       /\ Cardinality({t \in Task : WaitsFor(t, f)}) < WaitersPerFlag
       /\ tk_wai_flg(f, wait, mode, tmout)
  /\ UNCHANGED << dispatcher, timer >>

TaskSets ==
  /\ InTask
  /\ \E f \in Flg, setptn \in Ptn : tk_set_flg(f, setptn)
  /\ UNCHANGED << dispatcher, timer >>

TaskClears ==
  /\ InTask
  /\ \E f \in Flg, clrptn \in Ptn : tk_clr_flg(f, Bit \ clrptn)
  /\ UNCHANGED << dispatcher, timer >>

HandlerSets ==
  /\ InHandler /\ "tk_set_flg" \in HandlerApi
  /\ \E f \in Flg, setptn \in Ptn : tk_set_flg(f, setptn)
  /\ UNCHANGED << dispatcher, timer >>

-----------------------------------------------------------------------------
FlgInit ==
  /\ Init
  /\ flgcb = [f \in Flg |-> [state |-> "KS_NONEXIST", flgptn |-> {}]]
  /\ waiobj = [t \in Task |-> NULL]
  /\ waiptn = [t \in Task |-> {}]
  /\ wfmode = [t \in Task |-> {}]
  /\ flgptn = [t \in Task |-> {}]

KernelStep == Next /\ UNCHANGED flgvars

FlgNext == KernelStep \/ TaskCreatesFlg \/ TaskWaits \/ TaskSets \/ TaskClears \/ HandlerSets

FlgSpec == FlgInit /\ [][FlgNext]_<< vars, flgvars >>

-----------------------------------------------------------------------------
(***************************************************************************)
(* Properties.                                                             *)
(***************************************************************************)

\* Types; and an entry of the table that is not in use keeps its 0.
FlgTypeOK ==
  /\ flgcb \in [Flg -> [state : {"KS_NONEXIST", "KS_EXIST"}, flgptn : SUBSET Bit]]
  /\ \A f \in Flg : flgcb[f].state = "KS_NONEXIST" => flgcb[f].flgptn = {}
  /\ waiobj \in [Task -> Flg \cup {NULL}]
  /\ waiptn \in [Task -> Ptn \cup {{}}]
  /\ wfmode \in [Task -> WfMode \cup {{}}]
  /\ flgptn \in [Task -> SUBSET Bit]

\* A wait ends with E_OK for its cause only: the task has been handed a pattern
\* that meets its condition, and its bits are gone if it asked for that
\* (eventflag.c:54-73).
WaitsEndForCause ==
  [][\A t \in Task, f \in Flg :
       WaitsFor(t, f) /\ state'[t] = "TS_READY" /\ err'[t] = "E_OK" =>
         /\ check_flag(flgptn'[t], waiptn[t], wfmode[t])
         /\ wfmode[t] \cap {"TWF_CLR", "TWF_BITCLR"} # {} => flgcb'[f].flgptn \cap waiptn[t] = {}
    ]_<< vars, flgvars >>

\* Of the waiters that a pattern satisfies the one that came first is released
\* (eventflag.c:52-56).
ReleasedInOrder ==
  [][\A t, u \in Task, f \in Flg :
       /\ WaitsFor(t, f) /\ state'[t] = "TS_READY" /\ err'[t] = "E_OK"
       /\ Satisfied(u, f, flgptn'[t])
       => ~Before(wait_queue, u, t)]_<< vars, flgvars >>

\* A call serves one waiter and misses none but for that: who comes to wait for
\* what is there was waiting before, behind one that the same call released
\* (eventflag.c:50-76, 115-129).
LeftOnlyBehindAnother ==
  [][\A t \in Task, f \in Flg :
       ~Satisfied(t, f, flgcb[f].flgptn) /\ Satisfied(t, f, flgcb[f].flgptn)' =>
         \E u \in Task :
           /\ WaitsFor(u, f) /\ state'[u] = "TS_READY" /\ err'[u] = "E_OK"
           /\ Before(wait_queue, u, t)]_<< vars, flgvars >>

\* Nobody waits for what is there: a task waits because its condition does not
\* hold (eventflag.c:129) and is released when it comes to hold
\* (eventflag.c:55).  True of flags with one waiter each, not of two.
NobodyWaitsInVain == \A t \in Task, f \in Flg : ~Satisfied(t, f, flgcb[f].flgptn)
=============================================================================
