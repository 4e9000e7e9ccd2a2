-------------------------- MODULE EventFlag_proofs --------------------------
(***************************************************************************)
(* Proofs about EventFlag, for every number of tasks, flags and bits: the  *)
(* kernel's invariant under the waits for flags, why waits end, the order  *)
(* of releases, who may be left waiting, and, for flags with one waiter    *)
(* each, that nobody waits in vain.                                        *)
(***************************************************************************)
EXTENDS EventFlag, Kernel_proofs, FiniteSetTheorems, WellFoundedInduction

allvars == << vars, flgvars >>

FInv == Inv /\ OwnFrame /\ FlgTypeOK

-----------------------------------------------------------------------------
(***************************************************************************)
(* The kernel's part of the invariant, and types.                          *)
(***************************************************************************)
LEMMA ClearedType ==
  ASSUME NEW ptn \in SUBSET Bit, NEW wait, NEW mode
  PROVE  Cleared(ptn, wait, mode) \in SUBSET Bit
  BY DEF Cleared

\* The branches of tk_set_flg.
Released(t, f, ptn) ==
  /\ FirstSatisfied(t, f, ptn)
  /\ release(t)
  /\ flgptn' = [flgptn EXCEPT ![t] = ptn]
  /\ scheduler
  /\ flgcb' = [flgcb EXCEPT ![f].flgptn = Cleared(ptn, waiptn[t], wfmode[t])]
  /\ UNCHANGED << waierr, err >>

OnlySet(f, ptn) ==
  /\ \A t \in Task : ~FirstSatisfied(t, f, ptn)
  /\ flgcb' = [flgcb EXCEPT ![f].flgptn = ptn]
  /\ UNCHANGED << tcb, queues, sche_task, pend_sv, flgptn >>

LEMMA SetParts ==
  ASSUME NEW f, NEW setptn, tk_set_flg(f, setptn)
  PROVE  LET ptn == flgcb[f].flgptn \cup setptn
         IN  /\ Exists(f) /\ UNCHANGED << waiobj, waiptn, wfmode >>
             /\ (\E t \in Task : Released(t, f, ptn)) \/ OnlySet(f, ptn)
  BY DEF tk_set_flg, Released, OnlySet

\* A step that changes one existing flag only.
LEMMA FlagChanged ==
  ASSUME FlgTypeOK, NEW f \in Flg, Exists(f), NEW ptn \in SUBSET Bit,
         flgcb' = [flgcb EXCEPT ![f].flgptn = ptn]
  PROVE  /\ flgcb' \in [Flg -> [state : {"KS_NONEXIST", "KS_EXIST"}, flgptn : SUBSET Bit]]
         /\ \A g \in Flg : flgcb'[g].state = "KS_NONEXIST" => flgcb'[g].flgptn = {}
         /\ flgcb'[f].flgptn = ptn
         /\ \A g \in Flg : g # f => flgcb'[g] = flgcb[g]
  BY DEF FlgTypeOK, Exists

LEMMA SetInv ==
  ASSUME FInv, ~tick, NEW f \in Flg, NEW setptn \in Ptn, tk_set_flg(f, setptn),
         UNCHANGED << dispatcher, timer >>
  PROVE  FInv'
<1> DEFINE ptn == flgcb[f].flgptn \cup setptn
<1>1. ptn \in SUBSET Bit
  BY EventFlagAssumption DEF FInv, FlgTypeOK
<1>2. Exists(f) /\ UNCHANGED << waiobj, waiptn, wfmode >>
  BY SetParts
<1>3. (\E t \in Task : Released(t, f, ptn)) \/ OnlySet(f, ptn)
  BY SetParts
<1> HIDE DEF ptn
<1>4. ASSUME NEW t \in Task, Released(t, f, ptn) PROVE FInv'
  <2>1. Inv'
    BY <1>4, ReleaseInv DEF Released, FInv, Inv, TypeOK
  <2>2. OwnFrame'
    BY <1>4, ReleaseOwnFrame DEF Released, FInv
  <2>3. FlgTypeOK'
    <3>1. flgptn' \in [Task -> SUBSET Bit]
      BY <1>1, <1>4 DEF Released, FInv, FlgTypeOK
    <3>2. Cleared(ptn, waiptn[t], wfmode[t]) \in SUBSET Bit
      BY <1>1, ClearedType
    <3>3. /\ flgcb' \in [Flg -> [state : {"KS_NONEXIST", "KS_EXIST"}, flgptn : SUBSET Bit]]
          /\ \A g \in Flg : flgcb'[g].state = "KS_NONEXIST" => flgcb'[g].flgptn = {}
      BY <1>2, <1>4, <3>2, FlagChanged DEF Released, FInv
    <3> QED
      BY <1>2, <3>1, <3>3 DEF FInv, FlgTypeOK
  <2> QED
    BY <2>1, <2>2, <2>3 DEF FInv
<1>5. CASE OnlySet(f, ptn)
  <2>1. Inv' /\ OwnFrame'
    BY <1>5, NextInv, NextOwnFrame DEF OnlySet, FInv, vars
  <2>2. FlgTypeOK'
    BY <1>1, <1>2, <1>5, FlagChanged DEF OnlySet, FInv, FlgTypeOK
  <2> QED
    BY <2>1, <2>2 DEF FInv
<1> QED
  BY <1>3, <1>4, <1>5

LEMMA WaitInv ==
  ASSUME FInv, InTask, NEW f \in Flg, NEW wait \in Ptn, NEW mode \in WfMode, NEW tmout \in Tmo,
         tk_wai_flg(f, wait, mode, tmout), UNCHANGED << dispatcher, timer >>
  PROVE  FInv'
<1>1. cur_task \in Task /\ tmout \in Int
  BY CallerIsTop, KernelAssumption DEF FInv
<1>2. Exists(f) /\ flgcb[f].flgptn \in SUBSET Bit
  BY DEF tk_wai_flg, FInv, FlgTypeOK
<1>3. CASE check_flag(flgcb[f].flgptn, wait, mode)
  <2>1. /\ flgptn' = [flgptn EXCEPT ![cur_task] = flgcb[f].flgptn]
        /\ flgcb' = [flgcb EXCEPT ![f].flgptn = Cleared(flgcb[f].flgptn, wait, mode)]
        /\ err' = [err EXCEPT ![cur_task] = "E_OK"]
        /\ UNCHANGED << state, itskpri, wupcnt, waifct, waitim, waierr, queues,
                        sche_task, pend_sv, waiobj, waiptn, wfmode >>
    BY <1>3 DEF tk_wai_flg
  <2>2. Inv'
    BY <1>1, <2>1, ResultInv DEF FInv, Inv, TypeOK
  <2>3. OwnFrame'
    BY <1>1, <2>1, ResultOwnFrame DEF FInv
  <2>4. Cleared(flgcb[f].flgptn, wait, mode) \in SUBSET Bit
    BY <1>2, ClearedType
  <2>5. FlgTypeOK'
    BY <1>1, <1>2, <2>1, <2>4, FlagChanged DEF FInv, FlgTypeOK
  <2> QED
    BY <2>2, <2>3, <2>5 DEF FInv
<1>4. CASE ~check_flag(flgcb[f].flgptn, wait, mode)
  <2>1. /\ enter_wait("TWFCT_FLG", WaitTim(tmout))
        /\ waiobj' = [waiobj EXCEPT ![cur_task] = f]
        /\ waiptn' = [waiptn EXCEPT ![cur_task] = wait]
        /\ wfmode' = [wfmode EXCEPT ![cur_task] = mode]
        /\ UNCHANGED << flgcb, flgptn >>
    BY <1>4 DEF tk_wai_flg
  <2>2. WaitTim(tmout) \in 0 .. UW_MAX
    <3>1. tmout + TIMER_PERIOD \in Int
      BY <1>1, KernelAssumption
    <3> QED
      BY <1>1, <3>1, UWType DEF WaitTim
  <2>3. Inv'
    BY <2>1, <2>2, EnterWaitInv DEF FInv, WaiFct
  <2>4. OwnFrame'
    BY <1>1, <2>1, EnterWaitOwnFrame DEF FInv
  <2>5. FlgTypeOK'
    BY <1>1, <2>1 DEF FInv, FlgTypeOK
  <2> QED
    BY <2>3, <2>4, <2>5 DEF FInv
<1> QED
  BY <1>3, <1>4

LEMMA CreateFlgInv ==
  ASSUME FInv, NEW iflgptn \in Ptn \cup {{}}, tk_cre_flg(iflgptn), UNCHANGED << dispatcher, timer >>
  PROVE  FInv'
<1>1. Inv' /\ OwnFrame'
  BY NextInv, NextOwnFrame DEF tk_cre_flg, FInv, vars
<1>2. iflgptn \in SUBSET Bit
  BY EventFlagAssumption
<1>3. FlgTypeOK'
  BY <1>2 DEF tk_cre_flg, FInv, FlgTypeOK
<1> QED
  BY <1>1, <1>3 DEF FInv

LEMMA ClearInv ==
  ASSUME FInv, NEW f \in Flg, NEW clrptn, tk_clr_flg(f, clrptn), UNCHANGED << dispatcher, timer >>
  PROVE  FInv'
<1>1. Inv' /\ OwnFrame'
  BY NextInv, NextOwnFrame DEF tk_clr_flg, FInv, vars
<1>2. flgcb[f].flgptn \cap clrptn \in SUBSET Bit
  BY DEF FInv, FlgTypeOK
<1>3. FlgTypeOK'
  BY <1>2, FlagChanged DEF tk_clr_flg, FInv, FlgTypeOK
<1> QED
  BY <1>1, <1>3 DEF FInv

LEMMA FlgNextInv == FInv /\ [FlgNext]_allvars => FInv'
<1>1. ASSUME FInv, UNCHANGED allvars PROVE FInv'
  <2>1. Inv' /\ OwnFrame'
    BY <1>1, NextInv, NextOwnFrame DEF FInv, allvars
  <2>2. FlgTypeOK'
    BY <1>1 DEF allvars, flgvars, FInv, FlgTypeOK
  <2> QED
    BY <2>1, <2>2 DEF FInv
<1>2. ASSUME FInv, KernelStep PROVE FInv'
  <2>1. Inv' /\ OwnFrame'
    BY <1>2, NextInv, NextOwnFrame DEF FInv, KernelStep
  <2>2. FlgTypeOK'
    BY <1>2 DEF KernelStep, flgvars, FInv, FlgTypeOK
  <2> QED
    BY <2>1, <2>2 DEF FInv
<1>3. ASSUME FInv, TaskCreatesFlg PROVE FInv'
  BY <1>3, CreateFlgInv DEF TaskCreatesFlg
<1>4. ASSUME FInv, TaskWaits PROVE FInv'
  BY <1>4, WaitInv DEF TaskWaits
<1>5. ASSUME FInv, TaskSets \/ HandlerSets PROVE FInv'
  BY <1>5, SetInv DEF TaskSets, HandlerSets, InTask, Running, InHandler
<1>6. ASSUME FInv, TaskClears PROVE FInv'
  BY <1>6, ClearInv DEF TaskClears
<1> QED
  BY <1>1, <1>2, <1>3, <1>4, <1>5, <1>6 DEF FlgNext

LEMMA FlgInitInv == FlgInit => FInv
<1> SUFFICES ASSUME FlgInit PROVE FInv
  OBVIOUS
<1>1. Inv /\ OwnFrame
  BY InitInv DEF FlgInit, Init, OwnFrame
<1>2. FlgTypeOK
  BY DEF FlgInit, FlgTypeOK
<1> QED
  BY <1>1, <1>2 DEF FInv

THEOREM FlgInvariance == FlgSpec => []FInv
  BY FlgInitInv, FlgNextInv, PTL DEF FlgSpec, allvars

\* The flags and what tasks keep about their waits have their types
\* (knldef.h:132-135).
THEOREM FlgTyping == FlgSpec => []FlgTypeOK
  BY FlgInvariance, PTL DEF FInv

-----------------------------------------------------------------------------
(***************************************************************************)
(* The order of releases.                                                  *)
(***************************************************************************)

\* What a step does to the waits: a task whose wait ends with E_OK has been
\* released by tk_set_flg.
LEMMA OkMeansReleased ==
  ASSUME FInv, FlgNext, NEW t \in Task, NEW f \in Flg,
         WaitsFor(t, f), state'[t] = "TS_READY", err'[t] = "E_OK"
  PROVE  \E setptn \in Ptn :
           Released(t, f, flgcb[f].flgptn \cup setptn) /\ UNCHANGED << waiobj, waiptn, wfmode >>
<1>1. state[t] = "TS_WAIT" /\ WaitsForObject(t)
  BY DEF WaitsFor, WaitsForObject, OwnWait
<1>2. ~KernelStep
  BY <1>1, NextObjectWaits DEF KernelStep, FInv
<1>3. ~(TaskCreatesFlg \/ TaskClears)
  BY <1>1 DEF TaskCreatesFlg, tk_cre_flg, TaskClears, tk_clr_flg, tcb
<1>4. ~TaskWaits
  BY <1>1 DEF TaskWaits, tk_wai_flg, enter_wait, FInv, Inv, TypeOK
<1>5. PICK g \in Flg, setptn \in Ptn : tk_set_flg(g, setptn)
  BY <1>2, <1>3, <1>4 DEF FlgNext, TaskSets, HandlerSets
<1>6. ~OnlySet(g, flgcb[g].flgptn \cup setptn)
  BY <1>1 DEF OnlySet, tcb
<1>7. PICK u \in Task : Released(u, g, flgcb[g].flgptn \cup setptn)
  BY <1>5, <1>6, SetParts
<1>8. u = t
  BY <1>1, <1>7 DEF Released, release, FInv, Inv, TypeOK
<1>9. g = f
  BY <1>7, <1>8 DEF Released, FirstSatisfied, Satisfied, WaitsFor
<1> QED
  BY <1>5, <1>7, <1>8, <1>9, SetParts

\* Of the waiters that a pattern satisfies the one that came first is released
\* (eventflag.c:52-56).
THEOREM ReleasesAreInOrder == FlgSpec => ReleasedInOrder
<1> DEFINE InOrder == \A t, u \in Task, f \in Flg :
                        /\ WaitsFor(t, f) /\ state'[t] = "TS_READY" /\ err'[t] = "E_OK"
                        /\ Satisfied(u, f, flgptn'[t])
                        => ~Before(wait_queue, u, t)
<1>1. ASSUME FInv, FlgNext PROVE InOrder
  <2> SUFFICES ASSUME NEW t \in Task, NEW u \in Task, NEW f \in Flg,
                      WaitsFor(t, f), state'[t] = "TS_READY", err'[t] = "E_OK",
                      Satisfied(u, f, flgptn'[t]), Before(wait_queue, u, t)
               PROVE  FALSE
    OBVIOUS
  <2>1. PICK setptn \in Ptn : Released(t, f, flgcb[f].flgptn \cup setptn)
    BY <1>1, OkMeansReleased
  <2> DEFINE ptn == flgcb[f].flgptn \cup setptn
  <2>2. flgptn'[t] = ptn /\ FirstSatisfied(t, f, ptn)
    BY <1>1, <2>1 DEF Released, FInv, FlgTypeOK
  <2> HIDE DEF ptn
  <2>3. PICK i \in 1 .. Len(wait_queue) :
          wait_queue[i] = t /\ \A j \in 1 .. i - 1 : ~Satisfied(wait_queue[j], f, ptn)
    BY <2>2 DEF FirstSatisfied
  <2>4. PICK j, k \in 1 .. Len(wait_queue) : j < k /\ wait_queue[j] = u /\ wait_queue[k] = t
    BY DEF Before
  <2>5. k = i
    BY <1>1, <2>3, <2>4 DEF FInv, Inv, QueuesMatchState, Lists
  <2>6. j \in 1 .. i - 1
    BY <2>3, <2>4, <2>5
  <2> QED
    BY <2>2, <2>3, <2>4, <2>6
<1>2. FInv /\ [FlgNext]_allvars => [InOrder]_allvars
  BY <1>1
<1> QED
  BY <1>2, FlgInvariance, PTL DEF FlgSpec, allvars, ReleasedInOrder

\* A wait ends with E_OK for its cause only (eventflag.c:54-73).
THEOREM CausesAreTrue == FlgSpec => WaitsEndForCause
<1> DEFINE Cause == \A t \in Task, f \in Flg :
                      WaitsFor(t, f) /\ state'[t] = "TS_READY" /\ err'[t] = "E_OK" =>
                        /\ check_flag(flgptn'[t], waiptn[t], wfmode[t])
                        /\ wfmode[t] \cap {"TWF_CLR", "TWF_BITCLR"} # {} =>
                             flgcb'[f].flgptn \cap waiptn[t] = {}
<1>1. ASSUME FInv, FlgNext PROVE Cause
  <2> SUFFICES ASSUME NEW t \in Task, NEW f \in Flg, WaitsFor(t, f), state'[t] = "TS_READY",
                      err'[t] = "E_OK"
               PROVE  /\ check_flag(flgptn'[t], waiptn[t], wfmode[t])
                      /\ wfmode[t] \cap {"TWF_CLR", "TWF_BITCLR"} # {} =>
                           flgcb'[f].flgptn \cap waiptn[t] = {}
    OBVIOUS
  <2>1. PICK setptn \in Ptn : Released(t, f, flgcb[f].flgptn \cup setptn)
    BY <1>1, OkMeansReleased
  <2> DEFINE ptn == flgcb[f].flgptn \cup setptn
  <2>2. /\ flgptn'[t] = ptn /\ check_flag(ptn, waiptn[t], wfmode[t])
        /\ flgcb'[f].flgptn = Cleared(ptn, waiptn[t], wfmode[t])
    BY <1>1, <2>1 DEF Released, FirstSatisfied, Satisfied, FInv, FlgTypeOK
  <2> HIDE DEF ptn
  <2>3. wfmode[t] \cap {"TWF_CLR", "TWF_BITCLR"} # {} =>
          Cleared(ptn, waiptn[t], wfmode[t]) \cap waiptn[t] = {}
    BY DEF Cleared
  <2> QED
    BY <2>2, <2>3
<1>2. FInv /\ [FlgNext]_allvars => [Cause]_allvars
  BY <1>1
<1> QED
  BY <1>2, FlgInvariance, PTL DEF FlgSpec, allvars, WaitsEndForCause

-----------------------------------------------------------------------------
(***************************************************************************)
(* Who may be left waiting.                                                *)
(***************************************************************************)

\* A clearing never satisfies anybody: what holds of a pattern holds of more.
LEMMA MoreSatisfies ==
  ASSUME NEW t, NEW f, NEW less, NEW more, less \subseteq more, Satisfied(t, f, less)
  PROVE  Satisfied(t, f, more)
  BY DEF Satisfied, check_flag

\* Of those a pattern satisfies one is the first in the queue.
LEMMA SomeoneIsFirst ==
  ASSUME FInv, NEW t \in Task, NEW f \in Flg, NEW ptn, Satisfied(t, f, ptn)
  PROVE  \E u \in Task : FirstSatisfied(u, f, ptn)
<1> DEFINE T == {i \in 1 .. Len(wait_queue) : Satisfied(wait_queue[i], f, ptn)}
<1>1. wait_queue \in Seq(Task) /\ Len(wait_queue) \in Nat
  BY DEF FInv, Inv, TypeOK
<1>2. T \subseteq Nat /\ T # {}
  <2>1. \E i \in 1 .. Len(wait_queue) : wait_queue[i] = t
    BY DEF Satisfied, WaitsFor, FInv, Inv, QueuesMatchState, Lists
  <2> QED
    BY <1>1, <2>1
<1>3. PICK i \in T : \A j \in T : ~(<< j, i >> \in OpToRel(<, Nat))
  BY <1>2, NatLessThanWellFounded, WFMin, Zenon
<1>4. i \in 1 .. Len(wait_queue) /\ Satisfied(wait_queue[i], f, ptn)
  OBVIOUS
<1>5. ASSUME NEW j \in 1 .. i - 1 PROVE ~Satisfied(wait_queue[j], f, ptn)
  <2>1. j \in 1 .. Len(wait_queue) /\ j \in Nat /\ i \in Nat /\ j < i
    BY <1>1, <1>4
  <2> QED
    BY <1>3, <2>1 DEF OpToRel
<1>6. wait_queue[i] \in Task
  BY <1>1, <1>4
<1> QED
  BY <1>4, <1>5, <1>6 DEF FirstSatisfied

\* The first is before every other one that the pattern satisfies.
LEMMA FirstIsBefore ==
  ASSUME FInv, NEW t \in Task, NEW u \in Task, NEW f \in Flg, NEW ptn,
         Satisfied(t, f, ptn), FirstSatisfied(u, f, ptn), u # t
  PROVE  Before(wait_queue, u, t)
<1>1. wait_queue \in Seq(Task)
  BY DEF FInv, Inv, TypeOK
<1>2. PICK i \in 1 .. Len(wait_queue) :
        wait_queue[i] = u /\ \A j \in 1 .. i - 1 : ~Satisfied(wait_queue[j], f, ptn)
  BY DEF FirstSatisfied
<1>3. PICK k \in 1 .. Len(wait_queue) : wait_queue[k] = t
  BY DEF Satisfied, WaitsFor, FInv, Inv, QueuesMatchState, Lists
<1>4. ~(k \in 1 .. i - 1) /\ k # i
  BY <1>2, <1>3
<1>5. i < k
  BY <1>1, <1>4
<1> QED
  BY <1>2, <1>3, <1>5 DEF Before

\* Who waits waits for a flag that exists.
AwaitedExist == \A t \in Task, f \in Flg : WaitsFor(t, f) => Exists(f)

\* A flag stays, and of one that is not set a pattern only loses bits.
LEMMA OnlySetsAdd ==
  ASSUME FInv, FlgNext, NEW f \in Flg, Exists(f)
  PROVE  /\ Exists(f)'
         /\ \/ flgcb'[f].flgptn \subseteq flgcb[f].flgptn
            \/ \E setptn \in Ptn : tk_set_flg(f, setptn)
<1>1. CASE KernelStep
  BY <1>1 DEF KernelStep, flgvars, Exists
<1>2. CASE TaskCreatesFlg
  BY <1>2 DEF TaskCreatesFlg, tk_cre_flg, Exists, FInv, FlgTypeOK
<1>3. CASE TaskWaits
  <2>1. PICK g \in Flg, wait \in Ptn, mode \in WfMode, tmout \in Tmo : tk_wai_flg(g, wait, mode, tmout)
    BY <1>3 DEF TaskWaits
  <2>2. \/ flgcb' = [flgcb EXCEPT ![g].flgptn = Cleared(flgcb[g].flgptn, wait, mode)]
        \/ flgcb' = flgcb
    BY <2>1 DEF tk_wai_flg
  <2>3. Cleared(flgcb[g].flgptn, wait, mode) \subseteq flgcb[g].flgptn
    BY DEF Cleared
  <2> QED
    BY <2>2, <2>3 DEF Exists, FInv, FlgTypeOK
<1>4. CASE TaskSets \/ HandlerSets
  <2>1. PICK g \in Flg, setptn \in Ptn : tk_set_flg(g, setptn)
    BY <1>4 DEF TaskSets, HandlerSets
  <2>2. \E ptn : flgcb' = [flgcb EXCEPT ![g].flgptn = ptn]
    BY <2>1, SetParts DEF Released, OnlySet
  <2>3. Exists(f)' /\ (f # g => flgcb'[f] = flgcb[f])
    BY <2>2 DEF Exists, FInv, FlgTypeOK
  <2> QED
    BY <2>1, <2>3
<1>5. CASE TaskClears
  BY <1>5 DEF TaskClears, tk_clr_flg, Exists, FInv, FlgTypeOK
<1> QED
  BY <1>1, <1>2, <1>3, <1>4, <1>5 DEF FlgNext

\* A wait of the next state was there before and stays as it is, or begins at an
\* existing flag that does not meet its condition.
LEMMA WaitsBefore ==
  ASSUME FInv, FlgNext, NEW t \in Task, NEW f \in Flg, WaitsFor(t, f)'
  PROVE  \/ WaitsFor(t, f) /\ waiptn'[t] = waiptn[t] /\ wfmode'[t] = wfmode[t]
         \/ Exists(f) /\ ~Satisfied(t, f, flgcb[f].flgptn)'
<1>1. CASE KernelStep
  <2>1. state[t] = "TS_WAIT" /\ waifct[t] = "TWFCT_FLG"
    BY <1>1, NextObjectWaits DEF KernelStep, FInv, WaitsFor, WaitsForObject, OwnWait
  <2> QED
    BY <1>1, <2>1 DEF KernelStep, flgvars, WaitsFor
<1>2. CASE TaskCreatesFlg \/ TaskClears
  BY <1>2 DEF TaskCreatesFlg, tk_cre_flg, TaskClears, tk_clr_flg, tcb, WaitsFor
<1>3. CASE TaskWaits
  <2>1. PICK g \in Flg, wait \in Ptn, mode \in WfMode, tmout \in Tmo : tk_wai_flg(g, wait, mode, tmout)
    BY <1>3 DEF TaskWaits
  <2>2. CASE check_flag(flgcb[g].flgptn, wait, mode)
    BY <2>1, <2>2 DEF tk_wai_flg, WaitsFor
  <2>3. CASE ~check_flag(flgcb[g].flgptn, wait, mode)
    <3>1. cur_task \in Task
      BY <1>3, CallerIsTop DEF TaskWaits, FInv
    <3>2. /\ Exists(g) /\ flgcb' = flgcb
          /\ waiobj' = [waiobj EXCEPT ![cur_task] = g]
          /\ waiptn' = [waiptn EXCEPT ![cur_task] = wait]
          /\ wfmode' = [wfmode EXCEPT ![cur_task] = mode]
          /\ state' = [state EXCEPT ![cur_task] = "TS_WAIT"]
          /\ waifct' = [waifct EXCEPT ![cur_task] = "TWFCT_FLG"]
      BY <2>1, <2>3 DEF tk_wai_flg, enter_wait
    <3>3. CASE t = cur_task
      <4>1. waiobj'[t] = g /\ waiptn'[t] = wait /\ wfmode'[t] = mode
        BY <3>1, <3>2, <3>3 DEF FInv, FlgTypeOK
      <4>2. f = g
        BY <4>1 DEF WaitsFor
      <4> QED
        BY <2>3, <3>2, <4>1, <4>2 DEF Satisfied
    <3>4. CASE t # cur_task
      BY <3>1, <3>2, <3>4 DEF FInv, FlgTypeOK, Inv, TypeOK, WaitsFor
    <3> QED
      BY <3>3, <3>4
  <2> QED
    BY <2>2, <2>3
<1>4. CASE TaskSets \/ HandlerSets
  <2>1. PICK g \in Flg, setptn \in Ptn : tk_set_flg(g, setptn)
    BY <1>4 DEF TaskSets, HandlerSets
  <2> DEFINE ptn == flgcb[g].flgptn \cup setptn
  <2>2. UNCHANGED << waiobj, waiptn, wfmode >>
    BY <2>1, SetParts
  <2>3. (\E u \in Task : Released(u, g, ptn)) \/ OnlySet(g, ptn)
    BY <2>1, SetParts
  <2> HIDE DEF ptn
  <2>4. CASE OnlySet(g, ptn)
    BY <2>2, <2>4 DEF OnlySet, tcb, WaitsFor
  <2>5. ASSUME NEW u \in Task, Released(u, g, ptn) PROVE WaitsFor(t, f)
    BY <2>2, <2>5 DEF Released, release, FInv, Inv, TypeOK, WaitsFor
  <2> QED
    BY <2>2, <2>3, <2>4, <2>5 DEF WaitsFor
<1> QED
  BY <1>1, <1>2, <1>3, <1>4 DEF FlgNext

LEMMA AwaitedInvariance == FlgSpec => []AwaitedExist
<1>1. FlgInit => AwaitedExist
  BY DEF FlgInit, Init, AwaitedExist, WaitsFor
<1>2. FInv /\ AwaitedExist /\ [FlgNext]_allvars => AwaitedExist'
  <2>1. FInv /\ AwaitedExist /\ FlgNext => AwaitedExist'
    <3> SUFFICES ASSUME FInv, AwaitedExist, FlgNext, NEW t \in Task, NEW f \in Flg, WaitsFor(t, f)'
                 PROVE  Exists(f)'
      BY DEF AwaitedExist
    <3>1. Exists(f)
      BY WaitsBefore DEF AwaitedExist
    <3> QED
      BY <3>1, OnlySetsAdd
  <2>2. AwaitedExist /\ UNCHANGED allvars => AwaitedExist'
    BY DEF AwaitedExist, WaitsFor, Exists, allvars, vars, tcb, flgvars
  <2> QED
    BY <2>1, <2>2
<1> QED
  BY <1>1, <1>2, FlgInvariance, PTL DEF FlgSpec, allvars

\* Who comes to wait for what is there was waiting before, behind one that the
\* same call of tk_set_flg released (eventflag.c:50-76, 115-129).
THEOREM OnlyTheServedGoBefore == FlgSpec => LeftOnlyBehindAnother
<1> DEFINE Behind(t, f) == \E u \in Task :
                             /\ WaitsFor(u, f) /\ state'[u] = "TS_READY" /\ err'[u] = "E_OK"
                             /\ Before(wait_queue, u, t)
           Left == \A t \in Task, f \in Flg :
                     ~Satisfied(t, f, flgcb[f].flgptn) /\ Satisfied(t, f, flgcb[f].flgptn)'
                     => Behind(t, f)
<1>1. ASSUME FInv, AwaitedExist, FlgNext PROVE Left
  <2> SUFFICES ASSUME NEW t \in Task, NEW f \in Flg, ~Satisfied(t, f, flgcb[f].flgptn),
                      Satisfied(t, f, flgcb[f].flgptn)'
               PROVE  Behind(t, f)
    OBVIOUS
  <2>1. WaitsFor(t, f) /\ waiptn'[t] = waiptn[t] /\ wfmode'[t] = wfmode[t]
    BY <1>1, WaitsBefore DEF Satisfied
  <2>2. Satisfied(t, f, flgcb'[f].flgptn)
    BY <2>1 DEF Satisfied, check_flag
  <2>3. ~(flgcb'[f].flgptn \subseteq flgcb[f].flgptn)
    BY <2>2, MoreSatisfies
  <2>4. PICK setptn \in Ptn : tk_set_flg(f, setptn)
    BY <1>1, <2>1, <2>3, OnlySetsAdd DEF AwaitedExist
  <2> DEFINE ptn == flgcb[f].flgptn \cup setptn
  <2>5. (\E u \in Task : Released(u, f, ptn)) \/ OnlySet(f, ptn)
    BY <2>4, SetParts
  <2> HIDE DEF ptn
  <2>6. flgcb'[f].flgptn \subseteq ptn
    BY <1>1, <2>5 DEF Released, OnlySet, Cleared, FInv, FlgTypeOK
  <2>7. Satisfied(t, f, ptn)
    BY <2>2, <2>6, MoreSatisfies
  <2>8. PICK u \in Task : Released(u, f, ptn)
    <3>1. \E v \in Task : FirstSatisfied(v, f, ptn)
      BY <1>1, <2>7, SomeoneIsFirst
    <3> QED
      BY <2>5, <3>1 DEF OnlySet
  <2>9. state'[u] = "TS_READY" /\ err'[u] = "E_OK" /\ WaitsFor(u, f) /\ u # t
    <3>1. state'[u] = "TS_READY" /\ err' = err /\ WaitsFor(u, f)
      BY <1>1, <2>8 DEF Released, release, FirstSatisfied, Satisfied, FInv, Inv, TypeOK
    <3>2. err[u] = "E_OK"
      BY <1>1, <3>1 DEF FInv, OwnFrame, WaitsFor
    <3>3. state'[t] = "TS_WAIT"
      BY DEF Satisfied, WaitsFor
    <3> QED
      BY <3>1, <3>2, <3>3
  <2>10. Before(wait_queue, u, t)
    BY <1>1, <2>7, <2>8, <2>9, FirstIsBefore DEF Released
  <2> QED
    BY <2>9, <2>10
<1>2. FInv /\ AwaitedExist /\ [FlgNext]_allvars => [Left]_allvars
  BY <1>1
<1> QED
  BY <1>2, FlgInvariance, AwaitedInvariance, PTL DEF FlgSpec, allvars, LeftOnlyBehindAnother

-----------------------------------------------------------------------------
(***************************************************************************)
(* Flags with one waiter each.                                             *)
(***************************************************************************)
AtMostOne == \A t, u \in Task, f \in Flg : WaitsFor(t, f) /\ WaitsFor(u, f) => t = u

\* The limit of one lets a task wait only where nobody does.
LEMMA NobodyYet ==
  ASSUME WaitersPerFlag = 1, NEW f, Cardinality({t \in Task : WaitsFor(t, f)}) < WaitersPerFlag
  PROVE  \A t \in Task : ~WaitsFor(t, f)
<1> DEFINE W == {t \in Task : WaitsFor(t, f)}
<1>1. IsFiniteSet(Task)
  BY FS_Interval, KernelAssumption DEF Task
<1>2. IsFiniteSet(W)
  BY <1>1, FS_Subset
<1>3. Cardinality(W) \in Nat
  BY <1>2, FS_CardinalityType
<1>4. Cardinality(W) = 0
  BY <1>3
<1>5. W = {}
  BY <1>2, <1>4, FS_EmptySet
<1> QED
  BY <1>5

\* With one waiter, who is satisfied is the first.
LEMMA OneIsFirst ==
  ASSUME FInv, AtMostOne, NEW t \in Task, NEW f \in Flg, NEW ptn, Satisfied(t, f, ptn)
  PROVE  FirstSatisfied(t, f, ptn)
<1>1. PICK i \in 1 .. Len(wait_queue) : wait_queue[i] = t
  BY DEF Satisfied, WaitsFor, FInv, Inv, QueuesMatchState, Lists
<1>2. ASSUME NEW j \in 1 .. i - 1 PROVE ~Satisfied(wait_queue[j], f, ptn)
  <2>1. wait_queue \in Seq(Task)
    BY DEF FInv, Inv, TypeOK
  <2>2. j \in 1 .. Len(wait_queue) /\ j # i
    BY <2>1
  <2>3. wait_queue[j] \in Task /\ wait_queue[j] # t
    BY <1>1, <2>1, <2>2 DEF FInv, Inv, QueuesMatchState, Lists
  <2> QED
    BY <2>3 DEF AtMostOne, Satisfied
<1> QED
  BY <1>1, <1>2 DEF FirstSatisfied

VInv == AtMostOne /\ AwaitedExist /\ NobodyWaitsInVain

\* A step that begins no wait keeps VInv if the awaited flags only lose bits.
LEMMA NoNewWait ==
  ASSUME VInv, UNCHANGED << waiobj, waiptn, wfmode >>,
         \A t \in Task : state'[t] = "TS_WAIT" /\ waifct'[t] = "TWFCT_FLG" =>
           /\ state[t] = "TS_WAIT" /\ waifct[t] = "TWFCT_FLG"
           /\ \A f \in Flg : WaitsFor(t, f) /\ Exists(f) =>
                Exists(f)' /\ flgcb'[f].flgptn \subseteq flgcb[f].flgptn
  PROVE  VInv'
<1>1. ASSUME NEW t \in Task, NEW f \in Flg, WaitsFor(t, f)'
      PROVE  /\ WaitsFor(t, f) /\ Exists(f)'
             /\ flgcb'[f].flgptn \subseteq flgcb[f].flgptn
  BY <1>1 DEF WaitsFor, VInv, AwaitedExist
<1>2. ASSUME NEW t \in Task, NEW f \in Flg, Satisfied(t, f, flgcb[f].flgptn)'
      PROVE  FALSE
  <2>1. WaitsFor(t, f) /\ flgcb'[f].flgptn \subseteq flgcb[f].flgptn
    BY <1>1, <1>2 DEF Satisfied
  <2>2. Satisfied(t, f, flgcb'[f].flgptn)
    BY <1>2, <2>1 DEF Satisfied, check_flag
  <2> QED
    BY <2>1, <2>2, MoreSatisfies DEF VInv, NobodyWaitsInVain
<1>3. AtMostOne' /\ AwaitedExist'
  BY <1>1 DEF VInv, AtMostOne, AwaitedExist
<1>4. NobodyWaitsInVain'
  BY <1>2 DEF NobodyWaitsInVain
<1> QED
  BY <1>3, <1>4 DEF VInv

LEMMA SetVain ==
  ASSUME FInv, VInv, NEW f \in Flg, NEW setptn \in Ptn, tk_set_flg(f, setptn)
  PROVE  VInv'
<1> DEFINE ptn == flgcb[f].flgptn \cup setptn
<1>1. ptn \in SUBSET Bit
  BY EventFlagAssumption DEF FInv, FlgTypeOK
<1>2. Exists(f) /\ UNCHANGED << waiobj, waiptn, wfmode >>
  BY SetParts
<1>3. (\E t \in Task : Released(t, f, ptn)) \/ OnlySet(f, ptn)
  BY SetParts
<1> HIDE DEF ptn
<1>4. ASSUME NEW t \in Task, Released(t, f, ptn) PROVE VInv'
  <2>1. WaitsFor(t, f) /\ \A u \in Task : WaitsFor(u, f) => u = t
    BY <1>4 DEF Released, FirstSatisfied, Satisfied, VInv, AtMostOne
  <2>2. /\ state'[t] = "TS_READY"
        /\ \A u \in Task \ {t} : state'[u] = state[u] /\ waifct'[u] = waifct[u]
    BY <1>4 DEF Released, release, FInv, Inv, TypeOK
  <2>3. \A g \in Flg : g # f => flgcb'[g] = flgcb[g]
    BY <1>4 DEF Released, FInv, FlgTypeOK
  <2> QED
    BY <1>2, <2>1, <2>2, <2>3, NoNewWait DEF Exists
<1>5. CASE OnlySet(f, ptn)
  <2>1. \A t \in Task : ~Satisfied(t, f, ptn)
    BY <1>5, OneIsFirst DEF OnlySet, VInv
  <2>2. UNCHANGED << state, waifct >>
    BY <1>5 DEF OnlySet, tcb
  <2>3. /\ \A g \in Flg : g # f => flgcb'[g] = flgcb[g]
        /\ flgcb'[f].flgptn = ptn /\ flgcb'[f].state = flgcb[f].state
    BY <1>5 DEF OnlySet, FInv, FlgTypeOK
  <2>4. AtMostOne' /\ AwaitedExist'
    BY <1>2, <2>2, <2>3 DEF VInv, AtMostOne, AwaitedExist, WaitsFor, Exists
  <2>5. NobodyWaitsInVain'
    BY <1>2, <2>1, <2>2, <2>3 DEF VInv, NobodyWaitsInVain, Satisfied, WaitsFor
  <2> QED
    BY <2>4, <2>5 DEF VInv
<1> QED
  BY <1>3, <1>4, <1>5

LEMMA WaitVain ==
  ASSUME FInv, VInv, InTask, NEW f \in Flg, NEW wait, NEW mode, NEW tmout,
         tk_wai_flg(f, wait, mode, tmout),
         ~check_flag(flgcb[f].flgptn, wait, mode) => \A t \in Task : ~WaitsFor(t, f)
  PROVE  VInv'
<1>1. cur_task \in Task /\ state[cur_task] = "TS_READY"
  BY CallerIsTop, TopHeadsItsQueue DEF FInv, Inv
<1>2. CASE check_flag(flgcb[f].flgptn, wait, mode)
  <2>1. /\ flgcb' = [flgcb EXCEPT ![f].flgptn = Cleared(flgcb[f].flgptn, wait, mode)]
        /\ UNCHANGED << state, waifct, waiobj, waiptn, wfmode >>
    BY <1>2 DEF tk_wai_flg
  <2>2. Cleared(flgcb[f].flgptn, wait, mode) \subseteq flgcb[f].flgptn
    BY DEF Cleared
  <2>3. \A g \in Flg : Exists(g) => Exists(g)' /\ flgcb'[g].flgptn \subseteq flgcb[g].flgptn
    BY <2>1, <2>2 DEF Exists, FInv, FlgTypeOK
  <2> QED
    BY <2>1, <2>3, NoNewWait
<1>3. CASE ~check_flag(flgcb[f].flgptn, wait, mode)
  <2>1. /\ Exists(f) /\ flgcb' = flgcb
        /\ waiobj' = [waiobj EXCEPT ![cur_task] = f]
        /\ waiptn' = [waiptn EXCEPT ![cur_task] = wait]
        /\ wfmode' = [wfmode EXCEPT ![cur_task] = mode]
        /\ state' = [state EXCEPT ![cur_task] = "TS_WAIT"]
        /\ waifct' = [waifct EXCEPT ![cur_task] = "TWFCT_FLG"]
    BY <1>3 DEF tk_wai_flg, enter_wait
  <2>2. /\ waiobj'[cur_task] = f /\ waiptn'[cur_task] = wait /\ wfmode'[cur_task] = mode
        /\ \A t \in Task \ {cur_task} :
             /\ waiobj'[t] = waiobj[t] /\ waiptn'[t] = waiptn[t] /\ wfmode'[t] = wfmode[t]
             /\ state'[t] = state[t] /\ waifct'[t] = waifct[t]
    BY <1>1, <2>1 DEF FInv, FlgTypeOK, Inv, TypeOK
  <2>3. \A t \in Task, g \in Flg :
          WaitsFor(t, g)' => (t = cur_task /\ g = f) \/ (t # cur_task /\ WaitsFor(t, g))
    BY <2>2 DEF WaitsFor
  <2>4. AtMostOne' /\ AwaitedExist'
    BY <1>3, <2>1, <2>3 DEF VInv, AtMostOne, AwaitedExist, Exists
  <2>5. NobodyWaitsInVain'
    BY <1>3, <2>1, <2>2, <2>3 DEF VInv, NobodyWaitsInVain, Satisfied
  <2> QED
    BY <2>4, <2>5 DEF VInv
<1> QED
  BY <1>2, <1>3

LEMMA NextVain ==
  ASSUME WaitersPerFlag = 1, FInv, VInv, FlgNext
  PROVE  VInv'
<1>1. CASE KernelStep
  <2>1. \A t \in Task : state'[t] = "TS_WAIT" /\ waifct'[t] = "TWFCT_FLG" =>
                        state[t] = "TS_WAIT" /\ waifct[t] = "TWFCT_FLG"
    BY <1>1, NextObjectWaits DEF KernelStep, FInv, WaitsForObject, OwnWait
  <2> QED
    BY <1>1, <2>1, NoNewWait DEF KernelStep, flgvars, Exists
<1>2. CASE TaskCreatesFlg
  <2>1. \A g \in Flg : Exists(g) => flgcb'[g] = flgcb[g]
    BY <1>2 DEF TaskCreatesFlg, tk_cre_flg, Exists, FInv, FlgTypeOK
  <2>2. UNCHANGED << state, waifct, waiobj, waiptn, wfmode >>
    BY <1>2 DEF TaskCreatesFlg, tk_cre_flg, tcb
  <2> QED
    BY <2>1, <2>2, NoNewWait DEF Exists
<1>3. CASE TaskWaits
  BY <1>3, NobodyYet, WaitVain DEF TaskWaits
<1>4. CASE TaskSets \/ HandlerSets
  BY <1>4, SetVain DEF TaskSets, HandlerSets
<1>5. CASE TaskClears
  <2>1. \A g \in Flg : Exists(g) => Exists(g)' /\ flgcb'[g].flgptn \subseteq flgcb[g].flgptn
    BY <1>5 DEF TaskClears, tk_clr_flg, Exists, FInv, FlgTypeOK
  <2>2. UNCHANGED << state, waifct, waiobj, waiptn, wfmode >>
    BY <1>5 DEF TaskClears, tk_clr_flg, tcb
  <2> QED
    BY <2>1, <2>2, NoNewWait
<1> QED
  BY <1>1, <1>2, <1>3, <1>4, <1>5 DEF FlgNext

LEMMA VainInvariance ==
  ASSUME WaitersPerFlag = 1
  PROVE  FlgSpec => []VInv
<1>1. FlgInit => VInv
  BY DEF FlgInit, Init, VInv, AtMostOne, AwaitedExist, NobodyWaitsInVain, Satisfied, WaitsFor
<1>2. FInv /\ VInv /\ [FlgNext]_allvars => VInv'
  <2>1. FInv /\ VInv /\ UNCHANGED allvars => VInv'
    BY NoNewWait DEF allvars, vars, tcb, flgvars, Exists
  <2> QED
    BY <2>1, NextVain
<1> QED
  BY <1>1, <1>2, FlgInvariance, PTL DEF FlgSpec, allvars

\* With one waiter per flag nobody waits for bits that are set
\* (eventflag.c:55, 129).
THEOREM NobodyEverWaitsInVain ==
  ASSUME WaitersPerFlag = 1
  PROVE  FlgSpec => []NobodyWaitsInVain
  BY VainInvariance, PTL DEF VInv
=============================================================================
