---------------------------- MODULE Device_proofs ----------------------------
(***************************************************************************)
(* Proofs about Device, for every number of tasks and semaphores and all   *)
(* arguments: whatever the tasks do with the devices, the kernel sees      *)
(* tasks that use semaphores, so what is proved of Semaphore holds; the    *)
(* locks keep the transfers on a unit apart; and the transfers are, to     *)
(* their callers, as if served one by one.                                 *)
(***************************************************************************)
EXTENDS Device, Semaphore_proofs

\* t waits for a lock.
SemWaits(t) == state[t] = "TS_WAIT" /\ waifct[t] = "TWFCT_SEM"

\* The tables have an entry for each device, and the calls one for each task.
Shape ==
  /\ dev_tbl \in [Dev -> [omode : SUBSET {"TD_READ", "TD_WRITE"}, opncnt : Nat]]
  /\ DOMAIN ll_devcb = Dev
  /\ \A d \in Dev : "semid" \in DOMAIN ll_devcb[d]
  /\ DOMAIN call = Task
  /\ \A t \in Task : {"pc", "dd", "op"} \subseteq DOMAIN call[t]

\* An open device has a lock of its own, a semaphore of one unit.
OpenInv ==
  \A d \in Dev : IsOpen(d) =>
    /\ ll_devcb[d].semid \in Sem
    /\ semcb[ll_devcb[d].semid].state = "KS_EXIST"
    /\ semcb[ll_devcb[d].semid].maxsem = 1
    /\ \A e \in Dev : IsOpen(e) /\ ll_devcb[d].semid = ll_devcb[e].semid => d = e

\* A call is for an open device, and one for the ADC reads.
CallInv ==
  /\ "TD_WRITE" \notin dev_tbl["adca"].omode
  /\ \A t \in Task : call[t].pc # "none" =>
       /\ call[t].dd \in Dev /\ IsOpen(call[t].dd)
       /\ call[t].dd = "adca" => call[t].op = "read"

\* Who waits for a semaphore waits for the lock of his device, without limit.
WaitInv ==
  \A t \in Task : SemWaits(t) =>
    /\ call[t].pc = "locked"
    /\ waiobj[t] = ll_devcb[call[t].dd].semid
    /\ waisem[t] = 1
    /\ waitim[t] = UW(TMO_FEVR)

\* The unit of a lock is in the semaphore or with one holder.
HoldInv ==
  \A d \in Dev : IsOpen(d) =>
    /\ \A t, u \in Task : Holds(t, d) /\ Holds(u, d) => t = u
    /\ semcb[ll_devcb[d].semid].semcnt = 0 <=> \E t \in Task : Holds(t, d)

DInv == SInv /\ Shape /\ OpenInv /\ CallInv /\ WaitInv /\ HoldInv

-----------------------------------------------------------------------------
(***************************************************************************)
(* The steps of the kernel.                                                *)
(***************************************************************************)

\* A wait for an object that has no limit is not ended by the kernel itself.
LEMMA ForeverStays ==
  ASSUME Inv, Next, NEW t \in Task, WaitsForObject(t), waitim[t] = UW(TMO_FEVR)
  PROVE  state'[t] = "TS_WAIT" /\ waifct'[t] = waifct[t] /\ waitim'[t] = UW(TMO_FEVR)
<1> DEFINE Goal == state'[t] = "TS_WAIT" /\ waifct'[t] = waifct[t] /\ waitim'[t] = UW(TMO_FEVR)
<1> SUFFICES Goal
  OBVIOUS
<1> HIDE DEF Goal
<1>1. ASSUME UNCHANGED << state, waifct, waitim >> PROVE Goal
  BY <1>1 DEF Goal, WaitsForObject
<1>2. ASSUME NEW u \in Task, tk_sta_tsk(u) PROVE Goal
  BY <1>2 DEF Goal, tk_sta_tsk, WaitsForObject, Inv, TypeOK
<1>3. ASSUME NEW u \in Task, tk_wup_tsk(u) PROVE Goal
  BY <1>3 DEF Goal, tk_wup_tsk, release, WaitsForObject, OwnWait, Inv, TypeOK
<1>4. ASSUME cur_task \in Task, state[cur_task] = "TS_READY", NEW fct, NEW tim, enter_wait(fct, tim)
      PROVE  Goal
  BY <1>4 DEF Goal, enter_wait, WaitsForObject, Inv, TypeOK
<1>5. CASE main
  <2>1. 1 \in Task
    BY KernelAssumption DEF Task
  <2> QED
    BY <1>2, <1>5, <2>1 DEF Goal, main, tk_cre_tsk, WaitsForObject, Inv, TypeOK
<1>6. CASE TaskCreates
  BY <1>6 DEF Goal, TaskCreates, tk_cre_tsk, WaitsForObject, Inv, TypeOK
<1>7. CASE TaskStarts \/ HandlerStarts
  BY <1>2, <1>7 DEF TaskStarts, HandlerStarts
<1>8. CASE tk_ext_tsk
  <2>1. cur_task \in Task /\ state[cur_task] = "TS_READY"
    BY <1>8, CallerIsTop, TopHeadsItsQueue DEF tk_ext_tsk, Inv
  <2> QED
    BY <1>8, <2>1 DEF Goal, tk_ext_tsk, WaitsForObject, Inv, TypeOK
<1>9. CASE tk_dly_tsk \/ tk_slp_tsk
  <2>1. cur_task \in Task /\ state[cur_task] = "TS_READY"
    BY <1>9, CallerIsTop, TopHeadsItsQueue DEF tk_dly_tsk, tk_slp_tsk, Inv
  <2> QED
    BY <1>1, <1>4, <1>9, <2>1 DEF tk_dly_tsk, tk_slp_tsk
<1>10. CASE TaskWakes \/ HandlerWakes
  BY <1>3, <1>10 DEF TaskWakes, HandlerWakes
<1>11. CASE DispatchStep
  BY <1>1, <1>11 DEF DispatchStep, PendSV, Dispatch, LeaveIdle, tcb
<1>12. CASE SysTick \/ TickForever \/ TickReturn
  BY <1>1, <1>12 DEF SysTick, TickForever, TickReturn, tcb
<1>13. CASE TickCount
  <2>1. scan # t
    BY <1>13 DEF TickCount
  <2> QED
    BY <1>13, <2>1 DEF Goal, TickCount, WaitsForObject, Inv, TypeOK
<1>14. CASE TickExpire
  <2>1. scan # t
    BY <1>14 DEF TickExpire
  <2> QED
    BY <1>14, <2>1 DEF Goal, TickExpire, release, WaitsForObject, Inv, TypeOK
<1> QED
  BY <1>5, <1>6, <1>7, <1>8, <1>9, <1>10, <1>11, <1>12, <1>13, <1>14
     DEF Next, TaskStep, HandlerStep, TickStep

\* The kernel's steps leave the devices and their locks alone.
LEMMA DevKernelInv == DInv /\ DevKernelStep => DInv'
<1> SUFFICES ASSUME DInv, DevKernelStep PROVE DInv'
  OBVIOUS
<1>1. /\ KernelStep
      /\ UNCHANGED << semcb, waiobj, waisem, dev_tbl, ll_devcb, call >>
  BY DEF DevKernelStep, OtherCall, KernelStep, Next, TaskStep, devvars
<1>2. SInv'
  BY <1>1, KernelStepInv DEF DInv
<1>3. \A t \in Task : SemWaits(t) => WaitsForObject(t) /\ waitim[t] = UW(TMO_FEVR)
  BY DEF DInv, WaitInv, SemWaits, WaitsForObject, OwnWait
<1>4. \A t \in Task : SemWaits(t) => SemWaits(t)' /\ waitim'[t] = UW(TMO_FEVR)
  BY <1>1, <1>3, ForeverStays DEF KernelStep, SemWaits, DInv, SInv
<1>5. \A t \in Task : SemWaits(t)' => SemWaits(t)
  BY <1>1, NextObjectWaits DEF KernelStep, SemWaits, DInv, SInv, WaitsForObject, OwnWait
<1>6. Shape' /\ OpenInv' /\ CallInv'
  BY <1>1 DEF DInv, Shape, OpenInv, CallInv, IsOpen
<1>7. WaitInv'
  BY <1>1, <1>4, <1>5 DEF DInv, WaitInv
<1>8. \A d, t : t \in Task => (Holds(t, d)' <=> Holds(t, d))
  BY <1>1, <1>4, <1>5 DEF Holds, SemWaits
<1>9. HoldInv'
  BY <1>1, <1>8 DEF DInv, HoldInv, IsOpen
<1> QED
  BY <1>2, <1>6, <1>7, <1>9 DEF DInv

-----------------------------------------------------------------------------
(***************************************************************************)
(* The driver's steps between its lock and its unlock.                     *)
(***************************************************************************)

\* What they have in common.
Within ==
  /\ InTask
  /\ NoApi
  /\ DOMAIN ll_devcb' = Dev
  /\ \A d \in Dev : "semid" \in DOMAIN ll_devcb'[d] /\ ll_devcb'[d].semid = ll_devcb[d].semid
  /\ DOMAIN call' = Task
  /\ \A t \in Task :
       /\ {"pc", "dd", "op"} \subseteq DOMAIN call'[t]
       /\ call'[t].dd = call[t].dd /\ call'[t].op = call[t].op
       /\ call'[t].pc = "none" <=> call[t].pc = "none"
       /\ t # cur_task => call'[t].pc = call[t].pc

\* They move the caller's pc on, and its state and its result.
LEMMA CallMoves ==
  ASSUME Shape, cur_task \in Task, call[cur_task].pc # "none",
         NEW c, DOMAIN c = DOMAIN call[cur_task], c.dd = call[cur_task].dd,
         c.op = call[cur_task].op, c.pc # "none",
         call' = [call EXCEPT ![cur_task] = c]
  PROVE  /\ DOMAIN call' = Task
         /\ \A t \in Task :
              /\ {"pc", "dd", "op"} \subseteq DOMAIN call'[t]
              /\ call'[t].dd = call[t].dd /\ call'[t].op = call[t].op
              /\ call'[t].pc = "none" <=> call[t].pc = "none"
              /\ t # cur_task => call'[t].pc = call[t].pc
  BY DEF Shape

LEMMA GotoMoves ==
  ASSUME Shape, cur_task \in Task, call[cur_task].pc # "none", NEW pc, pc # "none", Goto(pc)
  PROVE  /\ DOMAIN call' = Task
         /\ \A t \in Task :
              /\ {"pc", "dd", "op"} \subseteq DOMAIN call'[t]
              /\ call'[t].dd = call[t].dd /\ call'[t].op = call[t].op
              /\ call'[t].pc = "none" <=> call[t].pc = "none"
              /\ t # cur_task => call'[t].pc = call[t].pc
<1> DEFINE c == [call[cur_task] EXCEPT !.pc = pc]
<1>1. {"pc", "dd", "op"} \subseteq DOMAIN call[cur_task]
  BY DEF Shape
<1>2. DOMAIN c = DOMAIN call[cur_task] /\ c.dd = call[cur_task].dd /\ c.op = call[cur_task].op /\ c.pc # "none"
  BY <1>1
<1>3. call' = [call EXCEPT ![cur_task] = c]
  BY DEF Goto
<1> HIDE DEF c
<1> QED
  BY <1>2, <1>3, CallMoves

\* They keep the lock of every control block.
LEMMA BlockMoves ==
  ASSUME Shape, NEW d \in Dev, NEW cb, "semid" \in DOMAIN cb, cb.semid = ll_devcb[d].semid,
         ll_devcb' = [ll_devcb EXCEPT ![d] = cb]
  PROVE  /\ DOMAIN ll_devcb' = Dev
         /\ \A e \in Dev : "semid" \in DOMAIN ll_devcb'[e] /\ ll_devcb'[e].semid = ll_devcb[e].semid
  BY DEF Shape

LEMMA BlockStays ==
  ASSUME Shape, ll_devcb' = ll_devcb
  PROVE  /\ DOMAIN ll_devcb' = Dev
         /\ \A e \in Dev : "semid" \in DOMAIN ll_devcb'[e] /\ ll_devcb'[e].semid = ll_devcb[e].semid
  BY DEF Shape

LEMMA DriverWithin ==
  ASSUME DInv, set_com_start \/ TransStep \/ AdcStart \/ AdcRead
  PROVE  Within
<1>1. InTask /\ NoApi /\ call[cur_task].pc # "none"
  BY DEF set_com_start, TransStep, TransStart, TransSend, TransSent, TransRecv, TransReceived,
         TransEnd, AdcStart, AdcRead, At
<1>2. Shape /\ cur_task \in Task
  BY <1>1, CallerIsTop DEF DInv, SInv
<1>3. Dd \in Dev
  BY <1>1, <1>2 DEF DInv, CallInv, Dd
<1>4. {"pc", "dd", "op"} \subseteq DOMAIN call[cur_task] /\ "semid" \in DOMAIN Cb /\ Cb = ll_devcb[Dd]
  BY <1>2, <1>3 DEF Shape, Cb
<1> DEFINE Calls == /\ DOMAIN call' = Task
                    /\ \A t \in Task :
                         /\ {"pc", "dd", "op"} \subseteq DOMAIN call'[t]
                         /\ call'[t].dd = call[t].dd /\ call'[t].op = call[t].op
                         /\ call'[t].pc = "none" <=> call[t].pc = "none"
                         /\ t # cur_task => call'[t].pc = call[t].pc
           Blocks == /\ DOMAIN ll_devcb' = Dev
                     /\ \A d \in Dev : "semid" \in DOMAIN ll_devcb'[d] /\ ll_devcb'[d].semid = ll_devcb[d].semid
<1>5. ASSUME NEW pc, pc # "none", Goto(pc) PROVE Calls
  BY <1>1, <1>2, <1>5, GotoMoves
<1>6. ASSUME NEW pc, NEW st, NEW e, pc # "none",
             \/ call' = [call EXCEPT ![cur_task] = [@ EXCEPT !.pc = pc, !.state = st, !.err = e]]
             \/ call' = [call EXCEPT ![cur_task] = [@ EXCEPT !.pc = pc, !.err = e, !.state = st]]
             \/ call' = [call EXCEPT ![cur_task] = [@ EXCEPT !.pc = pc, !.state = st]]
      PROVE  Calls
  <2> DEFINE c1 == [call[cur_task] EXCEPT !.pc = pc, !.state = st, !.err = e]
             c2 == [call[cur_task] EXCEPT !.pc = pc, !.err = e, !.state = st]
             c3 == [call[cur_task] EXCEPT !.pc = pc, !.state = st]
  <2>1. \A c \in {c1, c2, c3} :
          /\ DOMAIN c = DOMAIN call[cur_task] /\ c.dd = call[cur_task].dd
          /\ c.op = call[cur_task].op /\ c.pc # "none"
    BY <1>4, <1>6
  <2>2. \E c \in {c1, c2, c3} : call' = [call EXCEPT ![cur_task] = c]
    BY <1>6
  <2> HIDE DEF c1, c2, c3
  <2> QED
    BY <1>1, <1>2, <2>1, <2>2, CallMoves
<1>7. ASSUME NEW cb, "semid" \in DOMAIN cb, cb.semid = Cb.semid,
             ll_devcb' = [ll_devcb EXCEPT ![Dd] = cb]
      PROVE  Blocks
  BY <1>2, <1>3, <1>4, <1>7, BlockMoves
<1>8. ASSUME UNCHANGED ll_devcb PROVE Blocks
  BY <1>2, <1>8, BlockStays
<1>9. ASSUME NEW byte, Stores(byte) PROVE Blocks
  <2> DEFINE cb == [Cb EXCEPT !.rbuf[2] = @ + 1]
  <2>1. "semid" \in DOMAIN cb /\ cb.semid = Cb.semid
    BY <1>4
  <2>2. ll_devcb' = [ll_devcb EXCEPT ![Dd] = cb]
    BY <1>4, <1>9 DEF Stores
  <2> HIDE DEF cb
  <2> QED
    BY <2>1, <2>2, <1>7
<1> HIDE DEF Calls, Blocks
<1>10. CASE set_com_start
  <2> DEFINE c == call[cur_task]
             cb == [semid |-> Cb.semid, sadr |-> c.start,
                    sdat_num |-> IF c.op = "read" THEN 0 ELSE c.size,
                    rdat_num |-> IF c.op = "write" THEN 0 ELSE c.size,
                    sbuf |-> IF c.op = "read" THEN NULL ELSE << cur_task, 1 >>,
                    rbuf |-> IF c.op = "write" THEN NULL ELSE << cur_task, 1 >>]
  <2>1. "semid" \in DOMAIN cb /\ cb.semid = Cb.semid
    OBVIOUS
  <2>2. ll_devcb' = [ll_devcb EXCEPT ![Dd] = cb]
    BY <1>4, <1>10 DEF set_com_start
  <2> HIDE DEF cb
  <2>3. Blocks
    BY <2>1, <2>2, <1>7
  <2>4. Calls
    BY <1>10, <1>5 DEF set_com_start
  <2> QED
    BY <1>1, <2>3, <2>4 DEF Within, Calls, Blocks
<1>11. CASE TransStart
  <2>1. Blocks
    BY <1>11, <1>8 DEF TransStart
  <2>2. Calls
    <3> DEFINE st == NextState(Cb)
               e == IF NextState(Cb) = "I2C_STS_STOP" THEN "E_PAR" ELSE call[cur_task].err
    <3>1. call' = [call EXCEPT ![cur_task] = [@ EXCEPT !.pc = "loop", !.state = st, !.err = e]]
      BY <1>11 DEF TransStart
    <3>2. "loop" # "none"
      OBVIOUS
    <3> HIDE DEF st, e
    <3> QED
      BY <3>1, <3>2, <1>6
  <2> QED
    BY <1>1, <2>1, <2>2 DEF Within, Calls, Blocks
<1>12. CASE TransSend
  <2> DEFINE cb == [Cb EXCEPT !.sdat_num = @ - 1, !.sbuf[2] = @ + 1]
  <2>1. "semid" \in DOMAIN cb /\ cb.semid = Cb.semid
    BY <1>4
  <2>2. /\ ll_devcb' = [ll_devcb EXCEPT ![Dd] = cb]
        /\ call' = [call EXCEPT ![cur_task].pc = "send", ![cur_task].state = NextState(cb)]
    BY <1>12 DEF TransSend
  <2> HIDE DEF cb
  <2>3. Blocks
    BY <2>1, <2>2, <1>7
  <2>4. call' = [call EXCEPT ![cur_task] = [@ EXCEPT !.pc = "send", !.state = NextState(cb)]]
    BY <1>2, <1>4, <2>2 DEF Shape
  <2>5. Calls
    BY <2>4, <1>6
  <2> QED
    BY <1>1, <2>3, <2>5 DEF Within, Calls, Blocks
<1>13. CASE TransRecv
  <2> DEFINE cb == [Cb EXCEPT !.rdat_num = @ - 1]
  <2>1. "semid" \in DOMAIN cb /\ cb.semid = Cb.semid
    BY <1>4
  <2>2. /\ ll_devcb' = [ll_devcb EXCEPT ![Dd] = cb]
        /\ call' = [call EXCEPT ![cur_task].pc = "recv", ![cur_task].state = NextState(cb)]
    BY <1>13 DEF TransRecv
  <2> HIDE DEF cb
  <2>3. Blocks
    BY <2>1, <2>2, <1>7
  <2>4. call' = [call EXCEPT ![cur_task] = [@ EXCEPT !.pc = "recv", !.state = NextState(cb)]]
    BY <1>2, <1>4, <2>2 DEF Shape
  <2>5. Calls
    BY <2>4, <1>6
  <2> QED
    BY <1>1, <2>3, <2>5 DEF Within, Calls, Blocks
<1>14. CASE TransReceived
  <2>1. Blocks
    BY <1>14, <1>9 DEF TransReceived
  <2>2. CASE /\ unit[Dd].abort
             /\ call' = [call EXCEPT ![cur_task].pc = "loop", ![cur_task].err = "E_IO",
                                     ![cur_task].state = "I2C_STS_STOP"]
    <3>1. call' = [call EXCEPT ![cur_task] =
                     [@ EXCEPT !.pc = "loop", !.err = "E_IO", !.state = "I2C_STS_STOP"]]
      BY <1>2, <1>4, <2>2 DEF Shape
    <3>2. Calls
      BY <3>1, <1>6
    <3> QED
      BY <1>1, <2>1, <3>2 DEF Within, Calls, Blocks
  <2>3. CASE Goto("loop")
    BY <1>1, <1>5, <2>1, <2>3 DEF Within, Calls, Blocks
  <2> QED
    BY <1>14, <2>2, <2>3 DEF TransReceived
<1>15. CASE TransSent \/ TransEnd \/ AdcStart \/ AdcRead
  <2>1. Blocks
    BY <1>15, <1>8 DEF TransSent, TransEnd, AdcStart, AdcRead
  <2>2. Calls
    BY <1>15, <1>5 DEF TransSent, TransEnd, AdcStart, AdcRead
  <2> QED
    BY <1>1, <2>1, <2>2 DEF Within, Calls, Blocks
<1> QED
  BY <1>10, <1>11, <1>12, <1>13, <1>14, <1>15 DEF TransStep

\* The caller is not waiting.
LEMMA CallerIsReady ==
  ASSUME Inv, InTask
  PROVE  cur_task \in Task /\ state[cur_task] = "TS_READY" /\ ~SemWaits(cur_task)
  BY CallerIsTop, TopHeadsItsQueue DEF Inv, SemWaits

LEMMA WithinInv == DInv /\ Within => DInv'
<1> SUFFICES ASSUME DInv, Within PROVE DInv'
  OBVIOUS
<1>1. UNCHANGED << vars, semvars, dev_tbl >>
  BY DEF Within, NoApi
<1>2. SInv'
  BY <1>1, SemNextInv DEF DInv, allvars
<1>3. UNCHANGED << state, waifct, waitim, waiobj, waisem, semcb >>
  BY <1>1 DEF vars, tcb, semvars
<1>4. cur_task \in Task /\ ~SemWaits(cur_task)
  BY CallerIsReady DEF DInv, SInv, Within
<1>5. Shape' /\ OpenInv'
  BY <1>1, <1>3 DEF DInv, Shape, OpenInv, IsOpen, Within
<1>6. CallInv'
  BY <1>1 DEF DInv, CallInv, IsOpen, Within
<1>7. WaitInv'
  <2> SUFFICES ASSUME NEW t \in Task, SemWaits(t)'
               PROVE  /\ call'[t].pc = "locked"
                      /\ waiobj'[t] = ll_devcb'[call'[t].dd].semid
                      /\ waisem'[t] = 1
                      /\ waitim'[t] = UW(TMO_FEVR)
    BY DEF WaitInv
  <2>1. SemWaits(t) /\ t # cur_task
    BY <1>3, <1>4 DEF SemWaits
  <2>2. call'[t].pc = "locked" /\ call'[t].dd = call[t].dd /\ call[t].dd \in Dev
    BY <2>1 DEF Within, DInv, WaitInv, CallInv
  <2>3. ll_devcb'[call[t].dd].semid = ll_devcb[call[t].dd].semid
    BY <2>2 DEF Within
  <2> QED
    BY <1>3, <2>1, <2>2, <2>3 DEF DInv, WaitInv
<1>8. \A t \in Task, d \in Dev : Holds(t, d)' <=> Holds(t, d)
  BY <1>3 DEF Holds, Within
<1>9. HoldInv'
  BY <1>1, <1>3, <1>8 DEF DInv, HoldInv, IsOpen, Within
<1> QED
  BY <1>2, <1>5, <1>6, <1>7, <1>9 DEF DInv

-----------------------------------------------------------------------------
(***************************************************************************)
(* The steps that create, take and return a lock.                          *)
(***************************************************************************)
LEMMA OpensInv == DInv /\ TaskOpens => DInv' /\ TaskCreatesSem
<1> SUFFICES ASSUME DInv, InTask,
                    NEW d \in DevNm, NEW omode \in OMode, tk_opn_dev(d, omode)
             PROVE  DInv' /\ TaskCreatesSem
  BY DEF TaskOpens
<1>1. /\ d \in Dev /\ Lock \in CSem /\ omode \subseteq {"TD_READ", "TD_WRITE"}
      /\ ~IsOpen(d) /\ ~Refuses(d, omode)
  BY DeviceAssumption DEF tk_opn_dev
<1>2. /\ dev_tbl' = [dev_tbl EXCEPT ![d] = [omode |-> omode, opncnt |-> @.opncnt + 1]]
      /\ tk_cre_sem(Lock) /\ UNCHANGED << dispatcher, timer, call >>
  BY DEF tk_opn_dev, Opens
<1>3. PICK s \in Sem : /\ semcb[s].state # semcb'[s].state
                       /\ ll_devcb' = [ll_devcb EXCEPT ![d].semid = s]
  BY DEF tk_opn_dev, Opens
<1>4. TaskCreatesSem /\ SInv'
  BY <1>1, <1>2, CreatesInv DEF TaskCreatesSem, DInv
<1>5. /\ UNCHANGED << tcb, waiobj, waisem >>
      /\ ~Exists(s)
      /\ semcb'[s].state = "KS_EXIST" /\ semcb'[s].semcnt = 1 /\ semcb'[s].maxsem = 1
      /\ \A r \in Sem : r # s => semcb'[r] = semcb[r]
  <2>1. PICK r \in Sem :
          /\ ~Exists(r)
          /\ semcb' = [semcb EXCEPT ![r] = [state |-> "KS_EXIST", semcnt |-> 1, maxsem |-> 1]]
          /\ UNCHANGED << tcb, waiobj, waisem >>
    BY <1>2 DEF tk_cre_sem, Lock
  <2>2. r = s
    BY <1>3, <2>1 DEF DInv, SInv, SemInv, SemTypeOK
  <2> QED
    BY <2>1, <2>2 DEF DInv, SInv, SemInv, SemTypeOK
<1>6. /\ dev_tbl' \in [Dev -> [omode : SUBSET {"TD_READ", "TD_WRITE"}, opncnt : Nat]]
      /\ dev_tbl'[d].opncnt = 1 /\ dev_tbl'[d].omode = omode
      /\ \A e \in Dev \ {d} : dev_tbl'[e] = dev_tbl[e]
  BY <1>1, <1>2 DEF DInv, Shape, IsOpen
<1>7. /\ DOMAIN ll_devcb' = Dev
      /\ \A e \in Dev : "semid" \in DOMAIN ll_devcb'[e]
      /\ ll_devcb'[d].semid = s
      /\ \A e \in Dev \ {d} : ll_devcb'[e] = ll_devcb[e]
  BY <1>1, <1>3 DEF DInv, Shape
<1>8. Shape'
  BY <1>2, <1>6, <1>7 DEF DInv, Shape
<1>9. \A e \in Dev : IsOpen(e)' <=> IsOpen(e) \/ e = d
  BY <1>6 DEF IsOpen
<1>10. \A e \in Dev : IsOpen(e) =>
         e # d /\ ll_devcb[e].semid \in Sem /\ ll_devcb[e].semid # s
  BY <1>1, <1>5 DEF DInv, OpenInv, Exists
<1>11. OpenInv'
  BY <1>5, <1>7, <1>9, <1>10 DEF DInv, OpenInv
<1>12. CallInv'
  BY <1>1, <1>2, <1>6, <1>9 DEF DInv, CallInv, Refuses
<1>13. \A t \in Task : SemWaits(t)' <=> SemWaits(t)
  BY <1>5 DEF SemWaits, tcb
<1>14. \A t \in Task : call[t].pc # "none" =>
         call[t].dd \in Dev /\ IsOpen(call[t].dd) /\ ll_devcb'[call[t].dd] = ll_devcb[call[t].dd]
  BY <1>7, <1>10 DEF DInv, CallInv
<1>15. WaitInv'
  <2>1. \A t \in Task : SemWaits(t) => ll_devcb'[call[t].dd].semid = ll_devcb[call[t].dd].semid
    BY <1>14 DEF DInv, WaitInv
  <2> QED
    BY <1>2, <1>5, <1>13, <2>1 DEF DInv, WaitInv, tcb
<1>16. \A t \in Task, e \in Dev : Holds(t, e)' <=> Holds(t, e)
  BY <1>2, <1>5 DEF Holds, tcb
<1>17. \A t \in Task : ~Holds(t, d)
  BY <1>1, <1>14 DEF Holds
<1>18. HoldInv'
  <2> SUFFICES ASSUME NEW e \in Dev, IsOpen(e)'
               PROVE  /\ \A t, u \in Task : Holds(t, e)' /\ Holds(u, e)' => t = u
                      /\ semcb'[ll_devcb'[e].semid].semcnt = 0 <=> \E t \in Task : Holds(t, e)'
    BY DEF HoldInv
  <2>1. CASE e = d
    BY <1>5, <1>7, <1>16, <1>17, <2>1
  <2>2. CASE e # d
    <3>1. IsOpen(e) /\ ll_devcb'[e].semid = ll_devcb[e].semid /\ semcb'[ll_devcb[e].semid] = semcb[ll_devcb[e].semid]
      BY <1>5, <1>7, <1>9, <1>10, <2>2
    <3> QED
      BY <1>16, <3>1 DEF DInv, HoldInv
  <2> QED
    BY <2>1, <2>2
<1> QED
  BY <1>4, <1>8, <1>11, <1>12, <1>15, <1>18 DEF DInv

LEMMA EntersInv ==
  ASSUME DInv, InTask, Idle, NEW d \in Dev, NEW op, NEW start, NEW size, Enters(d, op, start, size),
         d = "adca" => op = "read"
  PROVE  DInv' /\ TaskWaits
<1> DEFINE s == ll_devcb[d].semid
<1>1. /\ IsOpen(d) /\ s \in Sem /\ tk_wai_sem(s, 1, TMO_FEVR)
      /\ UNCHANGED << dispatcher, timer, dev_tbl, ll_devcb >>
      /\ semcb[s].maxsem = 1
  BY DEF Enters, Locks, DInv, OpenInv
<1>2. TaskWaits /\ SInv'
  BY <1>1, DeviceAssumption, WaitsInv DEF TaskWaits, DInv
<1>3. PICK c \in Task : c = cur_task /\ state[c] = "TS_READY" /\ ~SemWaits(c)
  BY CallerIsReady DEF DInv, SInv
<1>4. call[c].pc = "none" /\ \A e \in Dev : ~Holds(c, e)
  BY <1>3 DEF Idle, Holds
<1>5. /\ DOMAIN call' = Task
      /\ {"pc", "dd", "op"} \subseteq DOMAIN call'[c]
      /\ call'[c].pc = "locked" /\ call'[c].dd = d /\ call'[c].op = op
      /\ \A t \in Task \ {c} : call'[t] = call[t]
  BY <1>3 DEF Enters, DInv, Shape
<1>6. Shape'
  BY <1>1, <1>5 DEF DInv, Shape
<1>7. CallInv'
  BY <1>1, <1>5 DEF DInv, CallInv, IsOpen
<1>8. /\ semcb[s].semcnt \in 0 .. 1
      /\ \A e \in Dev \ {d} : IsOpen(e) => ll_devcb[e].semid \in Sem /\ ll_devcb[e].semid # s
  <2>1. semcb[s].semcnt \in Nat /\ semcb[s].semcnt <= 1
    BY <1>1 DEF DInv, SInv, SemInv, SemTypeOK
  <2>2. \A e \in Dev \ {d} : IsOpen(e) => ll_devcb[e].semid \in Sem /\ ll_devcb[e].semid # s
    BY <1>1 DEF DInv, OpenInv
  <2> QED
    BY <2>1, <2>2
\* A device other than d is held as before, and open as before.
<1>9. \A t \in Task \ {c}, e \in Dev : call'[t] = call[t] /\ state'[t] = state[t] /\ waifct'[t] = waifct[t] =>
        (Holds(t, e)' <=> Holds(t, e))
  BY <1>5 DEF Holds
<1> HIDE DEF s
<1>10. CASE /\ semcb[s].semcnt >= 1
            /\ semcb' = [semcb EXCEPT ![s].semcnt = @ - 1]
            /\ UNCHANGED << state, waifct, waitim, waiobj, waisem >>
  <2>1. /\ semcb[s].semcnt # 0 /\ semcb'[s].semcnt = 0
        /\ \A r \in Sem : semcb'[r].state = semcb[r].state /\ semcb'[r].maxsem = semcb[r].maxsem
        /\ \A r \in Sem : r # s => semcb'[r] = semcb[r]
    BY <1>1, <1>8, <1>10 DEF DInv, SInv, SemInv, SemTypeOK
  <2>2. OpenInv'
    BY <1>1, <2>1 DEF DInv, OpenInv, IsOpen
  <2>3. WaitInv'
    BY <1>1, <1>3, <1>5, <1>10 DEF DInv, WaitInv, SemWaits
  <2>4. \A t \in Task \ {c}, e \in Dev : Holds(t, e)' <=> Holds(t, e)
    BY <1>5, <1>9, <1>10
  <2>5. \A e \in Dev : Holds(c, e)' <=> e = d
    BY <1>3, <1>5, <1>10 DEF Holds
  <2>6. \A t \in Task : ~Holds(t, d)
    BY <1>1, <2>1 DEF DInv, HoldInv, s
  <2>7. HoldInv'
    <3> SUFFICES ASSUME NEW e \in Dev, IsOpen(e)'
                 PROVE  /\ \A t, u \in Task : Holds(t, e)' /\ Holds(u, e)' => t = u
                        /\ semcb'[ll_devcb'[e].semid].semcnt = 0 <=> \E t \in Task : Holds(t, e)'
      BY DEF HoldInv
    <3>1. CASE e = d
      BY <1>1, <1>3, <2>1, <2>4, <2>5, <2>6, <3>1 DEF s
    <3>2. CASE e # d
      <4>1. IsOpen(e) /\ ll_devcb'[e] = ll_devcb[e] /\ semcb'[ll_devcb[e].semid] = semcb[ll_devcb[e].semid]
        BY <1>1, <1>8, <2>1, <3>2 DEF IsOpen
      <4>2. \A t \in Task : Holds(t, e)' <=> Holds(t, e)
        BY <1>4, <2>4, <2>5, <3>2
      <4> QED
        BY <4>1, <4>2 DEF DInv, HoldInv
    <3> QED
      BY <3>1, <3>2
  <2> QED
    BY <1>2, <1>6, <1>7, <2>2, <2>3, <2>7 DEF DInv
<1>11. CASE /\ semcb[s].semcnt < 1
            /\ enter_wait("TWFCT_SEM", WaitTim(TMO_FEVR))
            /\ waiobj' = [waiobj EXCEPT ![c] = s]
            /\ waisem' = [waisem EXCEPT ![c] = 1]
            /\ semcb' = semcb
  <2>1. /\ state'[c] = "TS_WAIT" /\ waifct'[c] = "TWFCT_SEM"
        /\ waitim'[c] = UW(TMO_FEVR) /\ waiobj'[c] = s /\ waisem'[c] = 1
        /\ \A t \in Task \ {c} :
             /\ state'[t] = state[t] /\ waifct'[t] = waifct[t] /\ waitim'[t] = waitim[t]
             /\ waiobj'[t] = waiobj[t] /\ waisem'[t] = waisem[t]
    BY <1>3, <1>11 DEF enter_wait, WaitTim, DInv, SInv, Inv, TypeOK, SemInv, SemTypeOK
  <2>2. OpenInv'
    BY <1>1, <1>11 DEF DInv, OpenInv, IsOpen
  <2>3. WaitInv'
    BY <1>1, <1>5, <2>1 DEF DInv, WaitInv, SemWaits, s
  <2>4. \A t \in Task, e \in Dev : Holds(t, e)' <=> Holds(t, e)
    <3>1. \A e \in Dev : ~Holds(c, e)'
      BY <2>1 DEF Holds
    <3> QED
      BY <1>4, <1>5, <1>9, <2>1, <3>1
  <2>5. HoldInv'
    BY <1>1, <1>11, <2>4 DEF DInv, HoldInv, IsOpen
  <2> QED
    BY <1>2, <1>6, <1>7, <2>2, <2>3, <2>5 DEF DInv
<1> QED
  BY <1>1, <1>3, <1>10, <1>11 DEF tk_wai_sem

LEMMA ReadsAndWritesInv == DInv /\ (TaskReads \/ TaskWrites) => DInv' /\ TaskWaits
<1>1. ASSUME DInv, TaskReads PROVE DInv' /\ TaskWaits
  BY <1>1, EntersInv DEF TaskReads, tk_srea_dev
<1>2. ASSUME DInv, TaskWrites PROVE DInv' /\ TaskWaits
  <2>1. PICK d \in Dev, start \in Start, size \in Size : tk_swri_dev(d, start, size)
    BY <1>2 DEF TaskWrites
  <2>2. d # "adca"
    BY <1>2, <2>1 DEF tk_swri_dev, DInv, CallInv
  <2> QED
    BY <1>2, <2>1, <2>2, EntersInv DEF TaskWrites, tk_swri_dev
<1> QED
  BY <1>1, <1>2

LEMMA UnlockInv == DInv /\ Unlock => DInv' /\ TaskSignals
<1> SUFFICES ASSUME DInv, Unlock PROVE DInv' /\ TaskSignals
  OBVIOUS
<1> InTask
  BY DEF Unlock, At
<1>0. PICK c \in Task : c = cur_task /\ state[c] = "TS_READY" /\ ~SemWaits(c)
  BY CallerIsReady DEF DInv, SInv
<1>00. PICK d : d = Dd
  OBVIOUS
<1> DEFINE s == ll_devcb[d].semid
<1>1. /\ InTask /\ call[c].pc = "unlock" /\ tk_sig_sem(s, 1, c)
      /\ UNCHANGED << dispatcher, timer, dev_tbl, ll_devcb >>
      /\ call' = [call EXCEPT ![c] = NoCall]
  BY <1>0, <1>00 DEF Unlock, At, Cb
<1>2. c \in Task /\ state[c] = "TS_READY" /\ ~SemWaits(c)
  BY <1>0
<1>3. d \in Dev /\ IsOpen(d) /\ s \in Sem /\ call[c].dd = d
  BY <1>0, <1>00, <1>1 DEF DInv, CallInv, OpenInv, Dd
<1>4. TaskSignals
  BY <1>0, <1>1, <1>3, DeviceAssumption DEF TaskSignals
<1>5. SInv'
  BY <1>4, SemNextInv DEF DInv, SemNext
<1>6. Holds(c, d)
  BY <1>1, <1>2, <1>3 DEF Holds
<1>7. semcb[s].semcnt = 0 /\ \A t \in Task : Holds(t, d) => t = c
  BY <1>2, <1>3, <1>6 DEF DInv, HoldInv
<1>8. /\ DOMAIN call' = Task /\ {"pc", "dd", "op"} \subseteq DOMAIN call'[c] /\ call'[c].pc = "none"
      /\ \A t \in Task \ {c} : call'[t] = call[t]
  BY <1>1, <1>2 DEF NoCall, DInv, Shape
<1>9. Shape' /\ CallInv'
  BY <1>1, <1>8 DEF DInv, Shape, CallInv, IsOpen
<1>10. \A e \in Dev \ {d} : IsOpen(e) => ll_devcb[e].semid \in Sem /\ ll_devcb[e].semid # s
  BY <1>3 DEF DInv, OpenInv
<1> HIDE DEF s
\* Whether or not a waiter is served, the locks stay as they are ...
<1>11. ASSUME NEW left, semcb' = [semcb EXCEPT ![s].semcnt = left]
       PROVE  /\ semcb'[s].semcnt = left /\ OpenInv'
              /\ \A r \in Sem \ {s} : semcb'[r] = semcb[r]
  <2>1. /\ semcb'[s].semcnt = left
        /\ \A r \in Sem : semcb'[r].state = semcb[r].state /\ semcb'[r].maxsem = semcb[r].maxsem
        /\ \A r \in Sem \ {s} : semcb'[r] = semcb[r]
    BY <1>3, <1>11 DEF DInv, SInv, SemInv, SemTypeOK
  <2> QED
    BY <1>1, <2>1 DEF DInv, OpenInv, IsOpen
\* ... and the other devices are held as before.
<1>12. ASSUME \A r \in Sem \ {s} : semcb'[r] = semcb[r],
              \A t \in Task, e \in Dev : e # d => (Holds(t, e)' <=> Holds(t, e)),
              \A t, u \in Task : Holds(t, d)' /\ Holds(u, d)' => t = u,
              semcb'[s].semcnt = 0 <=> \E t \in Task : Holds(t, d)'
       PROVE  HoldInv'
  <2> SUFFICES ASSUME NEW e \in Dev, IsOpen(e)'
               PROVE  /\ \A t, u \in Task : Holds(t, e)' /\ Holds(u, e)' => t = u
                      /\ semcb'[ll_devcb'[e].semid].semcnt = 0 <=> \E t \in Task : Holds(t, e)'
    BY DEF HoldInv
  <2>1. CASE e = d
    BY <1>1, <1>12, <2>1 DEF s
  <2>2. CASE e # d
    <3>1. IsOpen(e) /\ ll_devcb'[e] = ll_devcb[e] /\ semcb'[ll_devcb[e].semid] = semcb[ll_devcb[e].semid]
      BY <1>1, <1>10, <1>12, <2>2 DEF IsOpen
    <3> QED
      BY <1>12, <2>2, <3>1 DEF DInv, HoldInv
  <2> QED
    BY <2>1, <2>2
<1>13. ASSUME NEW t \in Task, Served(t, s, semcb[s].semcnt + 1, c) PROVE DInv'
  <2>1. SemWaits(t) /\ waiobj[t] = s /\ waisem[t] = 1 /\ call[t].pc = "locked"
    BY <1>13 DEF Served, FirstWaiter, WaitsFor, SemWaits, DInv, WaitInv
  <2>2. call[t].dd = d /\ t # c
    BY <1>2, <1>10, <2>1 DEF DInv, WaitInv, CallInv
  <2>3. semcb' = [semcb EXCEPT ![s].semcnt = 0]
    BY <1>7, <1>13, <2>1 DEF Served, Rest
  <2>4. /\ state'[t] = "TS_READY"
        /\ \A u \in Task \ {t} : state'[u] = state[u] /\ waifct'[u] = waifct[u]
        /\ waitim' = waitim
    BY <1>13 DEF Served, release, DInv, SInv, Inv, TypeOK
  <2>5. UNCHANGED << waiobj, waisem >>
    BY <1>1 DEF tk_sig_sem
  <2>6. WaitInv'
    BY <1>1, <1>2, <1>8, <2>4, <2>5 DEF DInv, WaitInv, SemWaits
  <2>7. \A u \in Task \ {t, c}, e \in Dev : Holds(u, e)' <=> Holds(u, e)
    BY <1>8, <2>4 DEF Holds
  <2>8. \A e \in Dev :
         /\ Holds(t, e)' <=> e = d
         /\ ~Holds(t, e) /\ ~Holds(c, e)'
         /\ Holds(c, e) <=> e = d
    BY <1>3, <1>6, <1>8, <2>1, <2>2, <2>4 DEF Holds, SemWaits
  <2>9. HoldInv'
    <3>1. \A u \in Task, e \in Dev : e # d => (Holds(u, e)' <=> Holds(u, e))
      <4> SUFFICES ASSUME NEW u \in Task, NEW e \in Dev, e # d PROVE Holds(u, e)' <=> Holds(u, e)
        OBVIOUS
      <4>1. CASE u \in {t, c}
        BY <2>8, <4>1 DEF Holds
      <4>2. CASE u \in Task \ {t, c}
        BY <2>7, <4>2
      <4> QED
        BY <4>1, <4>2
    <3>2. \A u \in Task : Holds(u, d)' => u = t
      <4> SUFFICES ASSUME NEW u \in Task, Holds(u, d)', u # t PROVE FALSE
        OBVIOUS
      <4>1. u # c
        BY <1>3, <2>8
      <4>2. Holds(u, d)
        BY <1>3, <2>7, <4>1
      <4> QED
        BY <1>7, <4>1, <4>2
    <3>3. semcb'[s].semcnt = 0 <=> \E u \in Task : Holds(u, d)'
      BY <1>3, <1>11, <2>3, <2>8
    <3>4. \A r \in Sem \ {s} : semcb'[r] = semcb[r]
      BY <1>11, <2>3
    <3> QED
      BY <1>12, <3>1, <3>2, <3>3, <3>4
  <2> QED
    BY <1>5, <1>9, <1>11, <2>3, <2>6, <2>9 DEF DInv
<1>14. CASE /\ semcb' = [semcb EXCEPT ![s].semcnt = semcb[s].semcnt + 1]
            /\ UNCHANGED << tcb, queues, sche_task, pend_sv >>
  <2>1. UNCHANGED << state, waifct, waitim, waiobj, waisem >>
    BY <1>1, <1>14 DEF tk_sig_sem, tcb
  <2>2. WaitInv'
    BY <1>1, <1>2, <1>8, <2>1 DEF DInv, WaitInv, SemWaits
  <2>3. \A t \in Task \ {c}, e \in Dev : Holds(t, e)' <=> Holds(t, e)
    BY <1>8, <2>1 DEF Holds
  <2>4. \A e \in Dev : ~Holds(c, e)' /\ (Holds(c, e) <=> e = d)
    BY <1>3, <1>6, <1>8 DEF Holds
  <2>5. semcb'[s].semcnt = 1 /\ \A r \in Sem \ {s} : semcb'[r] = semcb[r]
    <3>1. semcb' = [semcb EXCEPT ![s].semcnt = 1]
      BY <1>7, <1>14
    <3> QED
      BY <1>11, <3>1
  <2>6. HoldInv'
    <3>1. \A u \in Task, e \in Dev : e # d => (Holds(u, e)' <=> Holds(u, e))
      BY <2>3, <2>4
    <3>2. \A u \in Task : ~Holds(u, d)'
      <4> SUFFICES ASSUME NEW u \in Task, Holds(u, d)' PROVE FALSE
        OBVIOUS
      <4>1. u # c
        BY <1>3, <2>4
      <4>2. Holds(u, d)
        BY <1>3, <2>3, <4>1
      <4> QED
        BY <1>7, <4>1, <4>2
    <3> QED
      BY <1>12, <2>5, <3>1, <3>2
  <2> QED
    <3>1. semcb' = [semcb EXCEPT ![s].semcnt = 1]
      BY <1>7, <1>14
    <3>2. OpenInv'
      BY <1>11, <3>1
    <3> QED
      BY <1>4, <1>5, <1>9, <2>2, <2>6, <3>2 DEF DInv
<1> QED
  BY <1>1, <1>4, <1>13, <1>14 DEF tk_sig_sem, Serve, Served

-----------------------------------------------------------------------------
(***************************************************************************)
(* All steps.                                                              *)
(***************************************************************************)

\* What a step is to the semaphores.
SemStep == SemNext \/ UNCHANGED allvars

LEMMA DevNextInv == DInv /\ [DevNext]_alldevvars => DInv' /\ SemStep
<1> SUFFICES ASSUME DInv, [DevNext]_alldevvars PROVE DInv' /\ SemStep
  OBVIOUS
<1>1. CASE DevKernelStep
  BY <1>1, DevKernelInv DEF SemStep, SemNext, DevKernelStep, OtherCall, KernelStep, Next, TaskStep
<1>2. CASE TaskOpens
  BY <1>2, OpensInv DEF SemStep, SemNext
<1>3. CASE TaskReads \/ TaskWrites
  BY <1>3, ReadsAndWritesInv DEF SemStep, SemNext
<1>4. CASE set_com_start \/ TransStep \/ AdcStart \/ AdcRead
  <2>1. Within
    BY <1>4, DriverWithin
  <2>2. DInv'
    BY <2>1, WithinInv
  <2> QED
    BY <2>1, <2>2 DEF Within, NoApi, SemStep, allvars
<1>5. CASE Unlock
  BY <1>5, UnlockInv DEF SemStep, SemNext
<1>6. CASE UNCHANGED << vars, semvars, devvars >>
  <2>1. SInv'
    BY <1>6, SemNextInv DEF DInv, allvars
  <2>2. UNCHANGED << state, waifct, waitim, semcb, waiobj, waisem, dev_tbl, ll_devcb, call >>
    BY <1>6 DEF vars, tcb, semvars, devvars
  <2>3. Shape' /\ OpenInv' /\ CallInv' /\ WaitInv'
    BY <2>2 DEF DInv, Shape, OpenInv, CallInv, WaitInv, SemWaits, IsOpen
  <2>4. \A t, d : Holds(t, d)' <=> Holds(t, d)
    BY <2>2 DEF Holds
  <2>5. HoldInv'
    BY <2>2, <2>4 DEF DInv, HoldInv, IsOpen
  <2> QED
    BY <1>6, <2>1, <2>3, <2>5 DEF DInv, SemStep, allvars
<1> QED
  BY <1>1, <1>2, <1>3, <1>4, <1>5, <1>6 DEF DevNext, DriverStep, Hardware, alldevvars

LEMMA DevInitInv == DevInit => DInv
<1> SUFFICES ASSUME DevInit PROVE DInv
  OBVIOUS
<1>1. SInv
  BY SemInitInv DEF DevInit
<1>2. Shape
  BY DEF DevInit, Shape, NoCall
<1>3. \A d \in Dev : ~IsOpen(d)
  BY DEF DevInit, IsOpen
<1>4. CallInv
  BY DEF DevInit, CallInv, NoCall, Dev
<1>5. WaitInv
  <2>1. \A t \in Task : state[t] # "TS_WAIT"
    BY DEF DevInit, SemInit, Init
  <2> QED
    BY <2>1 DEF WaitInv, SemWaits
<1> QED
  BY <1>1, <1>2, <1>3, <1>4, <1>5 DEF DInv, OpenInv, HoldInv

\* The invariant of the devices over the semaphores and the kernel
\* (device.c:17-70, i2c_rp2040.c:67-242, adc_rp2040.c:48-98).
THEOREM DevInvariance == DevSpec => []DInv
<1>1. DInv /\ [DevNext]_alldevvars => DInv'
  BY DevNextInv
<1> QED
  BY <1>1, DevInitInv, PTL DEF DevSpec

-----------------------------------------------------------------------------
(***************************************************************************)
(* The theorems.                                                           *)
(***************************************************************************)

\* Tasks that use devices are tasks that use semaphores, so that what is proved
\* of Semaphore holds for them: the drivers call the kernel as any task does
\* (i2c_rp2040.c:77, 206, 213, adc_rp2040.c:59, 83, 96).
THEOREM DevicesUseSemaphores == DevSpec => SemSpec
<1>1. DInv /\ [DevNext]_alldevvars => [SemNext]_allvars
  BY DevNextInv DEF SemStep
<1>2. DevInit => SemInit
  BY DEF DevInit
<1> QED
  BY <1>1, <1>2, DevInvariance, PTL DEF DevSpec, SemSpec, allvars

\* One transfer at a time on a unit, and a lock that is taken has a holder who
\* will return it (i2c_rp2040.c:206-213, 227-240, adc_rp2040.c:83-96).
THEOREM TransfersAreApart == DevSpec => []OneTransferPerUnit
<1>1. DInv => OneTransferPerUnit
  <2> SUFFICES ASSUME DInv, NEW d \in Dev
               PROVE  IF dev_tbl[d].opncnt = 0 THEN \A t \in Task : ~Holds(t, d)
                      ELSE /\ \A t, u \in Task : Holds(t, d) /\ Holds(u, d) => t = u
                           /\ semcb[ll_devcb[d].semid].semcnt = 0 <=> \E t \in Task : Holds(t, d)
    BY DEF OneTransferPerUnit
  <2>1. CASE dev_tbl[d].opncnt = 0
    BY <2>1 DEF DInv, CallInv, IsOpen, Holds
  <2>2. CASE dev_tbl[d].opncnt # 0
    BY <2>2 DEF DInv, HoldInv, IsOpen
  <2> QED
    BY <2>1, <2>2
<1> QED
  BY <1>1, DevInvariance, PTL

\* Each open device has a lock of its own (i2c_rp2040.c:76-83,
\* adc_rp2040.c:58-65).
THEOREM LocksAreOwn == DevSpec => []LocksAreDistinct
<1>1. DInv => LocksAreDistinct
  <2> SUFFICES ASSUME DInv, NEW d \in Dev, NEW e \in Dev, dev_tbl[d].opncnt > 0
               PROVE  /\ ll_devcb[d].semid \in Sem /\ Exists(ll_devcb[d].semid)
                      /\ dev_tbl[e].opncnt > 0 /\ ll_devcb[d].semid = ll_devcb[e].semid => d = e
    BY DEF LocksAreDistinct
  <2>1. IsOpen(d) /\ (dev_tbl[e].opncnt > 0 => IsOpen(e))
    BY DEF DInv, Shape, IsOpen
  <2> QED
    BY <2>1 DEF DInv, OpenInv, Exists
<1> QED
  BY <1>1, DevInvariance, PTL

\* The missing write function of the ADC is never called (device_tbl.c:13,
\* adc_rp2040.c:56).
THEOREM AdcIsOnlyRead == DevSpec => []NoWriteToAdc
<1>1. DInv => NoWriteToAdc
  BY DEF DInv, CallInv, NoWriteToAdc
<1> QED
  BY <1>1, DevInvariance, PTL

\* Nobody waits for a lock that is free (semaphore.c:49, 88, with the drivers'
\* calls, all for one unit).
THEOREM NoLockIdles == DevSpec => []NoIdleUnits
<1>1. UnitCalls
  BY DeviceAssumption DEF UnitCalls
<1> QED
  BY <1>1, NoUnitIdles, DevicesUseSemaphores, PTL

-----------------------------------------------------------------------------
(***************************************************************************)
(* What a call has done so far.  c is the record of a call of t, cb the    *)
(* control block and u the hardware of its device, b its buffer, r its     *)
(* result.                                                                 *)
(***************************************************************************)
Transferring == {"start", "loop", "send", "recv"}
Busy == {"loop", "send", "recv", "convert"}

\* The bytes a call has to send and to receive, and how many of them it has
\* given to the controller and stored.
ToSend(c) == IF c.op = "read" THEN 0 ELSE c.size
ToRecv(c) == IF c.op = "write" THEN 0 ELSE c.size
Given(c, cb) == ToSend(c) - cb.sdat_num
Stored(c, cb) == ToRecv(c) - cb.rdat_num - IF c.pc = "recv" THEN 1 ELSE 0

\* The first n bytes of t's buffer.
Bytes(t, n) == [i \in 1 .. n |-> << t, i >>]

Asked(c, b, r) ==
  /\ r # NULL <=> c.pc = "unlock"
  /\ c.pc # "none" =>
       /\ c.op \in {"read", "write", "exec"} /\ c.dd \in Dev
       /\ c.start \in Start /\ c.size \in Size \cup {1}
       /\ c.op = "exec" => c.size = 1
       /\ c.dd = "adca" => c.op = "read" /\ c.size = 1
       /\ Len(b) = c.size
  /\ c.pc = "locked" => c.err = "E_OK"
  /\ c.pc \in Transferring => c.dd \in I2C
  /\ c.pc = "convert" => c.dd = "adca"

\* The control block counts what is left, and points at the next bytes.
Counts(t, c, cb) ==
  /\ cb.sadr = c.start
  /\ Given(c, cb) >= 0 /\ Stored(c, cb) >= 0
  /\ c.op # "read" => cb.sbuf = << t, Given(c, cb) + 1 >>
  /\ c.op # "write" => cb.rbuf = << t, Stored(c, cb) + 1 >>
  /\ c.pc = "recv" \/ Stored(c, cb) > 0 => cb.sdat_num = 0
  /\ c.pc = "send" => Stored(c, cb) = 0

Fresh(c, cb) == c.err = "E_OK" /\ Given(c, cb) = 0 /\ Stored(c, cb) = 0

\* What is stored came from the call's slave, and the call will not end before
\* all of it is there, unless with an error.
Outcome(c, cb, u, b) ==
  /\ c.err = "E_PAR" <=> c.size = 0
  /\ c.err = "E_IO" => c.state = "I2C_STS_STOP" /\ c.pc = "loop" /\ c.op # "write"
  /\ c.err # "E_IO" =>
       /\ c.state = NextState(cb)
       /\ \A i \in 1 .. Stored(c, cb) : b[i] = c.start
       /\ c.pc = "loop" /\ Stored(c, cb) > 0 => ~u.abort

\* The controller works for this call, and what it has put on the line is the
\* beginning of what the call gave it, all of it if nothing was refused.
Wire(t, c, cb, u) ==
  /\ u.target = c.start
  /\ u.cmd # NULL =>
       \/ c.pc = "send" /\ u.cmd = [op |-> "WRITE", byte |-> << t, Given(c, cb) >>]
       \/ c.pc = "recv" /\ u.cmd = [op |-> "READ", byte |-> c.start]
       \/ c.pc = "loop" /\ c.err = "E_IO" /\ u.abort
  /\ u.rx = IF c.pc = "recv" /\ ~u.abort /\ u.cmd = NULL THEN << c.start >> ELSE << >>
  /\ \E k \in 0 .. Given(c, cb) :
       /\ u.line = Bytes(t, k)
       /\ ~u.abort => k = Given(c, cb) - IF c.pc = "send" /\ u.cmd # NULL THEN 1 ELSE 0

Transfer(t, c, cb, u, b) ==
  /\ Counts(t, c, cb)
  /\ c.pc = "start" => Fresh(c, cb)
  /\ c.pc # "start" => Outcome(c, cb, u, b) /\ Wire(t, c, cb, u)

\* The ADC converts the channel of the call.
Conversion(c, u) ==
  /\ u.cmd # NULL => u.cmd = [op |-> "READ", byte |-> c.start]
  /\ u.rx = IF u.cmd = NULL THEN << c.start >> ELSE << >>

Sound(t, c, cb, u, b, r) ==
  /\ Asked(c, b, r)
  /\ c.pc \in Transferring => Transfer(t, c, cb, u, b)
  /\ c.pc = "convert" => Conversion(c, u)

Quiet(u) == u.cmd = NULL /\ u.rx = << >>

\* All calls are sound, and hardware nobody uses holds nothing.
CallsSound ==
  \A t \in Task : Sound(t, call[t], ll_devcb[call[t].dd], unit[call[t].dd], buf[t], result[t])
UnitsQuiet ==
  \A d \in Dev : (\A t \in Task : call[t].dd = d => call[t].pc \notin Busy) => Quiet(unit[d])

DataInv == DevTypeOK /\ CallsSound /\ UnitsQuiet

-----------------------------------------------------------------------------
(***************************************************************************)
(* Each step of a driver and of the hardware keeps a call sound.           *)
(***************************************************************************)

\* The next byte of t's buffer behind the first n.
LEMMA NextByte ==
  ASSUME NEW t \in Task, NEW n \in Nat
  PROVE  /\ Bytes(t, n) \in Seq(Place) /\ Len(Bytes(t, n)) = n
         /\ Append(Bytes(t, n), << t, n + 1 >>) = Bytes(t, n + 1)
<1> DEFINE s == Bytes(t, n)
           a == Append(s, << t, n + 1 >>)
           b == Bytes(t, n + 1)
<1>1. /\ s \in Seq(Place) /\ Len(s) = n /\ \A i \in 1 .. n : s[i] = << t, i >>
      /\ b \in Seq(Place) /\ Len(b) = n + 1 /\ \A i \in 1 .. n + 1 : b[i] = << t, i >>
  BY DEF Bytes, Place
<1>2. << t, n + 1 >> \in Place
  BY DEF Place
<1> HIDE DEF s, b
<1>3. /\ a \in Seq(Place) /\ Len(a) = n + 1
      /\ \A i \in 1 .. n : a[i] = s[i]
      /\ a[n + 1] = << t, n + 1 >>
  BY <1>1, <1>2, AppendIs
<1> HIDE DEF a
<1>4. ASSUME NEW i \in 1 .. n + 1 PROVE a[i] = b[i]
  <2>1. CASE i \in 1 .. n
    BY <1>1, <1>3, <2>1
  <2>2. CASE i = n + 1
    BY <1>1, <1>3, <2>2
  <2> QED
    BY <2>1, <2>2
<1>5. a = b
  BY <1>1, <1>3, <1>4
<1> QED
  BY <1>1, <1>5 DEF a, b, s

LEMMA BeginSound ==
  ASSUME NEW t \in Task, NEW c \in Call, NEW cb \in Block, NEW u, NEW b, NEW r,
         Sound(t, c, cb, u, b, r), c.pc = "locked", c.dd \in I2C,
         NEW c2, c2 = [c EXCEPT !.pc = "start"],
         NEW cb2, cb2 = [semid |-> cb.semid, sadr |-> c.start,
            sdat_num |-> IF c.op = "read" THEN 0 ELSE c.size,
            rdat_num |-> IF c.op = "write" THEN 0 ELSE c.size,
            sbuf |-> IF c.op = "read" THEN NULL ELSE << t, 1 >>,
            rbuf |-> IF c.op = "write" THEN NULL ELSE << t, 1 >>]
  PROVE  c2 \in Call /\ cb2 \in Block /\ Sound(t, c2, cb2, u, b, r)
<1>1. /\ c2 \in Call /\ c2.pc = "start" /\ c2.op = c.op /\ c2.size = c.size /\ c2.start = c.start
      /\ c2.dd = c.dd /\ c2.err = c.err /\ c.size \in Nat
  BY DEF Call
<1>2. << t, 1 >> \in Place
  BY DEF Place
<1>3. cb2 \in Block
  BY <1>1, <1>2 DEF Block, Call
<1>4. Asked(c2, b, r) /\ c.err = "E_OK"
  BY <1>1 DEF Sound, Asked, Transferring
<1>5. Given(c2, cb2) = 0 /\ Stored(c2, cb2) = 0
  BY <1>1 DEF Given, Stored, ToSend, ToRecv
<1>6. Counts(t, c2, cb2)
  BY <1>1, <1>5 DEF Counts
<1> QED
  BY <1>1, <1>3, <1>4, <1>5, <1>6 DEF Sound, Transfer, Fresh, Transferring

LEMMA TransStartSound ==
  ASSUME NEW t \in Task, NEW c \in Call, NEW cb \in Block, NEW u, NEW b \in Buffer, NEW r,
         Sound(t, c, cb, u, b, r), c.pc = "start",
         NEW e, e = IF NextState(cb) = "I2C_STS_STOP" THEN "E_PAR" ELSE c.err,
         NEW c2, c2 = [c EXCEPT !.pc = "loop", !.state = NextState(cb), !.err = e],
         NEW u2, u2 = [target |-> cb.sadr, cmd |-> NULL, rx |-> << >>, abort |-> FALSE, line |-> << >>]
  PROVE  c2 \in Call /\ u2 \in Unit /\ Sound(t, c2, cb, u2, b, r)
<1>1. /\ Asked(c, b, r) /\ Counts(t, c, cb) /\ Fresh(c, cb)
  BY DEF Sound, Transfer, Transferring
<1>2. /\ c2 \in Call /\ c2.pc = "loop" /\ c2.op = c.op /\ c2.size = c.size /\ c2.start = c.start
      /\ c2.dd = c.dd /\ c2.state = NextState(cb)
      /\ c2.err = IF NextState(cb) = "I2C_STS_STOP" THEN "E_PAR" ELSE c.err
  BY <1>1 DEF Call, NextState, Fresh, Error
<1>3. u2 \in Unit
  BY DEF Unit, Block
<1>4. Given(c2, cb) = 0 /\ Stored(c2, cb) = 0 /\ c.size \in Nat
  BY <1>1, <1>2 DEF Given, Stored, ToSend, ToRecv, Fresh, Call
<1>5. Asked(c2, b, r)
  BY <1>1, <1>2 DEF Asked, Transferring
<1>6. Counts(t, c2, cb)
  BY <1>1, <1>2, <1>4 DEF Counts, Fresh
<1>7. NextState(cb) = "I2C_STS_STOP" <=> c.size = 0
  <2>1. cb.sdat_num \in Nat /\ cb.rdat_num \in Nat /\ c.op \in {"read", "write", "exec"}
    BY <1>1 DEF Block, Asked
  <2>2. cb.sdat_num = ToSend(c) /\ cb.rdat_num = ToRecv(c)
    BY <1>1, <1>4, <2>1 DEF Fresh, Given, Stored, ToSend, ToRecv
  <2> QED
    BY <1>4, <2>1, <2>2 DEF NextState, ToSend, ToRecv
<1>8. Outcome(c2, cb, u2, b)
  BY <1>1, <1>2, <1>4, <1>7 DEF Outcome, Fresh
<1>9. << >> = Bytes(t, 0)
  BY NextByte
<1>10. Wire(t, c2, cb, u2)
  BY <1>1, <1>2, <1>4, <1>9 DEF Wire, Counts
<1> QED
  BY <1>2, <1>3, <1>5, <1>6, <1>8, <1>10 DEF Sound, Transfer, Transferring

LEMMA SendSound ==
  ASSUME NEW t \in Task, NEW c \in Call, NEW cb \in Block, NEW u \in Unit, NEW b \in Buffer, NEW r,
         Sound(t, c, cb, u, b, r), c.pc = "loop", c.state = "I2C_STS_SEND",
         NEW cb2, cb2 = [cb EXCEPT !.sdat_num = @ - 1, !.sbuf[2] = @ + 1],
         NEW c2, c2 = [c EXCEPT !.pc = "send", !.state = NextState(cb2)],
         NEW u2, u2 = [u EXCEPT !.cmd = [op |-> "WRITE", byte |-> cb.sbuf]]
  PROVE  c2 \in Call /\ cb2 \in Block /\ u2 \in Unit /\ Sound(t, c2, cb2, u2, b, r)
<1>1. /\ Asked(c, b, r) /\ Counts(t, c, cb) /\ Outcome(c, cb, u, b) /\ Wire(t, c, cb, u)
  BY DEF Sound, Transfer, Transferring
<1>2. c.err # "E_IO" /\ cb.sdat_num > 0 /\ cb.sdat_num \in Nat /\ c.size \in Nat
  BY <1>1 DEF Outcome, NextState, Block, Call
<1>3. c.op # "read" /\ Given(c, cb) \in Nat
  BY <1>1, <1>2 DEF Counts, Given, ToSend
<1> DEFINE n == Given(c, cb)
<1>4. cb.sbuf = << t, n + 1 >> /\ << t, n + 1 >> \in Place /\ << t, n + 2 >> \in Place
  BY <1>1, <1>3 DEF Counts, Place
<1>5. /\ cb2 \in Block /\ cb2.sdat_num = cb.sdat_num - 1 /\ cb2.rdat_num = cb.rdat_num
      /\ cb2.sadr = cb.sadr /\ cb2.rbuf = cb.rbuf /\ cb2.sbuf = << t, n + 2 >>
  <2> HIDE DEF n
  <2>1. n \in Nat
    BY <1>3 DEF n
  <2>2. [cb.sbuf EXCEPT ![2] = @ + 1] = << t, n + 2 >>
    BY <1>4, <2>1
  <2>3. cb2 = [cb EXCEPT !.sdat_num = cb.sdat_num - 1, !.sbuf = [cb.sbuf EXCEPT ![2] = @ + 1]]
    BY DEF Block
  <2>4. cb2 = [cb EXCEPT !.sdat_num = cb.sdat_num - 1, !.sbuf = << t, n + 2 >>]
    BY <2>2, <2>3
  <2>5. << t, n + 2 >> \in Place \cup {NULL} /\ cb.sdat_num - 1 \in Nat
    BY <1>2, <1>4 DEF n
  <2> DEFINE p == << t, n + 2 >>
             k == cb.sdat_num - 1
  <2>6. p \in Place \cup {NULL} /\ k \in Nat /\ cb2 = [cb EXCEPT !.sdat_num = k, !.sbuf = p]
    BY <2>4, <2>5
  <2> HIDE DEF p, k
  <2>7. /\ cb2 \in Block /\ cb2.sdat_num = k /\ cb2.rdat_num = cb.rdat_num
        /\ cb2.sadr = cb.sadr /\ cb2.rbuf = cb.rbuf /\ cb2.sbuf = p
    BY <2>6 DEF Block
  <2> QED
    BY <2>7 DEF p, k
<1>6. /\ c2 \in Call /\ c2.pc = "send" /\ c2.op = c.op /\ c2.size = c.size /\ c2.start = c.start
      /\ c2.dd = c.dd /\ c2.state = NextState(cb2) /\ c2.err = c.err
  BY DEF Call, NextState
<1>7. /\ u2 \in Unit /\ u2.cmd = [op |-> "WRITE", byte |-> << t, n + 1 >>]
      /\ u2.target = u.target /\ u2.rx = u.rx /\ u2.abort = u.abort /\ u2.line = u.line
  BY <1>4 DEF Unit, Command
<1>8. Given(c2, cb2) = n + 1 /\ Stored(c2, cb2) = Stored(c, cb)
  BY <1>2, <1>5, <1>6 DEF Given, Stored, ToSend, ToRecv
<1>9. Stored(c, cb) = 0
  BY <1>1, <1>2 DEF Counts, Stored, ToRecv, Block
<1>10. Asked(c2, b, r)
  BY <1>1, <1>6 DEF Asked, Transferring
<1> HIDE DEF n
<1>11. n \in Nat
  BY <1>3 DEF n
<1>12. Counts(t, c2, cb2)
  BY <1>1, <1>5, <1>6, <1>8, <1>9, <1>11 DEF Counts
<1>13. Outcome(c2, cb2, u2, b)
  BY <1>1, <1>2, <1>6, <1>8, <1>9 DEF Outcome
<1>14. Wire(t, c2, cb2, u2)
  <2>1. u2.rx = << >> /\ u.cmd = NULL
    BY <1>1, <1>2, <1>7 DEF Wire
  <2>2. PICK k \in 0 .. n : u.line = Bytes(t, k) /\ (~u.abort => k = n)
    BY <1>1, <1>11, <2>1 DEF Wire, n
  <2>3. u2.cmd # NULL
    BY <1>4, <1>7, NullIsNoRecord DEF Command
  <2>4. k \in 0 .. n + 1 /\ (n + 1) - 1 = n
    BY <1>11, <2>2
  <2> QED
    BY <1>1, <1>6, <1>7, <1>8, <2>1, <2>2, <2>3, <2>4 DEF Wire
<1> QED
  BY <1>5, <1>6, <1>7, <1>10, <1>12, <1>13, <1>14 DEF Sound, Transfer, Transferring

LEMMA SentSound ==
  ASSUME NEW t \in Task, NEW c \in Call, NEW cb \in Block, NEW u \in Unit, NEW b \in Buffer, NEW r,
         Sound(t, c, cb, u, b, r), c.pc = "send", u.cmd = NULL,
         NEW c2, c2 = [c EXCEPT !.pc = "loop"]
  PROVE  c2 \in Call /\ Sound(t, c2, cb, u, b, r)
<1>1. /\ Asked(c, b, r) /\ Counts(t, c, cb) /\ Outcome(c, cb, u, b) /\ Wire(t, c, cb, u)
  BY DEF Sound, Transfer, Transferring
<1>2. /\ c2 \in Call /\ c2.pc = "loop" /\ c2.op = c.op /\ c2.size = c.size /\ c2.start = c.start
      /\ c2.dd = c.dd /\ c2.state = c.state /\ c2.err = c.err
  BY DEF Call
<1>3. Given(c2, cb) = Given(c, cb) /\ Stored(c2, cb) = Stored(c, cb)
  BY <1>2 DEF Given, Stored, ToSend, ToRecv
<1>4. Asked(c2, b, r) /\ Counts(t, c2, cb)
  BY <1>1, <1>2, <1>3 DEF Asked, Counts, Transferring
<1>5. c.err # "E_IO"
  BY <1>1 DEF Outcome
<1>6. ~(Stored(c, cb) > 0)
  BY <1>1 DEF Counts
<1>7. Outcome(c2, cb, u, b)
  BY <1>1, <1>2, <1>3, <1>5, <1>6 DEF Outcome
<1>8. Wire(t, c2, cb, u)
  BY <1>1, <1>2, <1>3 DEF Wire
<1> QED
  BY <1>2, <1>4, <1>7, <1>8 DEF Sound, Transfer, Transferring

LEMMA RecvSound ==
  ASSUME NEW t \in Task, NEW c \in Call, NEW cb \in Block, NEW u \in Unit, NEW b \in Buffer, NEW r,
         Sound(t, c, cb, u, b, r), c.pc = "loop", c.state = "I2C_STS_RECV",
         NEW cb2, cb2 = [cb EXCEPT !.rdat_num = @ - 1],
         NEW c2, c2 = [c EXCEPT !.pc = "recv", !.state = NextState(cb2)],
         NEW u2, u2 = [u EXCEPT !.cmd = [op |-> "READ", byte |-> u.target]]
  PROVE  c2 \in Call /\ cb2 \in Block /\ u2 \in Unit /\ Sound(t, c2, cb2, u2, b, r)
<1>1. /\ Asked(c, b, r) /\ Counts(t, c, cb) /\ Outcome(c, cb, u, b) /\ Wire(t, c, cb, u)
  BY DEF Sound, Transfer, Transferring
<1>2. /\ c.err # "E_IO" /\ cb.sdat_num = 0 /\ cb.rdat_num > 0
      /\ cb.sdat_num \in Nat /\ cb.rdat_num \in Nat /\ c.size \in Nat
      /\ u.target = c.start /\ c.start \in Start /\ u.cmd = NULL
  BY <1>1 DEF Outcome, NextState, Block, Call, Asked, Wire
<1>3. /\ cb2 \in Block /\ cb2.sdat_num = cb.sdat_num /\ cb2.rdat_num = cb.rdat_num - 1
      /\ cb2.sadr = cb.sadr /\ cb2.rbuf = cb.rbuf /\ cb2.sbuf = cb.sbuf
  <2>1. cb.rdat_num - 1 \in Nat
    BY <1>2
  <2> QED
    BY <2>1 DEF Block
<1>4. /\ c2 \in Call /\ c2.pc = "recv" /\ c2.op = c.op /\ c2.size = c.size /\ c2.start = c.start
      /\ c2.dd = c.dd /\ c2.state = NextState(cb2) /\ c2.err = c.err
  BY DEF Call, NextState
<1>5. /\ u2 \in Unit /\ u2.cmd = [op |-> "READ", byte |-> c.start]
      /\ u2.target = u.target /\ u2.rx = u.rx /\ u2.abort = u.abort /\ u2.line = u.line
  BY <1>2 DEF Unit, Command
<1>6. Given(c2, cb2) = Given(c, cb) /\ Stored(c2, cb2) = Stored(c, cb)
  BY <1>2, <1>3, <1>4 DEF Given, Stored, ToSend, ToRecv
<1>7. c.op # "write"
  BY <1>1, <1>2 DEF Counts, Stored, ToRecv
<1>8. Asked(c2, b, r)
  BY <1>1, <1>4 DEF Asked, Transferring
<1>9. Counts(t, c2, cb2)
  BY <1>1, <1>2, <1>3, <1>4, <1>6 DEF Counts
<1>10. Outcome(c2, cb2, u2, b)
  BY <1>1, <1>2, <1>4, <1>6 DEF Outcome
<1>11. u2.cmd # NULL
  BY <1>2, <1>5, NullIsNoRecord DEF Command
<1>12. Wire(t, c2, cb2, u2)
  BY <1>1, <1>2, <1>4, <1>5, <1>6, <1>11 DEF Wire
<1> QED
  BY <1>3, <1>4, <1>5, <1>8, <1>9, <1>10, <1>12 DEF Sound, Transfer, Transferring

\* The place a received byte is stored in is the next of the call's own buffer.
LEMMA StoresInOwn ==
  ASSUME NEW t \in Task, NEW c \in Call, NEW cb \in Block, NEW u \in Unit, NEW b \in Buffer, NEW r,
         Sound(t, c, cb, u, b, r), c.pc = "recv"
  PROVE  /\ Stored(c, cb) \in Nat /\ cb.rbuf = << t, Stored(c, cb) + 1 >>
         /\ Stored(c, cb) + 1 \in 1 .. Len(b)
<1>1. Asked(c, b, r) /\ Counts(t, c, cb)
  BY DEF Sound, Transfer, Transferring
<1>2. cb.rdat_num \in Nat /\ c.size \in Nat /\ Len(b) = c.size
  BY <1>1 DEF Block, Call, Asked
<1>3. c.op # "write"
  BY <1>1, <1>2 DEF Counts, Stored, ToRecv
<1>4. Stored(c, cb) = c.size - cb.rdat_num - 1 /\ Stored(c, cb) >= 0
  BY <1>1, <1>3 DEF Counts, Stored, ToRecv
<1> QED
  BY <1>1, <1>2, <1>3, <1>4 DEF Counts

\* The two ways to receive a byte.
Receives(c, u, byte, c2, u2) ==
  \/ /\ u.abort /\ byte = NULL
     /\ c2 = [c EXCEPT !.pc = "loop", !.err = "E_IO", !.state = "I2C_STS_STOP"]
     /\ u2 = u
  \/ /\ ~u.abort /\ u.rx # << >> /\ byte = Head(u.rx)
     /\ c2 = [c EXCEPT !.pc = "loop"]
     /\ u2 = [u EXCEPT !.rx = Tail(@)]

LEMMA ReceivedSound ==
  ASSUME NEW t \in Task, NEW c \in Call, NEW cb \in Block, NEW u \in Unit, NEW b \in Buffer, NEW r,
         Sound(t, c, cb, u, b, r), c.pc = "recv",
         NEW byte, NEW b2, b2 = [b EXCEPT ![cb.rbuf[2]] = byte],
         NEW cb2, cb2 = [cb EXCEPT !.rbuf[2] = @ + 1],
         NEW c2, NEW u2, Receives(c, u, byte, c2, u2)
  PROVE  c2 \in Call /\ cb2 \in Block /\ u2 \in Unit /\ b2 \in Buffer /\ Sound(t, c2, cb2, u2, b2, r)
<1> DEFINE n == Stored(c, cb)
<1>1. /\ Asked(c, b, r) /\ Counts(t, c, cb) /\ Outcome(c, cb, u, b) /\ Wire(t, c, cb, u)
  BY DEF Sound, Transfer, Transferring
<1>2. n \in Nat /\ cb.rbuf = << t, n + 1 >> /\ n + 1 \in 1 .. Len(b)
  BY StoresInOwn
<1>3. c.err # "E_IO" /\ c.op # "write"
  <2>1. c.err # "E_IO"
    BY <1>1 DEF Outcome
  <2>2. cb.rdat_num \in Nat
    BY DEF Block
  <2> QED
    BY <1>2, <2>1, <2>2 DEF Stored, ToRecv
<1>0. \/ /\ u.abort /\ byte = NULL
         /\ c2 = [c EXCEPT !.pc = "loop", !.err = "E_IO", !.state = "I2C_STS_STOP"]
         /\ u2 = u
      \/ /\ ~u.abort /\ u.rx # << >> /\ byte = Head(u.rx)
         /\ c2 = [c EXCEPT !.pc = "loop"]
         /\ u2 = [u EXCEPT !.rx = Tail(@)]
  BY DEF Receives
<1>4. /\ byte \in Start \cup {NULL}
      /\ u2 \in Unit /\ u2.cmd = u.cmd /\ u2.target = u.target /\ u2.rx = << >>
      /\ u2.abort = u.abort /\ u2.line = u.line
      /\ ~u.abort => byte = c.start /\ u.cmd = NULL
  <2>1. c.start \in Start
    BY <1>1 DEF Asked
  <2>2. CASE u.abort
    BY <1>0, <1>1, <2>2 DEF Wire
  <2>3. CASE ~u.abort
    <3>1. u.rx = << c.start >> /\ u.cmd = NULL
      BY <1>0, <1>1, <2>3 DEF Wire
    <3>2. Head(u.rx) = c.start /\ Tail(u.rx) = << >>
      BY <3>1
    <3>3. u2 = [u EXCEPT !.rx = << >>] /\ byte = c.start
      BY <1>0, <2>3, <3>2 DEF Unit
    <3>4. /\ u2 \in Unit /\ u2.cmd = u.cmd /\ u2.target = u.target /\ u2.rx = << >>
          /\ u2.abort = u.abort /\ u2.line = u.line
      <4> DEFINE none == << >>
      <4>1. none \in Seq(Start) /\ u2 = [u EXCEPT !.rx = none]
        BY <3>3
      <4> HIDE DEF none
      <4>2. /\ u2 \in Unit /\ u2.cmd = u.cmd /\ u2.target = u.target /\ u2.rx = none
            /\ u2.abort = u.abort /\ u2.line = u.line
        BY <4>1 DEF Unit
      <4> QED
        BY <4>2 DEF none
    <3> QED
      BY <2>1, <2>3, <3>1, <3>3, <3>4
  <2> QED
    BY <2>2, <2>3
<1>5. /\ c2 \in Call /\ c2.pc = "loop" /\ c2.op = c.op /\ c2.size = c.size /\ c2.start = c.start
      /\ c2.dd = c.dd
      /\ u.abort => c2.err = "E_IO" /\ c2.state = "I2C_STS_STOP"
      /\ ~u.abort => c2.err = c.err /\ c2.state = c.state
  <2>1. c \in Call /\ "E_IO" \in Error
    BY DEF Error
  <2> QED
    BY <1>0, <2>1 DEF Call
<1> HIDE DEF n
<1>6. /\ cb2 \in Block /\ cb2.sdat_num = cb.sdat_num /\ cb2.rdat_num = cb.rdat_num
      /\ cb2.sadr = cb.sadr /\ cb2.rbuf = << t, n + 2 >> /\ cb2.sbuf = cb.sbuf
  <2>1. [cb.rbuf EXCEPT ![2] = @ + 1] = << t, n + 2 >>
    BY <1>2
  <2>2. cb2 = [cb EXCEPT !.rbuf = [cb.rbuf EXCEPT ![2] = @ + 1]]
    BY DEF Block
  <2> DEFINE p == << t, n + 2 >>
  <2>3. p \in Place
    BY <1>2 DEF Place
  <2>4. p \in Place \cup {NULL} /\ cb2 = [cb EXCEPT !.rbuf = p]
    BY <2>1, <2>2, <2>3
  <2> HIDE DEF p
  <2>5. /\ cb2 \in Block /\ cb2.sdat_num = cb.sdat_num /\ cb2.rdat_num = cb.rdat_num
        /\ cb2.sadr = cb.sadr /\ cb2.rbuf = p /\ cb2.sbuf = cb.sbuf
    BY <2>4 DEF Block
  <2> QED
    BY <2>5 DEF p
<1>7. /\ b2 \in Buffer /\ Len(b2) = Len(b)
      /\ b2[n + 1] = byte /\ \A i \in 1 .. n : b2[i] = b[i]
  <2>1. b2 = [b EXCEPT ![n + 1] = byte]
    BY <1>2
  <2> QED
    BY <1>2, <1>4, <2>1 DEF Buffer
<1>8. Given(c2, cb2) = Given(c, cb) /\ Stored(c2, cb2) = n + 1
  BY <1>2, <1>3, <1>5, <1>6 DEF Given, Stored, ToSend, ToRecv, n, Call, Block
<1>9. cb.sdat_num = 0
  BY <1>1 DEF Counts
<1>10. Asked(c2, b2, r)
  BY <1>1, <1>5, <1>7 DEF Asked, Transferring
<1>11. Counts(t, c2, cb2)
  <2>1. (n + 1) + 1 = n + 2 /\ n + 1 >= 0
    BY <1>2
  <2> QED
    BY <1>1, <1>5, <1>6, <1>8, <1>9, <2>1 DEF Counts
<1>12. NextState(cb2) = NextState(cb)
  BY <1>6 DEF NextState
<1>13. Outcome(c2, cb2, u2, b2)
  <2>1. c.size # 0
    BY <1>1, <1>2 DEF Asked
  <2>2. CASE u.abort
    BY <1>3, <1>5, <2>1, <2>2 DEF Outcome
  <2>3. CASE ~u.abort
    <3>1. ASSUME NEW i \in 1 .. n + 1 PROVE b2[i] = c.start
      <4>1. CASE i \in 1 .. n
        BY <1>1, <1>3, <1>7, <4>1 DEF Outcome, n
      <4>2. CASE i = n + 1
        BY <1>4, <1>7, <2>3, <4>2
      <4> QED
        BY <1>2, <4>1, <4>2
    <3> QED
      BY <1>1, <1>3, <1>4, <1>5, <1>8, <1>12, <2>3, <3>1 DEF Outcome
  <2> QED
    BY <2>2, <2>3
<1>14. Wire(t, c2, cb2, u2)
  BY <1>1, <1>4, <1>5, <1>8 DEF Wire
<1> QED
  BY <1>4, <1>5, <1>6, <1>7, <1>10, <1>11, <1>13, <1>14 DEF Sound, Transfer, Transferring

\* At its end a transfer has an answer SerialDevice allows.
LEMMA EndSound ==
  ASSUME NEW t \in Task, NEW c \in Call, NEW cb \in Block, NEW u \in Unit, NEW b \in Buffer, NEW r,
         Sound(t, c, cb, u, b, r), c.pc = "loop", c.state = "I2C_STS_STOP",
         NEW c2, c2 = [c EXCEPT !.pc = "unlock"],
         NEW r2, r2 = [err |-> c.err, sent |-> u.line],
         NEW u2, u2 = [u EXCEPT !.cmd = NULL, !.rx = << >>, !.line = << >>]
  PROVE  /\ c2 \in Call /\ r2 \in Result /\ u2 \in Unit /\ Sound(t, c2, cb, u2, b, r2) /\ Quiet(u2)
         /\ SerialDevice!MayAnswer(t, [op |-> c.op, start |-> c.start, size |-> c.size],
                                   [err |-> c.err, sent |-> u.line, got |-> b])
<1>1. /\ Asked(c, b, r) /\ Counts(t, c, cb) /\ Outcome(c, cb, u, b) /\ Wire(t, c, cb, u)
  BY DEF Sound, Transfer, Transferring
<1>2. /\ c2 \in Call /\ c2.pc = "unlock" /\ c2.op = c.op /\ c2.size = c.size /\ c2.start = c.start
      /\ c2.dd = c.dd
  BY DEF Call
<1>3. r2 \in Result /\ r2 # NULL
  <2>1. r2 \in Result
    BY DEF Result, Call, Unit
  <2> QED
    BY <2>1, NullIsNoRecord
<1>4. u2 \in Unit /\ u2.cmd = NULL /\ u2.rx = << >>
  <2> DEFINE none == << >>
  <2>1. none \in Seq(Start) /\ none \in Seq(Place) /\ u2 = [u EXCEPT !.cmd = NULL, !.rx = none, !.line = none]
    OBVIOUS
  <2> HIDE DEF none
  <2>2. u2 \in Unit /\ u2.cmd = NULL /\ u2.rx = none
    BY <2>1 DEF Unit
  <2> QED
    BY <2>2 DEF none
<1>5. Asked(c2, b, r2)
  BY <1>1, <1>2, <1>3 DEF Asked, Transferring
<1>6. /\ c.size \in Nat /\ cb.sdat_num \in Nat /\ cb.rdat_num \in Nat
      /\ c.op \in {"read", "write", "exec"} /\ Len(b) = c.size
  BY <1>1 DEF Call, Block, Asked
<1>7. PICK k \in 0 .. Given(c, cb) : u.line = Bytes(t, k) /\ (~u.abort => k = Given(c, cb))
  BY <1>1, <1>6 DEF Wire, Given, ToSend
<1>8. k \in Nat /\ Given(c, cb) <= ToSend(c) /\ k <= c.size /\ (c.op = "read" => k = 0)
  BY <1>6, <1>7 DEF Given, ToSend
<1>9. c.op = "read" => u.line = << >>
  BY <1>7, <1>8, NextByte
<1>10. SerialDevice!IsPrefix(u.line, SerialDevice!Own(t, c.size))
  <2>1. SerialDevice!Own(t, c.size) = Bytes(t, c.size)
    BY DEF SerialDevice!Own, Bytes
  <2>2. /\ Len(Bytes(t, k)) = k /\ Len(Bytes(t, c.size)) = c.size
        /\ Bytes(t, k) \in Seq(Place) /\ Bytes(t, c.size) \in Seq(Place)
    BY <1>6, <1>8, NextByte
  <2>3. SubSeq(Bytes(t, k), 1, k) = SubSeq(Bytes(t, c.size), 1, k)
    <3> DEFINE p == SubSeq(Bytes(t, k), 1, k)
               q == SubSeq(Bytes(t, c.size), 1, k)
    <3>1. \A i \in 1 .. k : Bytes(t, k)[i] = Bytes(t, c.size)[i]
      BY <1>6, <1>8 DEF Bytes
    <3>2. p = [i \in 1 .. k |-> Bytes(t, k)[i]]
      BY <1>8, <2>2
    <3>3. q = [i \in 1 .. k |-> Bytes(t, c.size)[i]]
      BY <1>6, <1>8, <2>2
    <3> HIDE DEF p, q
    <3>4. p = q
      BY <3>1, <3>2, <3>3, Zenon
    <3> QED
      BY <3>4 DEF p, q
  <2> QED
    BY <1>7, <1>8, <2>1, <2>2, <2>3 DEF SerialDevice!IsPrefix
<1>11. c.err = "E_OK" => /\ cb.sdat_num = 0 /\ cb.rdat_num = 0
                        /\ Given(c, cb) = ToSend(c) /\ Stored(c, cb) = ToRecv(c)
  BY <1>1, <1>6 DEF Outcome, NextState, Given, Stored, ToSend, ToRecv
<1>12. c.op # "write" /\ c.err = "E_OK" => b = SerialDevice!From(c.start, c.size)
  <2> SUFFICES ASSUME c.op # "write", c.err = "E_OK" PROVE b = SerialDevice!From(c.start, c.size)
    OBVIOUS
  <2>1. \A i \in 1 .. c.size : b[i] = c.start
    BY <1>1, <1>11 DEF Outcome, ToRecv
  <2>2. b = [i \in 1 .. c.size |-> b[i]]
    BY <1>6 DEF Buffer
  <2>3. b = [i \in 1 .. c.size |-> c.start]
    BY <2>1, <2>2, Zenon
  <2> QED
    BY <2>3 DEF SerialDevice!From
<1>13. c.op = "exec" /\ c.err = "E_OK" => u.line = SerialDevice!Own(t, c.size)
  <2> SUFFICES ASSUME c.op = "exec", c.err = "E_OK" PROVE u.line = SerialDevice!Own(t, c.size)
    OBVIOUS
  <2>1. Stored(c, cb) > 0
    BY <1>1, <1>11 DEF ToRecv, Asked
  <2>2. k = c.size
    BY <1>1, <1>7, <1>11, <2>1 DEF Outcome, ToSend
  <2> QED
    BY <1>7, <2>2 DEF SerialDevice!Own, Bytes
<1>14. (c.err = "E_PAR" <=> c.size = 0) /\ (c.op = "write" => c.err # "E_IO")
  BY <1>1 DEF Outcome
<1>15. SerialDevice!MayAnswer(t, [op |-> c.op, start |-> c.start, size |-> c.size],
                              [err |-> c.err, sent |-> u.line, got |-> b])
  BY <1>9, <1>10, <1>12, <1>13, <1>14 DEF SerialDevice!MayAnswer
<1> QED
  BY <1>2, <1>3, <1>4, <1>5, <1>15 DEF Sound, Quiet, Transferring

LEMMA AdcStartSound ==
  ASSUME NEW t \in Task, NEW c \in Call, NEW cb, NEW u \in Unit, NEW b, NEW r,
         Sound(t, c, cb, u, b, r), c.pc = "locked", c.dd = "adca", Quiet(u),
         NEW c2, c2 = [c EXCEPT !.pc = "convert"],
         NEW u2, u2 = [u EXCEPT !.cmd = [op |-> "READ", byte |-> c.start]]
  PROVE  c2 \in Call /\ u2 \in Unit /\ Sound(t, c2, cb, u2, b, r)
<1>1. Asked(c, b, r) /\ c.start \in Start
  BY DEF Sound, Asked
<1>2. /\ c2 \in Call /\ c2.pc = "convert" /\ c2.op = c.op /\ c2.size = c.size /\ c2.start = c.start
      /\ c2.dd = c.dd
  BY DEF Call
<1>3. u2 \in Unit /\ u2.cmd = [op |-> "READ", byte |-> c.start] /\ u2.rx = << >>
  BY <1>1 DEF Unit, Command, Quiet
<1>4. u2.cmd # NULL
  BY <1>1, <1>3, NullIsNoRecord DEF Command
<1> QED
  BY <1>1, <1>2, <1>3, <1>4 DEF Sound, Asked, Conversion, Transferring

LEMMA AdcReadSound ==
  ASSUME NEW t \in Task, NEW c \in Call, NEW cb, NEW u \in Unit, NEW b, NEW r,
         Sound(t, c, cb, u, b, r), c.pc = "convert", u.cmd = NULL,
         NEW c2, c2 = [c EXCEPT !.pc = "unlock"],
         NEW b2, b2 = << Head(u.rx) >>,
         NEW r2, r2 = [err |-> "E_OK", sent |-> << >>],
         NEW u2, u2 = [u EXCEPT !.rx = Tail(@)]
  PROVE  /\ c2 \in Call /\ r2 \in Result /\ u2 \in Unit /\ b2 \in Buffer
         /\ Sound(t, c2, cb, u2, b2, r2) /\ Quiet(u2)
         /\ SerialDevice!MayAnswer(t, [op |-> c.op, start |-> c.start, size |-> c.size],
                                   [err |-> "E_OK", sent |-> << >>, got |-> b2])
<1>1. /\ Asked(c, b, r) /\ c.start \in Start /\ u.rx = << c.start >>
      /\ c.size = 1 /\ c.op = "read" /\ c.dd = "adca"
  BY DEF Sound, Asked, Conversion
<1>2. /\ c2 \in Call /\ c2.pc = "unlock" /\ c2.op = c.op /\ c2.size = c.size /\ c2.start = c.start
      /\ c2.dd = c.dd
  BY DEF Call
<1>3. Head(u.rx) = c.start /\ Tail(u.rx) = << >>
  BY <1>1
<1>4. b2 = << c.start >> /\ b2 \in Buffer /\ Len(b2) = 1
  BY <1>1, <1>3 DEF Buffer
<1>5. r2 \in Result /\ r2 # NULL
  <2>1. r2 \in Result
    BY DEF Result, Error
  <2> QED
    BY <2>1, NullIsNoRecord
<1>6. u2 \in Unit /\ u2.cmd = NULL /\ u2.rx = << >>
  <2> DEFINE none == << >>
  <2>1. none \in Seq(Start)
    OBVIOUS
  <2> HIDE DEF none
  <2>2. Tail(u.rx) = none
    BY <1>3 DEF none
  <2>3. u2 = [u EXCEPT !.rx = none]
    BY <2>2 DEF Unit
  <2>4. u2 \in Unit /\ u2.cmd = NULL /\ u2.rx = none
    BY <2>1, <2>3 DEF Unit
  <2> QED
    BY <2>4 DEF none
<1>7. Asked(c2, b2, r2)
  BY <1>1, <1>2, <1>4, <1>5 DEF Asked, Transferring
<1>8. SerialDevice!From(c.start, c.size) = << c.start >>
  BY <1>1 DEF SerialDevice!From
<1>9. SerialDevice!IsPrefix(<< >>, SerialDevice!Own(t, c.size))
  <2>1. SerialDevice!Own(t, c.size) = Bytes(t, 1)
    BY <1>1 DEF SerialDevice!Own, Bytes
  <2>2. Len(Bytes(t, 1)) = 1 /\ Bytes(t, 1) \in Seq(Place)
    BY NextByte
  <2>3. SubSeq(<< >>, 1, 0) = SubSeq(Bytes(t, 1), 1, 0)
    BY <2>2
  <2> QED
    BY <2>1, <2>2, <2>3 DEF SerialDevice!IsPrefix
<1>10. SerialDevice!MayAnswer(t, [op |-> c.op, start |-> c.start, size |-> c.size],
                              [err |-> "E_OK", sent |-> << >>, got |-> b2])
  BY <1>1, <1>4, <1>8, <1>9 DEF SerialDevice!MayAnswer
<1> QED
  BY <1>2, <1>4, <1>5, <1>6, <1>7, <1>10 DEF Sound, Quiet, Transferring

\* The hardware does what it was told last ...
LEMMA AcceptSound ==
  ASSUME NEW t \in Task, NEW c \in Call, NEW cb \in Block, NEW u \in Unit, NEW b \in Buffer, NEW r,
         Sound(t, c, cb, u, b, r), c.pc \in Busy, u.cmd # NULL, ~u.abort,
         NEW u2,
         u2 = IF u.cmd.op = "READ" THEN [u EXCEPT !.rx = Append(@, u.cmd.byte), !.cmd = NULL]
              ELSE [u EXCEPT !.line = Append(@, u.cmd.byte), !.cmd = NULL]
  PROVE  u2 \in Unit /\ Sound(t, c, cb, u2, b, r)
<1>1. CASE c.pc = "convert"
  <2>1. u.cmd = [op |-> "READ", byte |-> c.start] /\ u.rx = << >> /\ c.start \in Start /\ Asked(c, b, r)
    BY <1>1 DEF Sound, Conversion, Asked
  <2> DEFINE rx == << c.start >>
  <2>2. rx \in Seq(Start) /\ u2 = [u EXCEPT !.rx = rx, !.cmd = NULL]
    BY <2>1
  <2> HIDE DEF rx
  <2>3. u2 \in Unit /\ u2.cmd = NULL /\ u2.rx = rx
    BY <2>2 DEF Unit
  <2> QED
    BY <1>1, <2>1, <2>3 DEF Sound, Conversion, Transferring, rx
<1>2. CASE c.pc # "convert"
  <2>1. /\ Asked(c, b, r) /\ Counts(t, c, cb) /\ Outcome(c, cb, u, b) /\ Wire(t, c, cb, u)
        /\ c.start \in Start /\ cb.sdat_num \in Nat /\ c.size \in Nat
    BY <1>2 DEF Sound, Transfer, Transferring, Busy, Asked, Block, Call
  <2>2. CASE c.pc = "recv" /\ u.cmd = [op |-> "READ", byte |-> c.start]
    <3>1. u.rx = << >>
      BY <2>1 DEF Wire
    <3> DEFINE rx == << c.start >>
    <3>2. rx \in Seq(Start) /\ u2 = [u EXCEPT !.rx = rx, !.cmd = NULL]
      BY <2>1, <2>2, <3>1
    <3> HIDE DEF rx
    <3>3. /\ u2 \in Unit /\ u2.cmd = NULL /\ u2.rx = rx /\ u2.abort = u.abort
          /\ u2.target = u.target /\ u2.line = u.line
      BY <3>2 DEF Unit
    <3>4. Wire(t, c, cb, u2)
      BY <2>1, <2>2, <3>3 DEF Wire, rx
    <3>5. Outcome(c, cb, u2, b)
      BY <2>1, <3>3 DEF Outcome
    <3> QED
      BY <1>2, <2>1, <2>2, <3>3, <3>4, <3>5 DEF Sound, Transfer
  <2>3. CASE c.pc = "send" /\ u.cmd = [op |-> "WRITE", byte |-> << t, Given(c, cb) >>]
    <3> DEFINE n == Given(c, cb)
    <3>1. PICK k \in 0 .. n : u.line = Bytes(t, k) /\ k = n - 1
      BY <2>1, <2>3 DEF Wire
    <3>2. n \in Int
      BY <2>1 DEF Given, ToSend
    <3> HIDE DEF n
    <3>3. k \in Nat /\ n = k + 1
      BY <3>1, <3>2
    <3>4. Append(u.line, << t, n >>) = Bytes(t, n) /\ Bytes(t, n) \in Seq(Place)
      BY <3>1, <3>3, NextByte
    <3>5. u2 = [u EXCEPT !.line = Append(@, << t, n >>), !.cmd = NULL]
      BY <2>3 DEF n
    <3> DEFINE line == Bytes(t, n)
    <3>6. line \in Seq(Place) /\ u2 = [u EXCEPT !.line = line, !.cmd = NULL]
      BY <3>4, <3>5 DEF Unit
    <3> HIDE DEF line
    <3>7. /\ u2 \in Unit /\ u2.cmd = NULL /\ u2.rx = u.rx /\ u2.abort = u.abort
          /\ u2.target = u.target /\ u2.line = line
      BY <3>6 DEF Unit
    <3>8. Wire(t, c, cb, u2)
      <4>1. u2.rx = << >>
        BY <2>1, <2>3, <3>7 DEF Wire
      <4>2. n \in 0 .. n /\ u2.line = Bytes(t, n) /\ n - 0 = n
        BY <3>3, <3>7 DEF line
      <4> QED
        BY <2>1, <2>3, <3>7, <4>1, <4>2 DEF Wire, n
    <3>9. Outcome(c, cb, u2, b)
      BY <2>1, <3>7 DEF Outcome
    <3> QED
      BY <1>2, <2>1, <2>3, <3>7, <3>8, <3>9 DEF Sound, Transfer
  <2> QED
    BY <2>1, <2>2, <2>3 DEF Wire
<1> QED
  BY <1>1, <1>2

\* ... or refuses it.
LEMMA AbortSound ==
  ASSUME NEW t \in Task, NEW c \in Call, NEW cb \in Block, NEW u \in Unit, NEW b \in Buffer, NEW r,
         Sound(t, c, cb, u, b, r), c.pc \in Busy, c.dd # "adca", u.cmd # NULL,
         NEW u2, u2 = [u EXCEPT !.abort = TRUE, !.cmd = NULL]
  PROVE  u2 \in Unit /\ Sound(t, c, cb, u2, b, r)
<1>1. Asked(c, b, r) /\ c.pc # "convert"
  BY DEF Sound, Asked
<1>2. Counts(t, c, cb) /\ Outcome(c, cb, u, b) /\ Wire(t, c, cb, u)
  BY <1>1 DEF Sound, Transfer, Transferring, Busy
<1>3. /\ u2 \in Unit /\ u2.cmd = NULL /\ u2.rx = u.rx /\ u2.abort = TRUE
      /\ u2.target = u.target /\ u2.line = u.line
  BY DEF Unit
<1>4. Wire(t, c, cb, u2)
  <2>1. u.rx = << >>
    BY <1>2 DEF Wire
  <2> QED
    BY <1>2, <1>3, <2>1 DEF Wire
<1>5. Outcome(c, cb, u2, b)
  BY <1>2, <1>3 DEF Outcome, Wire
<1> QED
  BY <1>1, <1>2, <1>3, <1>4, <1>5 DEF Sound, Transfer, Transferring, Busy

-----------------------------------------------------------------------------
(***************************************************************************)
(* The steps of the devices, and what they are to SerialDevice.            *)
(***************************************************************************)

\* The calls as SerialDevice sees them.
requests ==
  [t \in Task |->
    IF call[t].pc = "none" \/ result[t] # NULL THEN NULL
    ELSE [op |-> call[t].op, start |-> call[t].start, size |-> call[t].size]]
answers ==
  [t \in Task |->
    IF result[t] = NULL THEN NULL
    ELSE [err |-> result[t].err, sent |-> result[t].sent, got |-> buf[t]]]

SerialStep == SerialDevice!Next \/ UNCHANGED << requests, answers >>

\* What a step of a driver may change: the call of t, and what is d's.
Changes(t, d, c, cb, u, b, r) ==
  /\ UNCHANGED dev_tbl
  /\ call' = [call EXCEPT ![t] = c]
  /\ ll_devcb' = [ll_devcb EXCEPT ![d] = cb]
  /\ unit' = [unit EXCEPT ![d] = u]
  /\ buf' = [buf EXCEPT ![t] = b]
  /\ result' = [result EXCEPT ![t] = r]

\* Who uses a device has its lock, so nobody else uses it.
LEMMA OneUser ==
  ASSUME DInv, DataInv, NEW t \in Task, call[t].pc # "none", ~SemWaits(t),
         NEW u \in Task, call[u].pc \in Transferring \cup Busy, call[u].dd = call[t].dd
  PROVE  u = t
<1>1. call[t].dd \in Dev /\ IsOpen(call[t].dd)
  BY DEF DInv, CallInv
<1>2. ~SemWaits(u) /\ call[u].pc # "none"
  BY DEF DInv, WaitInv, Transferring, Busy
<1>3. Holds(t, call[t].dd) /\ Holds(u, call[t].dd)
  BY <1>2 DEF Holds, SemWaits
<1> QED
  BY <1>1, <1>3 DEF DInv, HoldInv

LEMMA ChangesSound ==
  ASSUME DInv, DataInv, NEW t \in Task, NEW d \in Dev, call[t].dd = d, call[t].pc # "none", ~SemWaits(t),
         NEW c \in Call, NEW cb \in Block, NEW u \in Unit, NEW b \in Buffer, NEW r \in Result \cup {NULL},
         Changes(t, d, c, cb, u, b, r), c.dd = d,
         Sound(t, c, cb, u, b, r), c.pc \notin Busy => Quiet(u)
  PROVE  DataInv'
<1>1. /\ call \in [Task -> Call] /\ ll_devcb \in [Dev -> Block] /\ unit \in [Dev -> Unit]
      /\ buf \in [Task -> Buffer] /\ result \in [Task -> Result \cup {NULL}]
  BY DEF DataInv, DevTypeOK
<1>2. /\ call'[t] = c /\ ll_devcb'[d] = cb /\ unit'[d] = u /\ buf'[t] = b /\ result'[t] = r
      /\ \A v \in Task \ {t} : call'[v] = call[v] /\ buf'[v] = buf[v] /\ result'[v] = result[v]
      /\ \A e \in Dev \ {d} : ll_devcb'[e] = ll_devcb[e] /\ unit'[e] = unit[e]
  BY <1>1 DEF Changes
<1>3. DevTypeOK'
  BY <1>1 DEF DataInv, DevTypeOK, Changes
<1>4. ASSUME NEW v \in Task
      PROVE  Sound(v, call'[v], ll_devcb'[call'[v].dd], unit'[call'[v].dd], buf'[v], result'[v])
  <2>1. CASE v = t
    BY <1>2, <2>1
  <2>2. CASE v # t
    <3>1. Sound(v, call[v], ll_devcb[call[v].dd], unit[call[v].dd], buf[v], result[v])
      BY DEF DataInv, CallsSound
    <3>2. call'[v] = call[v] /\ buf'[v] = buf[v] /\ result'[v] = result[v]
      BY <1>2, <2>2
    <3>3. CASE call[v].pc \in Transferring \cup Busy
      <4>1. call[v].dd # d
        BY <2>2, <3>3, OneUser
      <4>2. call[v].dd \in Dev
        BY <3>1, <3>3 DEF Sound, Asked, Transferring, Busy
      <4>3. ll_devcb'[call[v].dd] = ll_devcb[call[v].dd] /\ unit'[call[v].dd] = unit[call[v].dd]
        BY <1>2, <4>1, <4>2
      <4> QED
        BY <3>1, <3>2, <4>3
    <3>4. CASE call[v].pc \notin Transferring \cup Busy
      BY <3>1, <3>2, <3>4 DEF Sound, Busy
    <3> QED
      BY <3>3, <3>4
  <2> QED
    BY <2>1, <2>2
<1>5. CallsSound'
  BY <1>4 DEF CallsSound
<1>6. ASSUME NEW e \in Dev, \A v \in Task : call'[v].dd = e => call'[v].pc \notin Busy
      PROVE  Quiet(unit'[e])
  <2>1. CASE e = d
    BY <1>2, <1>6, <2>1
  <2>2. CASE e # d
    <3>1. \A v \in Task : call[v].dd = e => call[v].pc \notin Busy
      BY <1>2, <1>6, <2>2
    <3>2. Quiet(unit[e])
      BY <3>1 DEF DataInv, UnitsQuiet
    <3> QED
      BY <1>2, <2>2, <3>2
  <2> QED
    BY <2>1, <2>2
<1>7. UnitsQuiet'
  BY <1>6 DEF UnitsQuiet, Quiet
<1> QED
  BY <1>3, <1>5, <1>7 DEF DataInv

\* Until a call is served, SerialDevice sees no change.
LEMMA ChangesUnseen ==
  ASSUME DataInv, NEW t \in Task, NEW d, NEW c, NEW cb, NEW u, NEW b, NEW r,
         Changes(t, d, c, cb, u, b, r), call[t].pc # "none", c.pc # "none",
         result[t] = NULL, r = NULL,
         c.op = call[t].op, c.start = call[t].start, c.size = call[t].size
  PROVE  UNCHANGED << requests, answers >>
<1>1. /\ call \in [Task -> Call] /\ buf \in [Task -> Buffer] /\ result \in [Task -> Result \cup {NULL}]
  BY DEF DataInv, DevTypeOK
<1>2. /\ call'[t] = c /\ result' = result
      /\ \A v \in Task \ {t} : call'[v] = call[v] /\ buf'[v] = buf[v]
  BY <1>1 DEF Changes
<1>3. requests' = requests
  BY <1>2 DEF requests
<1>4. answers' = answers
  BY <1>2 DEF answers
<1> QED
  BY <1>3, <1>4

LEMMA ChangesServe ==
  ASSUME DataInv, NEW t \in Task, NEW d, NEW c, NEW cb, NEW u, NEW b \in Buffer, NEW r \in Result,
         Changes(t, d, c, cb, u, b, r), call[t].pc # "none", result[t] = NULL,
         SerialDevice!MayAnswer(t,
           [op |-> call[t].op, start |-> call[t].start, size |-> call[t].size],
           [err |-> r.err, sent |-> r.sent, got |-> b])
  PROVE  SerialDevice!Next
<1> DEFINE q == [op |-> call[t].op, start |-> call[t].start, size |-> call[t].size]
           a == [err |-> r.err, sent |-> r.sent, got |-> b]
<1>1. /\ call \in [Task -> Call] /\ buf \in [Task -> Buffer] /\ result \in [Task -> Result \cup {NULL}]
  BY DEF DataInv, DevTypeOK
<1>2. /\ r # NULL /\ result'[t] = r /\ buf'[t] = b
      /\ \A v \in Task \ {t} : call'[v] = call[v] /\ buf'[v] = buf[v] /\ result'[v] = result[v]
  BY <1>1, NullIsNoRecord DEF Changes
<1>3. q # NULL
  <2>1. Asked(call[t], buf[t], result[t]) /\ call[t].size \in Nat
    BY <1>1 DEF DataInv, CallsSound, Sound, Call
  <2>2. q \in [op : {"read", "write", "exec"}, start : Start, size : Nat]
    BY <2>1 DEF Asked
  <2> QED
    BY <2>2, NullIsNoRecord
<1>4. a # NULL
  <2>1. a \in [err : Error, sent : Seq(Place), got : Buffer]
    BY DEF Result
  <2> QED
    BY <2>1, NullIsNoRecord
<1>5. SerialDevice!MayAnswer(t, q, a)
  OBVIOUS
<1>6. requests[t] = q /\ answers'[t] = a
  BY <1>2 DEF requests, answers
<1>7. \A v \in Task \ {t} : requests'[v] = requests[v] /\ answers'[v] = answers[v]
  BY <1>2 DEF requests, answers
<1>8. requests'[t] = NULL
  BY <1>2 DEF requests
<1> HIDE DEF q, a
<1>9. requests' = [requests EXCEPT ![t] = NULL]
  BY <1>7, <1>8 DEF requests
<1>10. SerialDevice!Serve(t)
  <2>1. /\ requests[t] # NULL
        /\ requests' = [requests EXCEPT ![t] = NULL]
        /\ answers'[t] # NULL /\ SerialDevice!MayAnswer(t, requests[t], answers'[t])
        /\ \A v \in Task \ {t} : answers'[v] = answers[v]
    BY <1>3, <1>4, <1>5, <1>6, <1>7, <1>9
  <2> QED
    BY <2>1 DEF SerialDevice!Serve, requests, answers
<1> QED
  BY <1>10 DEF SerialDevice!Next

\* A task between the lock and the unlock of its device.
LEMMA DriverIs ==
  ASSUME DInv, DataInv, InTask, call[cur_task].pc # "none"
  PROVE  \E t \in Task, d \in Dev :
           /\ t = cur_task /\ d = Dd /\ call[t].dd = d /\ ~SemWaits(t)
           /\ call[t] \in Call /\ ll_devcb[d] \in Block /\ unit[d] \in Unit /\ buf[t] \in Buffer
           /\ result[t] \in Result \cup {NULL}
           /\ Sound(t, call[t], ll_devcb[d], unit[d], buf[t], result[t])
           /\ call[t].pc # "unlock" => result[t] = NULL
<1>1. cur_task \in Task /\ ~SemWaits(cur_task)
  BY CallerIsReady DEF DInv, SInv
<1>2. Dd \in Dev /\ call[cur_task].dd = Dd
  BY <1>1 DEF DInv, CallInv, Dd
<1>3. Sound(cur_task, call[cur_task], ll_devcb[Dd], unit[Dd], buf[cur_task], result[cur_task])
  BY <1>1, <1>2 DEF DataInv, CallsSound
<1>4. call[cur_task].pc # "unlock" => result[cur_task] = NULL
  BY <1>3 DEF Sound, Asked
<1> QED
  BY <1>1, <1>2, <1>3, <1>4 DEF DataInv, DevTypeOK

\* With the lock and before anything else, the hardware is quiet.
LEMMA FreshUnit ==
  ASSUME DInv, DataInv, NEW t \in Task, call[t].pc \in {"locked", "start"}, ~SemWaits(t)
  PROVE  Quiet(unit[call[t].dd])
<1>1. call[t].dd \in Dev
  BY DEF DInv, CallInv
<1>2. \A v \in Task : call[v].dd = call[t].dd => call[v].pc \notin Busy
  BY OneUser DEF Busy
<1> QED
  BY <1>1, <1>2 DEF DataInv, UnitsQuiet

LEMMA DriverSound ==
  ASSUME DInv, DataInv, set_com_start \/ TransStep \/ AdcStart \/ AdcRead
  PROVE  DataInv' /\ SerialStep
<1>1. InTask /\ call[cur_task].pc # "none"
  BY DEF set_com_start, TransStep, TransStart, TransSend, TransSent, TransRecv, TransReceived,
         TransEnd, AdcStart, AdcRead, At
<1>2. PICK t \in Task, d \in Dev :
           /\ t = cur_task /\ d = Dd /\ call[t].dd = d /\ ~SemWaits(t)
           /\ call[t] \in Call /\ ll_devcb[d] \in Block /\ unit[d] \in Unit /\ buf[t] \in Buffer
           /\ result[t] \in Result \cup {NULL}
           /\ Sound(t, call[t], ll_devcb[d], unit[d], buf[t], result[t])
           /\ call[t].pc # "unlock" => result[t] = NULL
  BY <1>1, DriverIs
<1>3. PICK c, cb, u, b, r :
        /\ c = call[t] /\ cb = ll_devcb[d] /\ u = unit[d] /\ b = buf[t] /\ r = result[t]
        /\ cb = Cb
  BY <1>2 DEF Cb
<1>4. /\ c \in Call /\ cb \in Block /\ u \in Unit /\ b \in Buffer /\ r \in Result \cup {NULL}
      /\ Sound(t, c, cb, u, b, r)
      /\ c.pc # "unlock" => r = NULL
      /\ c.dd = d /\ c.pc # "none"
  BY <1>1, <1>2, <1>3
<1>5. /\ call \in [Task -> Call] /\ ll_devcb \in [Dev -> Block] /\ unit \in [Dev -> Unit]
      /\ buf \in [Task -> Buffer] /\ result \in [Task -> Result \cup {NULL}]
  BY DEF DataInv, DevTypeOK
<1>6. c.pc \in {"locked", "start"} => Quiet(u)
  BY <1>2, <1>3, FreshUnit
\* A step that does not serve the call.
<1>7. ASSUME NEW c2 \in Call, NEW cb2 \in Block, NEW u2 \in Unit, NEW b2 \in Buffer,
             Changes(t, d, c2, cb2, u2, b2, r), Sound(t, c2, cb2, u2, b2, r), r = NULL,
             c2.dd = d, c2.pc # "none", c2.pc \notin Busy => Quiet(u2),
             c2.op = c.op, c2.start = c.start, c2.size = c.size
      PROVE  DataInv' /\ SerialStep
  <2>1. DataInv'
    BY <1>1, <1>2, <1>3, <1>4, <1>7, ChangesSound
  <2>2. UNCHANGED << requests, answers >>
    BY <1>1, <1>2, <1>3, <1>4, <1>7, ChangesUnseen
  <2> QED
    BY <2>1, <2>2 DEF SerialStep
\* One that does.
<1>8. ASSUME NEW c2 \in Call, NEW u2 \in Unit, NEW b2 \in Buffer, NEW r2 \in Result,
             Changes(t, d, c2, cb, u2, b2, r2), Sound(t, c2, cb, u2, b2, r2), r = NULL,
             c2.dd = d, Quiet(u2),
             SerialDevice!MayAnswer(t, [op |-> c.op, start |-> c.start, size |-> c.size],
                                    [err |-> r2.err, sent |-> r2.sent, got |-> b2])
      PROVE  DataInv' /\ SerialStep
  <2>1. DataInv'
    BY <1>1, <1>2, <1>3, <1>4, <1>8, ChangesSound
  <2>2. SerialDevice!Next
    BY <1>1, <1>2, <1>3, <1>4, <1>8, ChangesServe
  <2> QED
    BY <2>1, <2>2 DEF SerialStep
<1>9. CASE set_com_start
  <2> DEFINE c2 == [c EXCEPT !.pc = "start"]
             cb2 == [semid |-> cb.semid, sadr |-> c.start,
                     sdat_num |-> IF c.op = "read" THEN 0 ELSE c.size,
                     rdat_num |-> IF c.op = "write" THEN 0 ELSE c.size,
                     sbuf |-> IF c.op = "read" THEN NULL ELSE << t, 1 >>,
                     rbuf |-> IF c.op = "write" THEN NULL ELSE << t, 1 >>]
  <2>1. /\ c.pc = "locked" /\ c.dd \in I2C
        /\ call' = [call EXCEPT ![t] = c2] /\ ll_devcb' = [ll_devcb EXCEPT ![d] = cb2]
        /\ UNCHANGED << buf, result, unit, dev_tbl >>
    BY <1>2, <1>3, <1>9 DEF set_com_start, At, Goto, NoApi
  <2>2. c2.pc = "start" /\ c2.dd = d /\ c2.op = c.op /\ c2.start = c.start /\ c2.size = c.size
    BY <1>4 DEF Call
  <2> HIDE DEF c2, cb2
  <2>3. Changes(t, d, c2, cb2, u, b, r)
    BY <1>3, <1>5, <2>1 DEF Changes
  <2>4. c2 \in Call /\ cb2 \in Block /\ Sound(t, c2, cb2, u, b, r)
    BY <1>4, <2>1, BeginSound DEF c2, cb2
  <2> QED
    BY <1>4, <1>6, <1>7, <2>1, <2>2, <2>3, <2>4
<1>10. CASE TransStart
  <2> DEFINE e == IF NextState(cb) = "I2C_STS_STOP" THEN "E_PAR" ELSE c.err
             c2 == [c EXCEPT !.pc = "loop", !.state = NextState(cb), !.err = e]
             u2 == [target |-> cb.sadr, cmd |-> NULL, rx |-> << >>, abort |-> FALSE, line |-> << >>]
  <2>1. /\ c.pc = "start"
        /\ call' = [call EXCEPT ![t] = c2] /\ unit' = [unit EXCEPT ![d] = u2]
        /\ UNCHANGED << buf, result, ll_devcb, dev_tbl >>
    BY <1>2, <1>3, <1>10 DEF TransStart, At, NoApi
  <2>2. c2.pc = "loop" /\ c2.dd = d /\ c2.op = c.op /\ c2.start = c.start /\ c2.size = c.size
    BY <1>4 DEF Call
  <2>3. e = IF NextState(cb) = "I2C_STS_STOP" THEN "E_PAR" ELSE c.err
    OBVIOUS
  <2> HIDE DEF e, c2, u2
  <2>4. c2 \in Call /\ u2 \in Unit /\ Sound(t, c2, cb, u2, b, r)
    <3>1. /\ c \in Call /\ cb \in Block /\ b \in Buffer /\ Sound(t, c, cb, u, b, r) /\ c.pc = "start"
      BY <1>4, <2>1
    <3> QED
      BY <2>3, <3>1, TransStartSound DEF c2, u2
  <2>5. Changes(t, d, c2, cb, u2, b, r)
    BY <1>3, <1>5, <2>1 DEF Changes
  <2> QED
    BY <1>4, <1>7, <2>1, <2>2, <2>4, <2>5 DEF Busy
<1>11. CASE TransSend
  <2> DEFINE cb2 == [cb EXCEPT !.sdat_num = @ - 1, !.sbuf[2] = @ + 1]
             c2 == [c EXCEPT !.pc = "send", !.state = NextState(cb2)]
             u2 == [u EXCEPT !.cmd = [op |-> "WRITE", byte |-> cb.sbuf]]
  <2>1. /\ c.pc = "loop" /\ c.state = "I2C_STS_SEND"
        /\ ll_devcb' = [ll_devcb EXCEPT ![d] = cb2]
        /\ call' = [call EXCEPT ![t].pc = "send", ![t].state = NextState(cb2)]
        /\ unit' = [unit EXCEPT ![d].cmd = [op |-> "WRITE", byte |-> cb.sbuf]]
        /\ UNCHANGED << buf, result, dev_tbl >>
    BY <1>2, <1>3, <1>11 DEF TransSend, At, NoApi
  <2> HIDE DEF cb2
  <2>2. call' = [call EXCEPT ![t] = c2] /\ unit' = [unit EXCEPT ![d] = u2]
    BY <1>3, <1>5, <2>1 DEF Call
  <2>3. c2.pc = "send" /\ c2.dd = d /\ c2.op = c.op /\ c2.start = c.start /\ c2.size = c.size
    BY <1>4 DEF Call
  <2>4. c2 \in Call /\ cb2 \in Block /\ u2 \in Unit /\ Sound(t, c2, cb2, u2, b, r)
    BY <1>4, <2>1, SendSound DEF cb2
  <2> HIDE DEF c2, u2
  <2>5. Changes(t, d, c2, cb2, u2, b, r)
    BY <1>3, <1>5, <2>1, <2>2 DEF Changes
  <2> QED
    BY <1>4, <1>7, <2>1, <2>3, <2>4, <2>5 DEF Busy
<1>12. CASE TransSent
  <2> DEFINE c2 == [c EXCEPT !.pc = "loop"]
  <2>1. /\ c.pc = "send" /\ u.cmd = NULL
        /\ call' = [call EXCEPT ![t] = c2]
        /\ UNCHANGED << buf, result, ll_devcb, unit, dev_tbl >>
    BY <1>2, <1>3, <1>12 DEF TransSent, At, Goto, NoApi
  <2>2. c2.pc = "loop" /\ c2.dd = d /\ c2.op = c.op /\ c2.start = c.start /\ c2.size = c.size
    BY <1>4 DEF Call
  <2>3. c2 \in Call /\ Sound(t, c2, cb, u, b, r)
    BY <1>4, <2>1, SentSound
  <2> HIDE DEF c2
  <2>4. Changes(t, d, c2, cb, u, b, r)
    BY <1>3, <1>5, <2>1 DEF Changes
  <2> QED
    BY <1>4, <1>7, <2>1, <2>2, <2>3, <2>4 DEF Busy
<1>13. CASE TransRecv
  <2> DEFINE cb2 == [cb EXCEPT !.rdat_num = @ - 1]
             c2 == [c EXCEPT !.pc = "recv", !.state = NextState(cb2)]
             u2 == [u EXCEPT !.cmd = [op |-> "READ", byte |-> u.target]]
  <2>1. /\ c.pc = "loop" /\ c.state = "I2C_STS_RECV"
        /\ ll_devcb' = [ll_devcb EXCEPT ![d] = cb2]
        /\ call' = [call EXCEPT ![t].pc = "recv", ![t].state = NextState(cb2)]
        /\ unit' = [unit EXCEPT ![d].cmd = [op |-> "READ", byte |-> u.target]]
        /\ UNCHANGED << buf, result, dev_tbl >>
    BY <1>2, <1>3, <1>13 DEF TransRecv, At, NoApi
  <2> HIDE DEF cb2
  <2>2. call' = [call EXCEPT ![t] = c2] /\ unit' = [unit EXCEPT ![d] = u2]
    BY <1>3, <1>5, <2>1 DEF Call
  <2>3. c2.pc = "recv" /\ c2.dd = d /\ c2.op = c.op /\ c2.start = c.start /\ c2.size = c.size
    BY <1>4 DEF Call
  <2>4. c2 \in Call /\ cb2 \in Block /\ u2 \in Unit /\ Sound(t, c2, cb2, u2, b, r)
    BY <1>4, <2>1, RecvSound DEF cb2
  <2> HIDE DEF c2, u2
  <2>5. Changes(t, d, c2, cb2, u2, b, r)
    BY <1>3, <1>5, <2>1, <2>2 DEF Changes
  <2> QED
    BY <1>4, <1>7, <2>1, <2>3, <2>4, <2>5 DEF Busy
<1>14. CASE TransReceived
  <2>1. c.pc = "recv" /\ r = NULL /\ UNCHANGED << result, dev_tbl >>
    BY <1>2, <1>3, <1>4, <1>14 DEF TransReceived, At, NoApi
  <2>2. cb.rbuf[1] = t
    BY <1>4, <2>1, StoresInOwn
  <2>3. ASSUME NEW byte, Stores(byte), NEW c2, NEW u2,
               call' = [call EXCEPT ![t] = c2], unit' = [unit EXCEPT ![d] = u2],
               c2.pc = "loop", c2.dd = d, c2.op = c.op, c2.start = c.start, c2.size = c.size,
               Receives(c, u, byte, c2, u2)
        PROVE  DataInv' /\ SerialStep
    <3> DEFINE b2 == [b EXCEPT ![cb.rbuf[2]] = byte]
               cb2 == [cb EXCEPT !.rbuf[2] = @ + 1]
    <3>1. buf' = [buf EXCEPT ![t] = b2] /\ ll_devcb' = [ll_devcb EXCEPT ![d] = cb2]
      BY <1>2, <1>3, <2>2, <2>3 DEF Stores
    <3> HIDE DEF b2, cb2
    <3>2. Changes(t, d, c2, cb2, u2, b2, r)
      BY <1>3, <1>5, <2>1, <2>3, <3>1 DEF Changes
    <3>3. c2 \in Call /\ cb2 \in Block /\ u2 \in Unit /\ b2 \in Buffer /\ Sound(t, c2, cb2, u2, b2, r)
      <4>1. /\ c \in Call /\ cb \in Block /\ u \in Unit /\ b \in Buffer /\ Sound(t, c, cb, u, b, r)
            /\ c.pc = "recv" /\ Receives(c, u, byte, c2, u2)
        BY <1>4, <2>1, <2>3
      <4> QED
        BY <4>1, ReceivedSound DEF b2, cb2
    <3> QED
      BY <1>4, <1>7, <2>1, <2>3, <3>2, <3>3 DEF Busy
  <2>4. CASE /\ unit[Dd].abort /\ Stores(NULL)
             /\ call' = [call EXCEPT ![cur_task].pc = "loop", ![cur_task].err = "E_IO",
                                     ![cur_task].state = "I2C_STS_STOP"]
             /\ UNCHANGED unit
    <3> DEFINE c2 == [c EXCEPT !.pc = "loop", !.err = "E_IO", !.state = "I2C_STS_STOP"]
    <3>1. call' = [call EXCEPT ![t] = c2] /\ unit' = [unit EXCEPT ![d] = u] /\ u.abort
      BY <1>2, <1>3, <1>5, <2>4 DEF Call
    <3>2. c2.pc = "loop" /\ c2.dd = d /\ c2.op = c.op /\ c2.start = c.start /\ c2.size = c.size
      BY <1>4 DEF Call
    <3>3. Receives(c, u, NULL, c2, u)
      BY <3>1 DEF Receives
    <3> HIDE DEF c2
    <3> QED
      BY <2>3, <2>4, <3>1, <3>2, <3>3
  <2>5. CASE /\ ~unit[Dd].abort /\ unit[Dd].rx # << >> /\ Stores(Head(unit[Dd].rx))
             /\ unit' = [unit EXCEPT ![Dd].rx = Tail(@)]
             /\ Goto("loop")
    <3> DEFINE c2 == [c EXCEPT !.pc = "loop"]
               u2 == [u EXCEPT !.rx = Tail(@)]
    <3>1. /\ call' = [call EXCEPT ![t] = c2] /\ unit' = [unit EXCEPT ![d] = u2]
          /\ ~u.abort /\ u.rx # << >> /\ Stores(Head(u.rx))
      BY <1>2, <1>3, <1>5, <2>5 DEF Call, Goto
    <3>2. c2.pc = "loop" /\ c2.dd = d /\ c2.op = c.op /\ c2.start = c.start /\ c2.size = c.size
      BY <1>4 DEF Call
    <3>3. Receives(c, u, Head(u.rx), c2, u2)
      BY <3>1 DEF Receives
    <3> HIDE DEF c2, u2
    <3> QED
      BY <2>3, <3>1, <3>2, <3>3
  <2> QED
    BY <1>14, <2>4, <2>5 DEF TransReceived
<1>15. CASE TransEnd
  <2> DEFINE c2 == [c EXCEPT !.pc = "unlock"]
             r2 == [err |-> c.err, sent |-> u.line]
             u2 == [u EXCEPT !.cmd = NULL, !.rx = << >>, !.line = << >>]
  <2>1. /\ c.pc = "loop" /\ c.state = "I2C_STS_STOP" /\ r = NULL
        /\ call' = [call EXCEPT ![t] = c2] /\ result' = [result EXCEPT ![t] = r2]
        /\ UNCHANGED << buf, ll_devcb, dev_tbl >>
    BY <1>2, <1>3, <1>4, <1>15 DEF TransEnd, At, Goto, NoApi
  <2>2. unit' = [unit EXCEPT ![d] = u2]
    BY <1>2, <1>3, <1>5, <1>15 DEF TransEnd
  <2>3. c2.dd = d
    BY <1>4 DEF Call
  <2>4. /\ c2 \in Call /\ r2 \in Result /\ u2 \in Unit /\ Sound(t, c2, cb, u2, b, r2) /\ Quiet(u2)
        /\ SerialDevice!MayAnswer(t, [op |-> c.op, start |-> c.start, size |-> c.size],
                                  [err |-> c.err, sent |-> u.line, got |-> b])
    BY <1>4, <2>1, EndSound
  <2>5. r2.err = c.err /\ r2.sent = u.line
    OBVIOUS
  <2> HIDE DEF c2, r2, u2
  <2>6. Changes(t, d, c2, cb, u2, b, r2)
    BY <1>3, <1>5, <2>1, <2>2 DEF Changes
  <2> QED
    BY <1>4, <1>8, <2>1, <2>3, <2>4, <2>5, <2>6
<1>16. CASE AdcStart
  <2> DEFINE c2 == [c EXCEPT !.pc = "convert"]
             u2 == [u EXCEPT !.cmd = [op |-> "READ", byte |-> c.start]]
  <2>1. /\ c.pc = "locked" /\ c.dd = "adca"
        /\ call' = [call EXCEPT ![t] = c2]
        /\ unit' = [unit EXCEPT ![d] = u2]
        /\ UNCHANGED << buf, result, ll_devcb, dev_tbl >>
    BY <1>2, <1>3, <1>5, <1>16 DEF AdcStart, At, Goto, NoApi
  <2>2. c2.pc = "convert" /\ c2.dd = d /\ c2.op = c.op /\ c2.start = c.start /\ c2.size = c.size
    BY <1>4 DEF Call
  <2>3. c2 \in Call /\ u2 \in Unit /\ Sound(t, c2, cb, u2, b, r)
    BY <1>4, <1>6, <2>1, AdcStartSound
  <2> HIDE DEF c2, u2
  <2>4. Changes(t, d, c2, cb, u2, b, r)
    BY <1>3, <1>5, <2>1 DEF Changes
  <2> QED
    BY <1>4, <1>7, <2>1, <2>2, <2>3, <2>4 DEF Busy
<1>17. CASE AdcRead
  <2> DEFINE c2 == [c EXCEPT !.pc = "unlock"]
             b2 == << Head(u.rx) >>
             r2 == [err |-> "E_OK", sent |-> << >>]
             u2 == [u EXCEPT !.rx = Tail(@)]
  <2>1. /\ c.pc = "convert" /\ u.cmd = NULL /\ r = NULL
        /\ call' = [call EXCEPT ![t] = c2]
        /\ buf' = [buf EXCEPT ![t] = b2]
        /\ result' = [result EXCEPT ![t] = r2]
        /\ UNCHANGED << ll_devcb, dev_tbl >>
    BY <1>2, <1>3, <1>4, <1>17 DEF AdcRead, At, Goto, NoApi
  <2>2. unit' = [unit EXCEPT ![d] = u2]
    BY <1>2, <1>3, <1>5, <1>17 DEF AdcRead
  <2>3. c2.dd = d
    BY <1>4 DEF Call
  <2>4. /\ c2 \in Call /\ r2 \in Result /\ u2 \in Unit /\ b2 \in Buffer
        /\ Sound(t, c2, cb, u2, b2, r2) /\ Quiet(u2)
        /\ SerialDevice!MayAnswer(t, [op |-> c.op, start |-> c.start, size |-> c.size],
                                  [err |-> "E_OK", sent |-> << >>, got |-> b2])
    BY <1>4, <2>1, AdcReadSound
  <2>5. r2.err = "E_OK" /\ r2.sent = << >>
    OBVIOUS
  <2> HIDE DEF c2, b2, r2, u2
  <2>6. Changes(t, d, c2, cb, u2, b2, r2)
    BY <1>3, <1>5, <2>1, <2>2 DEF Changes
  <2> QED
    BY <1>4, <1>8, <2>1, <2>3, <2>4, <2>5, <2>6
<1> QED
  BY <1>9, <1>10, <1>11, <1>12, <1>13, <1>14, <1>15, <1>16, <1>17 DEF TransStep

\* Whoever uses the unit, the hardware works for him.
LEMMA HardwareSound ==
  ASSUME DInv, DataInv, Hardware
  PROVE  DataInv' /\ SerialStep
<1>1. PICK d \in Dev : Accepts(d) \/ Aborts(d)
  BY DEF Hardware
<1>2. UNCHANGED << dev_tbl, ll_devcb, call, buf, result >>
  BY DEF Hardware, devvars
<1>3. unit[d].cmd # NULL
  BY <1>1 DEF Accepts, Aborts
<1>4. PICK t \in Task : call[t].dd = d /\ call[t].pc \in Busy
  BY <1>3 DEF DataInv, UnitsQuiet, Quiet
<1>5. call[t].pc # "none" /\ ~SemWaits(t)
  BY <1>4 DEF DInv, WaitInv, Busy
<1>6. PICK c, cb, u, b, r :
        /\ c = call[t] /\ cb = ll_devcb[d] /\ u = unit[d] /\ b = buf[t] /\ r = result[t]
  OBVIOUS
<1>7. /\ call \in [Task -> Call] /\ ll_devcb \in [Dev -> Block] /\ unit \in [Dev -> Unit]
      /\ buf \in [Task -> Buffer] /\ result \in [Task -> Result \cup {NULL}]
  BY DEF DataInv, DevTypeOK
<1>8. /\ c \in Call /\ cb \in Block /\ u \in Unit /\ b \in Buffer /\ r \in Result \cup {NULL}
      /\ Sound(t, c, cb, u, b, r) /\ c.pc \in Busy /\ c.dd = d
  BY <1>4, <1>6, <1>7 DEF DataInv, CallsSound
<1>9. r = NULL
  BY <1>8 DEF Sound, Asked, Busy
<1>10. ASSUME NEW u2 \in Unit, unit' = [unit EXCEPT ![d] = u2], Sound(t, c, cb, u2, b, r)
       PROVE  DataInv' /\ SerialStep
  <2>1. Changes(t, d, c, cb, u2, b, r)
    BY <1>2, <1>6, <1>7, <1>10 DEF Changes
  <2>2. DataInv'
    BY <1>4, <1>5, <1>8, <1>10, <2>1, ChangesSound
  <2>3. UNCHANGED << requests, answers >>
    BY <1>5, <1>6, <1>8, <1>9, <2>1, ChangesUnseen
  <2> QED
    BY <2>2, <2>3 DEF SerialStep
<1>11. CASE Accepts(d)
  <2> DEFINE u2 == IF u.cmd.op = "READ" THEN [u EXCEPT !.rx = Append(@, u.cmd.byte), !.cmd = NULL]
                   ELSE [u EXCEPT !.line = Append(@, u.cmd.byte), !.cmd = NULL]
  <2>1. unit' = [unit EXCEPT ![d] = u2] /\ u.cmd # NULL /\ ~u.abort
    <3>1. unit' = [unit EXCEPT ![d] = u2]
      <4>1. CASE unit[d].cmd.op = "READ"
        BY <1>6, <1>7, <1>11, <4>1 DEF Accepts
      <4>2. CASE unit[d].cmd.op # "READ"
        BY <1>6, <1>7, <1>11, <4>2 DEF Accepts
      <4> QED
        BY <4>1, <4>2
    <3>2. u.cmd # NULL /\ ~u.abort
      BY <1>6, <1>11 DEF Accepts
    <3> QED
      BY <1>6, <3>1, <3>2
  <2>2. u2 \in Unit /\ Sound(t, c, cb, u2, b, r)
    BY <1>8, <2>1, AcceptSound
  <2> HIDE DEF u2
  <2> QED
    BY <1>10, <2>1, <2>2
<1>12. CASE Aborts(d)
  <2> DEFINE u2 == [u EXCEPT !.abort = TRUE, !.cmd = NULL]
  <2>1. unit' = [unit EXCEPT ![d] = u2] /\ u.cmd # NULL /\ d \in I2C
    BY <1>6, <1>7, <1>12 DEF Aborts
  <2>2. d # "adca"
    BY <2>1 DEF I2C
  <2>3. u2 \in Unit /\ Sound(t, c, cb, u2, b, r)
    BY <1>8, <2>1, <2>2, AbortSound
  <2> HIDE DEF u2
  <2> QED
    BY <1>10, <2>1, <2>3
<1> QED
  BY <1>1, <1>11, <1>12

LEMMA OpensSound ==
  ASSUME DInv, DataInv, TaskOpens
  PROVE  DataInv' /\ SerialStep
<1>1. PICK d \in DevNm, omode \in OMode : tk_opn_dev(d, omode)
  BY DEF TaskOpens
<1>2. /\ d \in Dev /\ omode \subseteq {"TD_READ", "TD_WRITE"} /\ ~IsOpen(d)
      /\ dev_tbl' = [dev_tbl EXCEPT ![d] = [omode |-> omode, opncnt |-> @.opncnt + 1]]
      /\ UNCHANGED << call, buf, result, unit >>
  BY <1>1, DeviceAssumption DEF tk_opn_dev, Opens
<1>3. PICK s \in Sem : ll_devcb' = [ll_devcb EXCEPT ![d].semid = s]
  BY <1>1 DEF tk_opn_dev, Opens
<1>4. dev_tbl' \in [Dev -> [omode : SUBSET {"TD_READ", "TD_WRITE"}, opncnt : 0 .. 1]]
  <2> DEFINE e == [omode |-> omode, opncnt |-> dev_tbl[d].opncnt + 1]
  <2>1. dev_tbl \in [Dev -> [omode : SUBSET {"TD_READ", "TD_WRITE"}, opncnt : 0 .. 1]]
    BY DEF DataInv, DevTypeOK
  <2>2. e \in [omode : SUBSET {"TD_READ", "TD_WRITE"}, opncnt : 0 .. 1]
    BY <1>2 DEF IsOpen
  <2>3. dev_tbl' = [dev_tbl EXCEPT ![d] = e]
    BY <1>2
  <2> HIDE DEF e
  <2> QED
    BY <2>1, <2>2, <2>3
<1>5. /\ ll_devcb' \in [Dev -> Block]
      /\ \A e \in Dev \ {d} : ll_devcb'[e] = ll_devcb[e]
  <2>1. ll_devcb \in [Dev -> Block]
    BY DEF DataInv, DevTypeOK
  <2>2. [ll_devcb[d] EXCEPT !.semid = s] \in Block
    BY <1>2, <2>1 DEF Block
  <2> QED
    BY <1>2, <1>3, <2>1, <2>2
<1>6. DevTypeOK'
  BY <1>2, <1>4, <1>5 DEF DataInv, DevTypeOK
<1>7. ASSUME NEW v \in Task
      PROVE  Sound(v, call'[v], ll_devcb'[call'[v].dd], unit'[call'[v].dd], buf'[v], result'[v])
  <2>1. Sound(v, call[v], ll_devcb[call[v].dd], unit[call[v].dd], buf[v], result[v])
    BY DEF DataInv, CallsSound
  <2>2. CASE call[v].pc = "none"
    BY <1>2, <2>1, <2>2 DEF Sound, Transferring
  <2>3. CASE call[v].pc # "none"
    <3>1. call[v].dd \in Dev \ {d}
      BY <1>2, <2>3 DEF DInv, CallInv
    <3>2. ll_devcb'[call[v].dd] = ll_devcb[call[v].dd]
      BY <1>5, <3>1
    <3> QED
      BY <1>2, <2>1, <3>2
  <2> QED
    BY <2>2, <2>3
<1>8. CallsSound'
  BY <1>7 DEF CallsSound
<1>9. UnitsQuiet'
  BY <1>2 DEF DataInv, UnitsQuiet
<1>10. UNCHANGED << requests, answers >>
  BY <1>2 DEF requests, answers
<1> QED
  BY <1>6, <1>8, <1>9, <1>10 DEF DataInv, SerialStep

\* The entry of a read or write is the asking.
LEMMA EntersSound ==
  ASSUME DInv, DataInv, InTask, Idle, NEW d \in Dev, NEW op \in {"read", "write", "exec"},
         NEW start \in Start, NEW size \in Size \cup {1}, Enters(d, op, start, size),
         op = "exec" => size = 1, d = "adca" => op = "read" /\ size = 1
  PROVE  DataInv' /\ SerialStep
<1>1. PICK t \in Task : t = cur_task
  BY CallerIsReady DEF DInv, SInv
<1>2. call[t].pc = "none" /\ size \in Nat
  BY <1>1, DeviceAssumption DEF Idle
<1> DEFINE c == [pc |-> "locked", dd |-> d, op |-> op, start |-> start, size |-> size,
                 state |-> "I2C_STS_START", err |-> "E_OK"]
           b == [i \in 1 .. size |-> NULL]
<1>3. /\ call' = [call EXCEPT ![t] = c] /\ buf' = [buf EXCEPT ![t] = b]
      /\ UNCHANGED << dev_tbl, ll_devcb, result, unit >>
  BY <1>1 DEF Enters
<1>4. /\ c \in Call /\ c.pc = "locked" /\ c.dd = d /\ c.op = op /\ c.start = start /\ c.size = size
      /\ c.err = "E_OK"
  BY <1>2 DEF Call, Error
<1>5. b \in Buffer /\ Len(b) = size
  BY <1>2 DEF Buffer
<1> HIDE DEF c, b
<1>6. /\ call \in [Task -> Call] /\ buf \in [Task -> Buffer] /\ result \in [Task -> Result \cup {NULL}]
  BY DEF DataInv, DevTypeOK
<1>7. /\ call'[t] = c /\ buf'[t] = b
      /\ \A v \in Task \ {t} : call'[v] = call[v] /\ buf'[v] = buf[v]
  BY <1>3, <1>6
<1>8. result[t] = NULL
  BY <1>2 DEF DataInv, CallsSound, Sound, Asked
<1>9. DevTypeOK'
  BY <1>3, <1>4, <1>5 DEF DataInv, DevTypeOK
<1>10. Asked(c, b, NULL)
  BY <1>4, <1>5 DEF Asked, Transferring
<1>11. ASSUME NEW v \in Task
       PROVE  Sound(v, call'[v], ll_devcb'[call'[v].dd], unit'[call'[v].dd], buf'[v], result'[v])
  <2>1. CASE v = t
    <3>1. call'[v] = c /\ buf'[v] = b /\ result'[v] = NULL
      BY <1>3, <1>7, <1>8, <2>1
    <3> QED
      BY <1>4, <1>10, <3>1 DEF Sound, Transferring
  <2>2. CASE v # t
    BY <1>3, <1>7, <2>2 DEF DataInv, CallsSound
  <2> QED
    BY <2>1, <2>2
<1>12. CallsSound'
  BY <1>11 DEF CallsSound
<1>13. UnitsQuiet'
  <2>1. \A v \in Task : call[v].pc \in Busy => call'[v] = call[v]
    BY <1>2, <1>7 DEF Busy
  <2> QED
    BY <1>3, <2>1 DEF DataInv, UnitsQuiet
<1> DEFINE q == [op |-> op, start |-> start, size |-> size]
<1>14. q \in SerialDevice!Request
  BY DEF SerialDevice!Request
<1>15. requests[t] = NULL /\ answers[t] = NULL /\ requests'[t] = q
  BY <1>2, <1>3, <1>4, <1>7, <1>8 DEF requests, answers
<1>16. \A v \in Task \ {t} : requests'[v] = requests[v]
  BY <1>3, <1>7 DEF requests
<1> HIDE DEF q
<1>17. requests' = [requests EXCEPT ![t] = q]
  BY <1>15, <1>16 DEF requests
<1>18. answers' = answers
  BY <1>3, <1>7, <1>8 DEF answers
<1>19. SerialDevice!Ask(t, q)
  BY <1>15, <1>17, <1>18 DEF SerialDevice!Ask, requests, answers
<1> QED
  BY <1>9, <1>12, <1>13, <1>14, <1>19 DEF DataInv, SerialStep, SerialDevice!Next

LEMMA ReadsAndWritesSound ==
  ASSUME DInv, DataInv, TaskReads \/ TaskWrites
  PROVE  DataInv' /\ SerialStep
<1>1. CASE TaskReads
  <2>1. PICK d \in Dev, start \in Start, size \in Size : tk_srea_dev(d, start, size)
    BY <1>1 DEF TaskReads
  <2>2. InTask /\ Idle
    BY <1>1 DEF TaskReads
  <2>3. CASE d \in I2C /\ Enters(d, "read", start, size)
    <3>1. d # "adca"
      BY <2>3 DEF I2C
    <3> QED
      BY <2>2, <2>3, <3>1, EntersSound
  <2>4. CASE d = "adca" /\ Enters(d, "read", start, 1)
    BY <2>2, <2>4, EntersSound
  <2> QED
    BY <2>1, <2>3, <2>4 DEF tk_srea_dev
<1>2. CASE TaskWrites
  <2>1. PICK d \in Dev, start \in Start, size \in Size : tk_swri_dev(d, start, size)
    BY <1>2 DEF TaskWrites
  <2>2. InTask /\ Idle
    BY <1>2 DEF TaskWrites
  <2>3. d # "adca"
    BY <2>1 DEF tk_swri_dev, DInv, CallInv
  <2>4. CASE Enters(d, "write", start, size)
    BY <2>2, <2>3, <2>4, EntersSound
  <2>5. CASE Enters(d, "exec", start, 1)
    BY <2>2, <2>3, <2>5, EntersSound
  <2> QED
    BY <2>1, <2>4, <2>5 DEF tk_swri_dev
<1> QED
  BY <1>1, <1>2

\* The unlock is the return.
LEMMA UnlockSound ==
  ASSUME DInv, DataInv, Unlock
  PROVE  DataInv' /\ SerialStep
<1>1. PICK t \in Task : t = cur_task
  BY CallerIsReady DEF DInv, SInv, Unlock, At
<1>2. /\ call[t].pc = "unlock"
      /\ call' = [call EXCEPT ![t] = NoCall] /\ buf' = [buf EXCEPT ![t] = << >>]
      /\ result' = [result EXCEPT ![t] = NULL]
      /\ UNCHANGED << dev_tbl, ll_devcb, unit >>
  BY <1>1 DEF Unlock, At
<1>3. /\ call \in [Task -> Call] /\ buf \in [Task -> Buffer] /\ result \in [Task -> Result \cup {NULL}]
  BY DEF DataInv, DevTypeOK
<1>4. NoCall \in Call /\ NoCall.pc = "none" /\ << >> \in Buffer
  BY DEF NoCall, Call, Buffer, Error
<1>5. /\ call'[t] = NoCall /\ result'[t] = NULL
      /\ \A v \in Task \ {t} : call'[v] = call[v] /\ buf'[v] = buf[v] /\ result'[v] = result[v]
  BY <1>2, <1>3
<1>6. DevTypeOK'
  <2> DEFINE none == << >>
  <2>1. none \in Buffer /\ buf' = [buf EXCEPT ![t] = none]
    BY <1>2, <1>4
  <2> HIDE DEF none
  <2>2. buf' \in [Task -> Buffer]
    BY <1>3, <2>1
  <2>3. call' \in [Task -> Call]
    BY <1>2, <1>3, <1>4
  <2>4. result' \in [Task -> Result \cup {NULL}]
    BY <1>2, <1>3
  <2> QED
    BY <1>2, <2>2, <2>3, <2>4 DEF DataInv, DevTypeOK
<1>7. ASSUME NEW v \in Task
      PROVE  Sound(v, call'[v], ll_devcb'[call'[v].dd], unit'[call'[v].dd], buf'[v], result'[v])
  <2>1. CASE v = t
    BY <1>4, <1>5, <2>1 DEF Sound, Asked, Transferring
  <2>2. CASE v # t
    BY <1>2, <1>5, <2>2 DEF DataInv, CallsSound
  <2> QED
    BY <2>1, <2>2
<1>8. CallsSound'
  BY <1>7 DEF CallsSound
<1>9. UnitsQuiet'
  <2>1. \A v \in Task : call[v].pc \in Busy => call'[v] = call[v]
    BY <1>2, <1>5 DEF Busy
  <2> QED
    BY <1>2, <2>1 DEF DataInv, UnitsQuiet
<1>10. result[t] \in Result /\ result[t] # NULL
  BY <1>2, <1>3 DEF DataInv, CallsSound, Sound, Asked
<1>11. answers[t] # NULL
  <2> DEFINE a == [err |-> result[t].err, sent |-> result[t].sent, got |-> buf[t]]
  <2>1. a \in [err : Error, sent : Seq(Place), got : Buffer]
    BY <1>3, <1>10 DEF Result
  <2>2. answers[t] = a
    BY <1>10 DEF answers
  <2> QED
    BY <2>1, <2>2, NullIsNoRecord
<1>12. answers'[t] = NULL /\ \A v \in Task \ {t} : answers'[v] = answers[v]
  BY <1>5 DEF answers
<1>13. answers' = [answers EXCEPT ![t] = NULL]
  BY <1>12 DEF answers
<1>14. requests' = requests
  BY <1>4, <1>5, <1>10 DEF requests
<1>15. SerialDevice!Return(t)
  BY <1>11, <1>13, <1>14 DEF SerialDevice!Return, requests, answers
<1> QED
  BY <1>6, <1>8, <1>9, <1>15 DEF DataInv, SerialStep, SerialDevice!Next

LEMMA DevNextSound ==
  DInv /\ DataInv /\ [DevNext]_alldevvars => DataInv' /\ SerialStep
<1> SUFFICES ASSUME DInv, DataInv, [DevNext]_alldevvars PROVE DataInv' /\ SerialStep
  OBVIOUS
<1>1. CASE UNCHANGED << devvars, unit >>
  <2>1. UNCHANGED << dev_tbl, ll_devcb, call, buf, result, unit >>
    BY <1>1 DEF devvars
  <2>2. DevTypeOK' /\ CallsSound' /\ UnitsQuiet'
    BY <2>1 DEF DataInv, DevTypeOK, CallsSound, UnitsQuiet
  <2>3. UNCHANGED << requests, answers >>
    BY <2>1 DEF requests, answers
  <2> QED
    BY <2>2, <2>3 DEF DataInv, SerialStep
<1>2. CASE DevKernelStep \/ UNCHANGED alldevvars
  BY <1>1, <1>2 DEF DevKernelStep, alldevvars
<1> QED
  BY <1>2, OpensSound, ReadsAndWritesSound, DriverSound, UnlockSound, HardwareSound
     DEF DevNext, DriverStep

LEMMA DevInitSound == DevInit => DataInv /\ SerialDevice!Init
<1> SUFFICES ASSUME DevInit PROVE DataInv /\ SerialDevice!Init
  OBVIOUS
<1>1. /\ call = [t \in Task |-> NoCall] /\ buf = [t \in Task |-> << >>] /\ result = [t \in Task |-> NULL]
      /\ NoCall \in Call /\ NoCall.pc = "none" /\ << >> \in Buffer
  BY DEF DevInit, NoCall, Call, Buffer, Error
<1>2. DevTypeOK
  <2>1. dev_tbl \in [Dev -> [omode : SUBSET {"TD_READ", "TD_WRITE"}, opncnt : 0 .. 1]]
    BY DEF DevInit
  <2>2. ll_devcb \in [Dev -> Block]
    BY DEF DevInit, Block
  <2>3. unit \in [Dev -> Unit]
    BY DEF DevInit, Unit
  <2>4. call \in [Task -> Call] /\ result \in [Task -> Result \cup {NULL}] /\ buf \in [Task -> Buffer]
    BY <1>1
  <2> QED
    BY <2>1, <2>2, <2>3, <2>4 DEF DevTypeOK
<1>3. CallsSound
  <2>1. \A t \in Task : call[t].pc = "none" /\ result[t] = NULL
    BY <1>1
  <2> QED
    BY <2>1 DEF CallsSound, Sound, Asked, Transferring
<1>4. UnitsQuiet
  BY DEF DevInit, UnitsQuiet, Quiet
<1>5. SerialDevice!Init
  BY <1>1 DEF SerialDevice!Init
<1> QED
  BY <1>2, <1>3, <1>4, <1>5 DEF DataInv

\* What a call has done so far is right at every step, whoever preempts it
\* (i2c_rp2040.c:107-242, adc_rp2040.c:71-98).
THEOREM DataInvariance == DevSpec => []DataInv
<1>1. DInv /\ DataInv /\ [DevNext]_alldevvars => DataInv'
  BY DevNextSound
<1>2. DevInit => DataInv
  BY DevInitSound
<1> QED
  BY <1>1, <1>2, DevInvariance, PTL DEF DevSpec

\* The control blocks, the calls and the hardware hold what they should
\* (device.c:17-70, i2c_rp2040.c:43-65).
THEOREM DevTyping == DevSpec => []DevTypeOK
<1>1. DataInv => DevTypeOK
  BY DEF DataInv
<1> QED
  BY <1>1, DataInvariance, PTL

\* Transfers that interleave byte by byte on the processor are to their callers
\* as if served one by one: a read that returns E_OK has the bytes of its own
\* slave or channel, and what a write sends is its own, in order
\* (i2c_rp2040.c:107-183, adc_rp2040.c:71-98).
THEOREM DevicesAreSerial == DevSpec => IsSerialDevice
<1>1. DInv /\ DataInv /\ [DevNext]_alldevvars => SerialStep
  BY DevNextSound
<1>2. SerialStep => [SerialDevice!Next]_<< requests, answers >>
  BY DEF SerialStep
<1>3. DevInit => SerialDevice!Init
  BY DevInitSound
<1>4. IsSerialDevice <=> SerialDevice!Init /\ [][SerialDevice!Next]_<< requests, answers >>
  BY DEF IsSerialDevice, SerialDevice!Spec, requests, answers
<1> QED
  BY <1>1, <1>2, <1>3, <1>4, DevInvariance, DataInvariance, PTL DEF DevSpec
=============================================================================
