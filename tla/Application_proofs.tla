------------------------- MODULE Application_proofs -------------------------
(***************************************************************************)
(* Proofs about Application, for every number of tasks and buffers, every  *)
(* depth of the buffer and all times that keep the sensor's promise.  The  *)
(* program's steps are steps of MessageBuffer, so what is proved there     *)
(* holds here; AppInv adds what the tasks' functions and the echo have to  *)
(* do with the states of the tasks.                                        *)
(***************************************************************************)
EXTENDS Application, MessageBuffer_proofs

USE DEF tskid_ini, tskid_sns, tskid_led, mbfid

\* A task that is started and has not ended.
Alive(t) == state[t] \in {"TS_READY", "TS_WAIT"}

NoneBut(S) == \A t \in Task \ S : state[t] = "TS_NONEXIST"

\* Where the functions of the tasks may be.
PlacesInv ==
  /\ pc \in [Task -> {"none", "cre_mbf", "cre_sns", "sta_sns", "cre_led", "sta_led", "slp", "ext",
                      "def_int", "enable", "trig", "disable", "snd", "dly",
                      "led_off", "rcv", "show"}]
  /\ pc[tskid_ini] \in {"cre_mbf", "cre_sns", "sta_sns", "cre_led", "sta_led", "slp", "ext"}
  /\ pc[tskid_sns] \in {"none", "def_int", "enable", "trig", "slp", "disable", "snd", "dly"}
  /\ pc[tskid_led] \in {"none", "led_off", "rcv", "show"}

\* usermain creates and starts the tasks in order, and nobody runs before it
\* sleeps, for its task has the highest priority.
UsermainInv ==
  /\ thread = "main_sta" => state[tskid_ini] = "TS_DORMANT"
  /\ thread \in {"main_cre", "main_sta"} => pc[tskid_ini] = "cre_mbf"
  /\ thread \notin {"main_cre", "main_sta"} /\ pc[tskid_ini] # "ext" => state[tskid_ini] = "TS_READY"
  /\ pc[tskid_ini] = "ext" => Alive(tskid_ini)
  /\ pc[tskid_ini] \in {"cre_mbf", "cre_sns"} => NoneBut({tskid_ini})
  /\ pc[tskid_ini] \in {"sta_sns", "cre_led"} => NoneBut({tskid_ini, tskid_sns})
  /\ NoneBut({tskid_ini, tskid_sns, tskid_led})
  /\ pc[tskid_ini] = "sta_sns" => state[tskid_sns] = "TS_DORMANT"
  /\ pc[tskid_ini] \in {"cre_led", "sta_led", "slp", "ext"} => Alive(tskid_sns)
  /\ pc[tskid_ini] = "sta_led" => state[tskid_led] = "TS_DORMANT"
  /\ pc[tskid_ini] \in {"slp", "ext"} => Alive(tskid_led)
  /\ \A t \in {tskid_sns, tskid_led} : state[t] # "TS_NONEXIST" => itskpri[t] = PriApp
  /\ pc[tskid_ini] \in {"cre_mbf", "cre_sns"} <=> pc[tskid_sns] = "none"
  /\ pc[tskid_ini] \in {"cre_mbf", "cre_sns", "sta_sns", "cre_led"} <=> pc[tskid_led] = "none"
  /\ pc[tskid_ini] = "sta_sns" => pc[tskid_sns] = "def_int"
  /\ pc[tskid_ini] = "sta_led" => pc[tskid_led] = "led_off"
  /\ pc[tskid_ini] = "cre_mbf" <=> ~Exists(mbfid)

\* Who waits for what.
WaitsInv ==
  /\ state[tskid_sns] = "TS_WAIT" =>
       << pc[tskid_sns], waifct[tskid_sns] >> \in {<< "disable", "TWFCT_SLP" >>, << "enable", "TWFCT_DLY" >>}
  /\ state[tskid_led] = "TS_WAIT" =>
       pc[tskid_led] = "show" /\ WaitsFor(tskid_led, "TWFCT_MBFR", mbfid)
  /\ \A t \in Task : waifct[t] # "TWFCT_MBFS"
  /\ \A t \in Task \ {tskid_led} : waifct[t] # "TWFCT_MBFR"
  /\ \A t \in Task \ {tskid_sns} : wupcnt[t] = 0

\* The buffer holds a distance only while the sensor task cannot come to send
\* the next one: it has its pause before it, or the LED task is before it.
BufferInv ==
  Exists(mbfid) =>
    LET cb == mbfcb[mbfid]
    IN  /\ cb.bufsz = cmbf.bufsz
        /\ \/ cb.freesz = cb.bufsz
           \/ /\ cb.freesz = cb.bufsz - (MSG_SZ + 1)
              /\ state[tskid_led] = "TS_READY"
              /\ \/ pc[tskid_sns] = "dly"
                 \/ state[tskid_sns] = "TS_WAIT"
                 \/ Before(ready_queue[PriApp], tskid_led, tskid_sns)

\* The last trigger's echo.
Fresh == tim1 = "now" /\ tim2 \in {NEAR, FAR}
Edges(high, low) == INTR["HIGH"] = high /\ INTR["LOW"] = low

\* The sensor task, between its trigger and the end of its sleep, has not been
\* woken and may still be.
Awaits ==
  /\ \/ pc[tskid_sns] = "slp"
     \/ pc[tskid_sns] = "disable" /\ state[tskid_sns] = "TS_WAIT"
  /\ wupcnt[tskid_sns] = 0

\* What of the echo has happened, and what the handler has seen of it.
Armed == echo.phase = "armed" /\ Edges("none", "none") /\ ~irq.pending
Rising == echo.phase = "high" /\ Edges("now", "none") /\ irq.pending
High == echo.phase = "high" /\ Edges("none", "none") /\ ~irq.pending /\ tim1 = "now"
Merged == echo.phase = "idle" /\ Edges("now", "now") /\ irq.pending
Falling == echo.phase = "idle" /\ Edges("none", "now") /\ irq.pending /\ tim1 = "now"
Over == echo.phase = "idle" /\ Edges("none", "none") /\ ~irq.pending

EchoInv ==
  /\ irq.enabled <=> pc[tskid_sns] \in {"trig", "slp", "disable"}
  /\ pc[tskid_sns] \notin {"none", "def_int"} => irq.vec = "hll_inthdr"
  /\ echo.of = "now" \/ echo.phase = "idle"
  /\ pc[tskid_sns] \notin {"slp", "disable"} => echo.phase = "idle"
  /\ pc[tskid_sns] = "trig" => Over
  /\ pc[tskid_sns] \in {"slp", "disable"} =>
       Over \/ (Awaits /\ (Armed \/ Rising \/ High \/ Merged \/ Falling))
  /\ wupcnt[tskid_sns] > 0 => wupcnt[tskid_sns] = 1 /\ pc[tskid_sns] = "slp" /\ Over /\ Fresh
  /\ pc[tskid_sns] \in {"disable", "snd"} /\ state[tskid_sns] = "TS_READY" /\ Woken => Fresh

\* The timer handler has the entry of t still before it.
Ahead(t) ==
  tick /\ \E i, j \in 1 .. Len(wait_queue) : i <= j /\ wait_queue[i] = scan /\ wait_queue[j] = t

\* The ticks since the trigger that the sleep counts; its time is up only after
\* those an echo may take.
Counted == IF Ahead(tskid_sns) THEN echo.ticks - 1 ELSE echo.ticks

TimeInv ==
  /\ echo.ticks \in Nat
  /\ Outstanding => echo.ticks <= EchoTicks
  /\ Outstanding /\ pc[tskid_sns] = "disable" /\ state[tskid_sns] = "TS_WAIT" =>
       waitim[tskid_sns] + Counted * TIMER_PERIOD >= SlpTmo + TIMER_PERIOD

AppInv == AppTypeOK /\ PlacesInv /\ UsermainInv /\ WaitsInv /\ BufferInv /\ EchoInv /\ TimeInv

-----------------------------------------------------------------------------
(***************************************************************************)
(* The arguments.                                                          *)
(***************************************************************************)
LEMMA Ids ==
  /\ tskid_ini \in Task /\ tskid_sns \in Task /\ tskid_led \in Task
  /\ mbfid \in Mbf /\ NULL \notin Task /\ CNF_MAX_TSKID \in Nat
<1>1. CNF_MAX_TSKID \in Nat /\ NULL \notin Task /\ CNF_MAX_MBFID \in Nat
  BY KernelAssumption, MessageBufferAssumption
<1>2. CNF_MAX_TSKID >= 3 /\ CNF_MAX_MBFID >= 1
  BY ApplicationAssumption
<1> QED
  BY <1>1, <1>2 DEF Task, Mbf

\* The distances are messages of one byte, and the buffer is slots of two.
LEMMA Distances == WholeMessages /\ MsgSz = 1 /\ SlotSz = 2 /\ cmbf.bufsz \in Nat /\ cmbf.bufsz >= 4
<1>1. \A m \in Msg : Len(m) = 1
  BY CallsAssumption
<1>2. Msg # {}
  BY CallsAssumption
<1>3. (CHOOSE m \in Msg : TRUE) \in Msg
  BY <1>2
<1>4. MsgSz = 1
  BY <1>1, <1>3 DEF MsgSz
<1>5. SlotSz = 2
  BY <1>4 DEF SlotSz
<1>6. cmbf.bufsz = 2 * MbfDepth /\ MbfDepth \in Nat /\ MbfDepth >= 2 /\ cmbf.bufsz <= UW_MAX
  BY ApplicationAssumption DEF cmbf, MSG_SZ
<1>7. IsSlot(cmbf.bufsz) /\ cmbf.bufsz >= 2 * SlotSz
  BY <1>5, <1>6 DEF IsSlot
<1>8. WholeMessages
  BY <1>1, <1>2, <1>4, <1>6, <1>7, CallsAssumption DEF WholeMessages
<1> QED
  BY <1>4, <1>5, <1>6, <1>8

-----------------------------------------------------------------------------
(***************************************************************************)
(* Who runs.                                                               *)
(***************************************************************************)

\* The running task is the first of its queue, and the two tasks of usermain
\* run only when it sleeps.
LEMMA Runs ==
  ASSUME AppInv, KInv, NEW t \in {tskid_ini, tskid_sns, tskid_led}, NEW l, At(t, l)
  PROVE  /\ t \in Task /\ cur_task = t /\ pc[t] = l /\ state[t] = "TS_READY" /\ InTask
         /\ ~tick /\ thread = "live"
         /\ t # tskid_ini => /\ pc[tskid_ini] = "ext"
                             /\ itskpri[t] = PriApp /\ PriApp \in Pri
                             /\ ready_queue[PriApp] # << >> /\ Head(ready_queue[PriApp]) = t
<1>1. t \in Task /\ cur_task = t /\ pc[t] = l /\ InTask /\ ~tick /\ thread = "live"
  BY Ids DEF At, InTask, Running
<1>2. TypeOK /\ QueuesMatchState /\ BootInv
  BY DEF KInv, Inv
<1>3. IsTop(t, ready_queue)
  BY <1>1, CallerIsTop DEF KInv
<1>4. /\ state[t] = "TS_READY" /\ itskpri[t] \in Scanned
      /\ ready_queue[itskpri[t]] # << >> /\ Head(ready_queue[itskpri[t]]) = t
  BY <1>1, <1>2, <1>3, TopHeadsItsQueue
<1>5. ASSUME t # tskid_ini
      PROVE  /\ pc[tskid_ini] = "ext"
             /\ itskpri[t] = PriApp /\ PriApp \in Pri
  <2>1. itskpri[t] = PriApp /\ PriApp \in 2 .. CNF_MAX_TSKPRI - 1 /\ CNF_MAX_TSKPRI \in Nat
    BY <1>4, <1>5, ApplicationAssumption, KernelAssumption DEF AppInv, UsermainInv
  <2>2. PriApp \in Pri /\ 1 \in Pri /\ 1 \in Scanned
    BY <2>1 DEF Pri, Scanned
  <2>3. PICK p \in Scanned : t = Head(ready_queue[p]) /\ ready_queue[p] # << >>
                             /\ \A q \in Scanned : q < p => ready_queue[q] = << >>
    BY <1>1, <1>3, Ids DEF IsTop
  <2>4. p \in Pri /\ p = PriApp
    <3>1. p \in Pri /\ p \in Int
      BY <2>1 DEF Scanned, Pri
    <3>2. ready_queue[p] \in Seq(Task)
      BY <1>2, <3>1 DEF TypeOK
    <3>3. 1 \in 1 .. Len(ready_queue[p]) /\ ready_queue[p][1] = t
      BY <2>3, <3>2
    <3> QED
      BY <1>2, <2>1, <3>1, <3>3 DEF QueuesMatchState, Lists
  <2>5. ready_queue[1] = << >>
    BY <2>1, <2>2, <2>3, <2>4
  <2>6. state[tskid_ini] # "TS_READY"
    BY <1>1, <1>2, <2>2, <2>5, Ids DEF QueuesMatchState, Lists, BootInv
  <2> QED
    BY <1>1, <2>1, <2>2, <2>6 DEF AppInv, UsermainInv
<1> QED
  BY <1>1, <1>4, <1>5

-----------------------------------------------------------------------------
(***************************************************************************)
(* The program's steps are steps of MessageBuffer.                         *)
(***************************************************************************)
LEMMA AppUsesMbf ==
  ASSUME AppTypeOK, [AppNext]_allappvars
  PROVE  [MbfNext]_allvars
<1>1. CASE UNCHANGED << vars, mbfvars >>
  BY <1>1 DEF allvars
<1>2. CASE AppKernelStep
  BY <1>2 DEF AppKernelStep, NoMbf, TimerStep, MbfNext, KernelStep, Next, TaskStep, TickStep
<1>3. CASE CreatesMbf
  BY <1>3, CallsAssumption DEF CreatesMbf, At, SameTask, MbfNext, TaskCreatesMbf
<1>4. ASSUME NEW l, NEW next, NEW new, NEW fun, Creates(l, next, new, fun) PROVE MbfNext
  BY <1>4, CallsAssumption DEF Creates, At, MbfNext, KernelStep, Next, TaskStep, TaskCreates
<1>5. ASSUME NEW l, NEW next, NEW t \in Task, Starts(l, next, t) PROVE MbfNext
  BY <1>5 DEF Starts, At, MbfNext, KernelStep, Next, TaskStep, TaskStarts
<1>6. ASSUME NEW tmout \in Tmo, InTask, Sleeps(tmout) PROVE MbfNext
  BY <1>6 DEF Sleeps, SameTask, NoMbf, MbfNext, KernelStep, Next, TaskStep, tk_slp_tsk
<1>7. CASE usermain
  BY <1>3, <1>4, <1>5, <1>6, <1>7, Ids, CallsAssumption DEF usermain, InitialSleeps, At
<1>8. CASE SensorSleeps
  BY <1>6, <1>8, CallsAssumption DEF SensorSleeps, At
<1>9. CASE Sends
  <2>1. << Distance >> \in Msg
    BY CallsAssumption DEF Distance, AppTypeOK
  <2>2. CASE Woken
    BY <1>9, <2>1, <2>2, Ids, CallsAssumption DEF Sends, At, SameTask, MbfNext, TaskSends
  <2>3. CASE ~Woken
    BY <1>1, <1>9, <2>3 DEF Sends, NoApi
  <2> QED
    BY <2>2, <2>3
<1>10. CASE Pauses
  <2>1. DlyTim > 0
    BY ApplicationAssumption
  <2> QED
    BY <1>10, <2>1, CallsAssumption
       DEF Pauses, At, SameTask, NoMbf, MbfNext, KernelStep, Next, TaskStep, tk_dly_tsk
<1>11. CASE Receives
  BY <1>11, Ids, CallsAssumption DEF Receives, At, SameTask, MbfNext, TaskReceives
<1>12. CASE echo_inthdr
  <2>1. CASE SeesLow
    BY <1>12, <2>1, Ids, CallsAssumption
       DEF echo_inthdr, SameTask, NoMbf, MbfNext, KernelStep, Next, HandlerStep, HandlerWakes
  <2>2. CASE ~SeesLow
    BY <1>1, <1>12, <2>2 DEF echo_inthdr, NoApi
  <2> QED
    BY <2>1, <2>2
<1>13. CASE DefInt \/ Enable \/ Trigger \/ Disable \/ LedOff \/ Show \/ sensor
  BY <1>1, <1>13 DEF DefInt, Enable, Trigger, Disable, LedOff, Show, sensor, NoApi
<1>14. CASE UNCHANGED allappvars
  BY <1>1, <1>14 DEF allappvars
<1> QED
  BY <1>2, <1>7, <1>8, <1>9, <1>10, <1>11, <1>12, <1>13, <1>14
     DEF AppNext, AppTask, tsk_sns, tsk_led

-----------------------------------------------------------------------------
(***************************************************************************)
(* What the calls do to the tasks.                                         *)
(***************************************************************************)

\* The tasks that a step neither starts, stops nor moves in their queue.
LEMMA Released ==
  ASSUME KInv, NEW t \in Task, release(t)
  PROVE  /\ state[t] = "TS_WAIT"
         /\ state' = [state EXCEPT ![t] = "TS_READY"]
         /\ waifct' = [waifct EXCEPT ![t] = "TWFCT_NON"]
         /\ ready_queue' = [ready_queue EXCEPT ![itskpri[t]] = Append(@, t)]
         /\ \E k \in 1 .. Len(wait_queue) :
              wait_queue[k] = t /\ wait_queue' = RemoveAt(wait_queue, k)
         /\ UNCHANGED << itskpri, wupcnt, waitim >>
<1>1. PICK k \in 1 .. Len(wait_queue) :
        wait_queue[k] = t /\ wait_queue' = RemoveAt(wait_queue, k)
  BY DEF release, tqueue_remove_entry
<1>2. state[t] = "TS_WAIT"
  BY <1>1 DEF KInv, Inv, QueuesMatchState, Lists
<1> QED
  BY <1>1, <1>2 DEF release, tqueue_add_entry

\* A task that joins a ready queue does so behind all the others.
LEMMA JoinsBehind ==
  ASSUME KInv, NEW t \in Task, state[t] # "TS_READY",
         ready_queue' = [ready_queue EXCEPT ![itskpri[t]] = Append(@, t)],
         NEW p \in Pri
  PROVE  /\ \A u, v : Before(ready_queue[p], u, v) => Before(ready_queue'[p], u, v)
         /\ \A u \in Task : state[u] = "TS_READY" /\ itskpri[u] = p /\ itskpri[t] = p =>
              Before(ready_queue'[p], u, t)
<1>1. ready_queue[p] \in Seq(Task) /\ itskpri[t] \in Pri /\ ready_queue \in [Pri -> Seq(Task)]
  BY DEF KInv, Inv, TypeOK
<1>2. CASE itskpri[t] # p
  <2>1. ready_queue'[p] = ready_queue[p]
    BY <1>1, <1>2
  <2> QED
    BY <2>1, <1>2
<1>3. CASE itskpri[t] = p
  <2> DEFINE s == ready_queue[p]
             r == ready_queue'[p]
  <2>1. r = Append(s, t)
    BY <1>1, <1>3
  <2>2. /\ Len(r) = Len(s) + 1 /\ Len(s) \in Nat
        /\ \A i \in 1 .. Len(s) : r[i] = s[i]
        /\ r[Len(s) + 1] = t
    BY <1>1, <2>1, AppendIs
  <2>3. ASSUME NEW u \in Task, state[u] = "TS_READY", itskpri[u] = p
        PROVE  \E i \in 1 .. Len(s) : s[i] = u
    BY <2>3 DEF KInv, Inv, QueuesMatchState, Lists
  <2> HIDE DEF s, r
  <2>4. ASSUME NEW u, NEW v, Before(s, u, v)
        PROVE  Before(r, u, v)
    <3>1. PICK i, j \in 1 .. Len(s) : i < j /\ s[i] = u /\ s[j] = v
      BY <2>4 DEF Before
    <3>2. i \in 1 .. Len(r) /\ j \in 1 .. Len(r) /\ r[i] = u /\ r[j] = v
      BY <2>2, <3>1
    <3> QED
      BY <3>1, <3>2 DEF Before
  <2>5. ASSUME NEW u \in Task, state[u] = "TS_READY", itskpri[u] = p
        PROVE  Before(r, u, t)
    <3>1. PICK i \in 1 .. Len(s) : s[i] = u
      BY <2>3, <2>5
    <3>2. i \in 1 .. Len(r) /\ Len(s) + 1 \in 1 .. Len(r) /\ i < Len(s) + 1 /\ r[i] = u
      BY <2>2, <3>1
    <3> QED
      BY <2>2, <3>2 DEF Before
  <2> QED
    BY <2>4, <2>5 DEF s, r
<1> QED
  BY <1>2, <1>3

\* Nobody is before the head of a queue.
LEMMA NobodyBefore ==
  ASSUME KInv, NEW p \in Pri, ready_queue[p] # << >>, NEW u
  PROVE  ~Before(ready_queue[p], u, Head(ready_queue[p]))
<1> DEFINE s == ready_queue[p]
<1>1. s \in Seq(Task)
  BY DEF KInv, Inv, TypeOK
<1>2. 1 \in 1 .. Len(s) /\ Head(s) = s[1]
  BY <1>1
<1>3. \A i, j \in 1 .. Len(s) : s[i] = s[j] => i = j
  BY DEF KInv, Inv, QueuesMatchState, Lists
<1> HIDE DEF s
<1>4. ASSUME NEW i \in 1 .. Len(s), NEW j \in 1 .. Len(s), i < j, s[j] = Head(s)
      PROVE  FALSE
  <2>1. j = 1
    BY <1>2, <1>3, <1>4
  <2> QED
    BY <1>4, <2>1
<1> QED
  BY <1>4 DEF Before, s

\* A wait of the running task begins.
LEMMA Waited ==
  ASSUME KInv, InTask, NEW fct, NEW tim, enter_wait(fct, tim)
  PROVE  /\ cur_task \in Task /\ state[cur_task] = "TS_READY"
         /\ state' = [state EXCEPT ![cur_task] = "TS_WAIT"]
         /\ waifct' = [waifct EXCEPT ![cur_task] = fct]
         /\ waitim' = [waitim EXCEPT ![cur_task] = tim]
         /\ err' = [err EXCEPT ![cur_task] = "E_OK"]
         /\ UNCHANGED << itskpri, wupcnt >>
         /\ \A p \in Pri : p # itskpri[cur_task] => ready_queue'[p] = ready_queue[p]
<1>1. cur_task \in Task /\ IsTop(cur_task, ready_queue)
  BY CallerIsTop DEF KInv
<1>2. state[cur_task] = "TS_READY"
  BY <1>1, TopHeadsItsQueue DEF KInv, Inv
<1> QED
  BY <1>1, <1>2 DEF enter_wait, KInv, Inv, TypeOK

-----------------------------------------------------------------------------
(***************************************************************************)
(* Every step keeps the parts of AppInv: types, and where the functions    *)
(* are.                                                                    *)
(***************************************************************************)
LEMMA TypeNext == AppTypeOK /\ EchoInv /\ [AppNext]_allappvars => AppTypeOK'
<1> SUFFICES ASSUME AppTypeOK, EchoInv, [AppNext]_allappvars PROVE AppTypeOK'
  OBVIOUS
<1> USE DEF AppTypeOK
<1>1. CASE UNCHANGED << appvars, io >>
  BY <1>1 DEF appvars, io
<1>2. CASE AppKernelStep
  <2>1. UNCHANGED << appvars, irq, INTR >>
    BY <1>2 DEF AppKernelStep
  <2>2. CASE UNCHANGED echo
    BY <1>1, <2>1, <2>2 DEF io
  <2>3. CASE SysTick /\ (Outstanding => echo.ticks < EchoTicks)
             /\ echo' = [echo EXCEPT !.ticks = IF Outstanding THEN @ + 1 ELSE 0]
    <3>1. EchoTicks \in Nat /\ echo.ticks \in 0 .. EchoTicks
      BY ApplicationAssumption
    <3> DEFINE n == IF Outstanding THEN echo.ticks + 1 ELSE 0
    <3>2. n \in 0 .. EchoTicks
      BY <2>3, <3>1
    <3>3. echo' = [echo EXCEPT !.ticks = n]
      BY <2>3
    <3> HIDE DEF n
    <3> QED
      BY <2>1, <3>2, <3>3 DEF appvars
  <2> QED
    BY <1>2, <2>2, <2>3 DEF AppKernelStep, TimerStep
<1>3. CASE usermain
  BY <1>3 DEF usermain, CreatesMbf, Creates, Starts, InitialSleeps, io
<1>4. CASE tsk_sns
  <2>1. CASE DefInt \/ Enable \/ Disable
    <3>1. CASE Enable
      <4>1. irq.vec = "hll_inthdr"
        BY <3>1, Ids DEF Enable, At, EchoInv
      <4> QED
        BY <3>1, <4>1 DEF Enable, NoEdges
    <3> QED
      BY <2>1, <3>1 DEF DefInt, Disable
  <2>2. CASE Trigger
    <3>1. INTR' \in [{"HIGH", "LOW"} -> {"none", "now", "old"}]
      BY <2>2 DEF Trigger, Aged
    <3>2. echo' \in [phase : {"idle", "armed", "high"}, of : {"now", "old"}, ticks : 0 .. EchoTicks]
      BY <2>2, ApplicationAssumption DEF Trigger
    <3> QED
      BY <2>2, <3>1, <3>2 DEF Trigger
  <2>3. CASE SensorSleeps \/ Pauses
    BY <2>3 DEF SensorSleeps, Pauses, io
  <2>4. CASE Sends
    BY <2>4 DEF Sends, Distance, io
  <2> QED
    BY <1>4, <2>1, <2>2, <2>3, <2>4 DEF tsk_sns
<1>5. CASE tsk_led
  <2>1. CASE LedOff \/ Receives
    BY <2>1 DEF LedOff, Receives, io
  <2>2. CASE Show
    BY <2>2 DEF Show, io
  <2> QED
    BY <1>5, <2>1, <2>2 DEF tsk_led
<1>6. CASE echo_inthdr
  BY <1>6 DEF echo_inthdr, NoEdges
<1>7. CASE sensor
  <2>1. UNCHANGED << tim1, tim2, led, sent >>
    BY <1>7 DEF sensor, appvars
  <2>2. ASSUME NEW from, NEW edge \in {"HIGH", "LOW"}, NEW to \in {"idle", "armed", "high"},
               Edge(from, edge, to)
        PROVE  AppTypeOK'
    BY <2>1, <2>2 DEF Edge
  <2>3. CASE Silence
    BY <2>1, <2>3 DEF Silence
  <2> QED
    BY <1>7, <2>2, <2>3 DEF sensor
<1>8. CASE UNCHANGED allappvars
  BY <1>1, <1>8 DEF allappvars
<1> QED
  BY <1>2, <1>3, <1>4, <1>5, <1>6, <1>7, <1>8 DEF AppNext, AppTask

LEMMA PlacesNext == PlacesInv /\ [AppNext]_allappvars => PlacesInv'
<1> SUFFICES ASSUME PlacesInv, [AppNext]_allappvars PROVE PlacesInv'
  OBVIOUS
<1> USE Ids DEF PlacesInv
<1>1. CASE pc' = pc
  BY <1>1
<1>2. CASE usermain
  BY <1>2 DEF usermain, CreatesMbf, Creates, Starts, InitialSleeps, Goto
<1>3. CASE tsk_sns
  BY <1>3 DEF tsk_sns, DefInt, Enable, Trigger, SensorSleeps, Disable, Sends, Pauses, Goto
<1>4. CASE tsk_led
  BY <1>4 DEF tsk_led, LedOff, Receives, Show, Goto
<1> QED
  BY <1>1, <1>2, <1>3, <1>4
     DEF AppNext, AppTask, AppKernelStep, echo_inthdr, sensor, allappvars, appvars

-----------------------------------------------------------------------------
(***************************************************************************)
(* How the tasks come to be.                                               *)
(***************************************************************************)

\* Once usermain is over its tasks only wait and become ready again, and the
\* creation and starting of its tasks is not touched by anything else.
LEMMA StartKept ==
  ASSUME UsermainInv, PlacesInv, PlacesInv', pc'[tskid_ini] = pc[tskid_ini],
         thread' = thread, itskpri' = itskpri, Exists(mbfid)' <=> Exists(mbfid),
         \A t \in {tskid_sns, tskid_led} :
           \/ pc'[t] = pc[t]
           \/ pc[tskid_ini] = "ext" /\ pc[t] # "none" /\ pc'[t] # "none",
         \A t \in Task : state'[t] = state[t] \/ (Alive(t) /\ Alive(t)' /\ t # tskid_ini)
                         \/ (Alive(t) /\ Alive(t)' /\ pc[tskid_ini] = "ext"),
         thread \notin {"main_cre", "main_sta"} \/ state' = state
  PROVE  UsermainInv'
<1> USE Ids DEF Alive
<1>1. \A S : NoneBut(S) => NoneBut(S)'
  BY DEF NoneBut
<1> QED
  BY <1>1 DEF UsermainInv

-----------------------------------------------------------------------------
(***************************************************************************)
(* What becomes of the buffer.                                             *)
(***************************************************************************)

\* The sensor task runs only when the buffer is empty, but to begin its pause.
LEMMA SensorFindsItEmpty ==
  ASSUME AppInv, KInv, NEW l, At(tskid_sns, l), l # "dly", Exists(mbfid)
  PROVE  mbfcb[mbfid].bufsz = cmbf.bufsz /\ mbfcb[mbfid].freesz = cmbf.bufsz
<1>1. /\ pc[tskid_sns] = l /\ state[tskid_sns] = "TS_READY"
      /\ ready_queue[PriApp] # << >> /\ Head(ready_queue[PriApp]) = tskid_sns /\ PriApp \in Pri
  BY Runs
<1>2. ~Before(ready_queue[PriApp], tskid_led, tskid_sns)
  BY <1>1, NobodyBefore
<1> QED
  BY <1>1, <1>2 DEF AppInv, BufferInv

LEMMA SendIs ==
  ASSUME AppInv, MInv, At(tskid_sns, "snd"), Woken, tk_snd_mbf(mbfid, << Distance >>, SndTmo)
  PROVE  /\ Exists(mbfid) /\ Exists(mbfid)' /\ waiobj' = waiobj
         /\ mbfcb'[mbfid].bufsz = cmbf.bufsz
         /\ \/ /\ release(tskid_led) /\ err' = err
               /\ mbfcb'[mbfid].freesz = cmbf.bufsz
            \/ /\ UNCHANGED << tcb, queues >> /\ state[tskid_led] = "TS_READY"
               /\ mbfcb'[mbfid].freesz = cmbf.bufsz - (MSG_SZ + 1)
<1> DEFINE cb == mbfcb[mbfid]
           d == << Distance >>
           c == store_msg(cb, d)
<1>1. KInv /\ Exists(mbfid) /\ tskid_led \in Task /\ mbfid \in Mbf
  BY Ids DEF MInv, tk_snd_mbf
<1>2. WholeMessages /\ MsgSz = 1 /\ SlotSz = 2 /\ cmbf.bufsz \in Nat /\ cmbf.bufsz >= 4
  BY Distances
<1>3. cb \in Cb /\ RingInv(cb) /\ MsgSz \in Byte /\ mbfcb \in [Mbf -> Cb]
  BY <1>1 DEF MInv, RingsInv
<1>4. cb.bufsz = cmbf.bufsz /\ cb.freesz = cmbf.bufsz
  BY <1>1, SensorFindsItEmpty
<1>5. d \in Msg /\ Len(d) = MsgSz
  BY <1>2, CallsAssumption DEF Distance, AppInv, AppTypeOK
<1>6. HasRoom(cb, Len(d)) /\ cb.freesz >= 2 * SlotSz
  BY <1>2, <1>3, <1>4, <1>5, RoomIs
<1>7. /\ c \in Cb /\ RingInv(c) /\ c.state = cb.state /\ c.bufsz = cb.bufsz
      /\ c.freesz = cmbf.bufsz - SlotSz /\ c.buf_rp # c.buf_wp
  BY <1>2, <1>3, <1>4, <1>5, <1>6, StoreRing
<1>8. /\ Retrieved(c).state = c.state /\ Retrieved(c).bufsz = c.bufsz
      /\ Retrieved(c).freesz = cmbf.bufsz
  BY <1>2, <1>7, RetrieveRing
<1>13. cur_task = tskid_sns /\ err[cur_task] = "E_OK" /\ tskid_sns \in Task /\ err \in [Task -> {"E_OK", "E_TMOUT"}]
  BY <1>1, Ids DEF At, Woken, KInv, Inv, TypeOK
<1> HIDE DEF c
<1>9. waiobj' = waiobj
  BY <1>6 DEF tk_snd_mbf
<1>10. cb.state = "KS_EXIST"
  BY <1>1 DEF Exists
<1>11. ASSUME NEW t \in Task, FirstReceiver(t, mbfid), mbfcb' = [mbfcb EXCEPT ![mbfid] = Retrieved(c)],
              release(t), err' = [err EXCEPT ![waierr[t]] = "E_OK", ![cur_task] = "E_OK"]
       PROVE  /\ release(tskid_led) /\ err' = err /\ Exists(mbfid)'
              /\ mbfcb'[mbfid].bufsz = cmbf.bufsz /\ mbfcb'[mbfid].freesz = cmbf.bufsz
  <2>1. state[t] = "TS_WAIT" /\ waifct[t] = "TWFCT_MBFR"
    BY <1>11 DEF FirstReceiver, FirstWaiter, WaitsFor
  <2>2. t = tskid_led
    BY <2>1 DEF AppInv, WaitsInv
  <2>3. err' = err
    BY <1>1, <1>11, <1>13, <2>1, OwnResult
  <2>4. mbfcb'[mbfid] = Retrieved(c)
    BY <1>1, <1>3, <1>11
  <2> QED
    BY <1>4, <1>7, <1>8, <1>10, <1>11, <2>2, <2>3, <2>4 DEF Exists
<1>12. ASSUME \A t \in Task : ~FirstReceiver(t, mbfid), mbfcb' = [mbfcb EXCEPT ![mbfid] = c],
              returns_ok
       PROVE  /\ UNCHANGED << tcb, queues >> /\ state[tskid_led] = "TS_READY" /\ Exists(mbfid)'
              /\ mbfcb'[mbfid].bufsz = cmbf.bufsz
              /\ mbfcb'[mbfid].freesz = cmbf.bufsz - (MSG_SZ + 1)
  <2>1. state[tskid_led] # "TS_WAIT"
    BY <1>1, <1>12, SomebodyIsFirst DEF AppInv, WaitsInv, FirstReceiver, KInv, Inv
  <2>2. Alive(tskid_led)
    BY <1>1, Runs DEF AppInv, UsermainInv
  <2>3. mbfcb'[mbfid] = c
    BY <1>1, <1>3, <1>12
  <2>4. err' = err
    BY <1>12, <1>13 DEF returns_ok
  <2>5. UNCHANGED << tcb, queues >>
    BY <1>12, <2>4 DEF returns_ok, tcb
  <2> QED
    BY <1>2, <1>4, <1>7, <1>10, <2>1, <2>2, <2>3, <2>5 DEF Exists, Alive, MSG_SZ
<1> QED
  BY <1>1, <1>6, <1>9, <1>11, <1>12 DEF tk_snd_mbf, c

LEMMA ReceiveIs ==
  ASSUME AppInv, MInv, At(tskid_led, "rcv"), tk_rcv_mbf(mbfid, TMO_FEVR)
  PROVE  /\ Exists(mbfid) /\ Exists(mbfid)'
         /\ mbfcb'[mbfid].bufsz = cmbf.bufsz /\ mbfcb'[mbfid].freesz = cmbf.bufsz
         /\ \/ returns_ok /\ waiobj' = waiobj
            \/ /\ enter_wait("TWFCT_MBFR", WaitTim(TMO_FEVR))
               /\ waiobj' = [waiobj EXCEPT ![tskid_led] = mbfid]
<1> DEFINE cb == mbfcb[mbfid]
           c == Retrieved(cb)
<1>1. KInv /\ Exists(mbfid) /\ mbfid \in Mbf /\ cur_task = tskid_led
  BY Ids DEF MInv, tk_rcv_mbf, At
<1>2. WholeMessages /\ MsgSz = 1 /\ SlotSz = 2 /\ cmbf.bufsz \in Nat
  BY Distances
<1>3. cb \in Cb /\ RingInv(cb) /\ mbfcb \in [Mbf -> Cb] /\ cb.state = "KS_EXIST"
  BY <1>1 DEF MInv, RingsInv, Exists
<1>4. cb.bufsz = cmbf.bufsz /\ cb.freesz \in {cmbf.bufsz, cmbf.bufsz - 2}
  BY <1>1 DEF AppInv, BufferInv, MSG_SZ
<1>5. \A t \in Task : ~FirstSender(t, mbfid)
  BY DEF AppInv, WaitsInv, FirstSender, FirstWaiter, WaitsFor
<1>6. CASE cb.buf_rp # cb.buf_wp
  <2>1. c.state = cb.state /\ c.bufsz = cb.bufsz /\ c.freesz = cb.freesz + SlotSz
    BY <1>2, <1>3, <1>6, RetrieveRing
  <2>2. cb.freesz # cb.bufsz
    BY <1>2, <1>3, <1>6, RoomIs
  <2> HIDE DEF c
  <2>3. mbfcb' = [mbfcb EXCEPT ![mbfid] = c] /\ returns_ok /\ waiobj' = waiobj
    BY <1>5, <1>6 DEF tk_rcv_mbf, c
  <2>4. mbfcb'[mbfid] = c
    BY <1>1, <1>3, <2>3
  <2> QED
    BY <1>1, <1>2, <1>3, <1>4, <2>1, <2>2, <2>3, <2>4 DEF Exists
<1>7. CASE cb.buf_rp = cb.buf_wp
  <2>1. cb.freesz = cb.bufsz
    BY <1>2, <1>3, <1>7, RoomIs
  <2>2. mbfcb' = mbfcb /\ wait_for("TWFCT_MBFR", mbfid, TMO_FEVR)
    BY <1>7 DEF tk_rcv_mbf, wait_for
  <2> QED
    BY <1>1, <1>4, <2>1, <2>2 DEF wait_for, Exists
<1> QED
  BY <1>6, <1>7

\* A task that usermain creates is the next one of the table.
LEMMA CreatedIs ==
  ASSUME KInv, NEW n \in Task, \A u \in Task : u < n => state[u] # "TS_NONEXIST",
         state[n] = "TS_NONEXIST", NEW pri, tk_cre_tsk(pri)
  PROVE  /\ state' = [state EXCEPT ![n] = "TS_DORMANT"]
         /\ itskpri' = [itskpri EXCEPT ![n] = pri]
<1>1. PICK t \in Task :
        /\ state[t] = "TS_NONEXIST"
        /\ \A u \in Task : u < t => state[u] # "TS_NONEXIST"
        /\ state' = [state EXCEPT ![t] = "TS_DORMANT"]
        /\ itskpri' = [itskpri EXCEPT ![t] = pri]
  BY DEF tk_cre_tsk
<1>2. t = n
  BY <1>1 DEF Task
<1> QED
  BY <1>1, <1>2

\* The first buffer is the first of the table, and empty.
LEMMA CreatedMbf ==
  ASSUME MInv, ~Exists(mbfid), tk_cre_mbf(cmbf)
  PROVE  Exists(mbfid)' /\ mbfcb'[mbfid].bufsz = cmbf.bufsz /\ mbfcb'[mbfid].freesz = cmbf.bufsz
<1> DEFINE new == [state |-> "KS_EXIST", bufsz |-> cmbf.bufsz, freesz |-> cmbf.bufsz,
                   buf_rp |-> 0, buf_wp |-> 0, mem |-> [a \in 0 .. cmbf.bufsz |-> 0]]
<1>1. PICK m \in Mbf :
        /\ ~Exists(m)
        /\ \A n \in Mbf : n < m => Exists(n)
        /\ mbfcb' = [mbfcb EXCEPT ![m] = new]
  BY DEF tk_cre_mbf
<1>2. m = mbfid
  BY <1>1, Ids DEF Mbf
<1>3. new.state = "KS_EXIST" /\ new.bufsz = cmbf.bufsz /\ new.freesz = cmbf.bufsz
  OBVIOUS
<1> HIDE DEF new
<1>4. mbfcb'[mbfid] = new
  BY <1>1, <1>2, Ids DEF MInv, RingsInv
<1> QED
  BY <1>3, <1>4 DEF Exists

\* Nobody becomes the current task before main has started the initial task.
LEMMA StartDispatches ==
  ASSUME AppInv, KInv, DispatchStep, UNCHANGED << appvars, mbfvars >>
  PROVE  UsermainInv'
<1>1. UNCHANGED << state, itskpri >> /\ pc' = pc /\ Exists(mbfid)' = Exists(mbfid)
  BY DEF DispatchStep, PendSV, Dispatch, LeaveIdle, tcb, appvars, mbfvars, Exists
<1>2. CASE thread' = thread
  BY <1>1, <1>2 DEF AppInv, UsermainInv, NoneBut, Alive
<1>3. ASSUME thread' # thread
      PROVE  thread \notin {"main_cre", "main_sta"} /\ thread' \notin {"main_cre", "main_sta"}
  <2>1. ~tick /\ sche_task # NULL /\ sche_task \in Task
        /\ thread' \in {"none", "live", "exited", thread}
    BY <1>3 DEF DispatchStep, PendSV, Dispatch, LeaveIdle, SwitchTo, KInv, Inv, TypeOK
  <2>2. TypeOK /\ QueuesMatchState /\ IsTop(sche_task, ready_queue)
    BY <2>1 DEF KInv, Inv, SchedulerUpToDate
  <2>3. state[sche_task] = "TS_READY"
    BY <2>1, <2>2, TopHeadsItsQueue
  <2>4. thread \notin {"main_cre", "main_sta"}
    <3>1. thread # "main_cre"
      BY <2>1, <2>3 DEF KInv, Inv, BootInv
    <3>2. thread # "main_sta"
      BY <2>1, <2>3 DEF AppInv, UsermainInv, NoneBut
    <3> QED
      BY <3>1, <3>2
  <2> QED
    BY <1>3, <2>1, <2>4
<1> QED
  BY <1>1, <1>2, <1>3 DEF AppInv, UsermainInv, NoneBut, Alive

LEMMA StartNext ==
  ASSUME AppInv, MInv, AppNext, PlacesInv'
  PROVE  UsermainInv'
<1> USE Ids DEF AppInv
<1>1. KInv /\ MInv /\ TypeOK
  BY DEF MInv, KInv, Inv
<1>2. ASSUME thread' = thread, itskpri' = itskpri, state' = state, mbfcb' = mbfcb,
             pc'[tskid_ini] = pc[tskid_ini],
             \A t \in {tskid_sns, tskid_led} :
               \/ pc'[t] = pc[t]
               \/ pc[tskid_ini] = "ext" /\ pc[t] # "none" /\ pc'[t] # "none"
      PROVE  UsermainInv'
  BY <1>2, StartKept DEF Exists
<1>3. ASSUME NEW t \in Task, release(t), thread' = thread, thread \notin {"main_cre", "main_sta"},
             Exists(mbfid)' = Exists(mbfid), pc'[tskid_ini] = pc[tskid_ini],
             \A u \in {tskid_sns, tskid_led} :
               \/ pc'[u] = pc[u]
               \/ pc[tskid_ini] = "ext" /\ pc[u] # "none" /\ pc'[u] # "none"
      PROVE  UsermainInv'
  <2>1. state[t] = "TS_WAIT" /\ state' = [state EXCEPT ![t] = "TS_READY"] /\ itskpri' = itskpri
    BY <1>1, <1>3, Released
  <2>2. t = tskid_ini => pc[tskid_ini] = "ext"
    BY <1>3, <2>1 DEF UsermainInv
  <2> QED
    BY <1>1, <1>3, <2>1, <2>2, StartKept DEF Alive, TypeOK
<1>4. ASSUME InTask, thread' = thread, NEW fct, NEW tim, enter_wait(fct, tim), cur_task # tskid_ini,
             pc[tskid_ini] = "ext", Exists(mbfid)' = Exists(mbfid), pc'[tskid_ini] = "ext",
             \A u \in {tskid_sns, tskid_led} :
               \/ pc'[u] = pc[u]
               \/ pc[tskid_ini] = "ext" /\ pc[u] # "none" /\ pc'[u] # "none"
      PROVE  UsermainInv'
  <2>1. /\ cur_task \in Task /\ state[cur_task] = "TS_READY"
        /\ state' = [state EXCEPT ![cur_task] = "TS_WAIT"] /\ itskpri' = itskpri
    BY <1>1, <1>4, Waited
  <2> QED
    BY <1>1, <1>4, <2>1, StartKept DEF Alive, TypeOK, InTask
<1>5. CASE AppKernelStep
  <2>1. UNCHANGED << appvars, mbfvars >> /\ pc' = pc /\ mbfcb' = mbfcb
    BY <1>5 DEF AppKernelStep, NoMbf, mbfvars, appvars
  <2>2. CASE main
    <3>1. CASE thread = "main_cre" /\ thread' = "main_sta" /\ tk_cre_tsk(1)
      <4>1. \A t \in Task : state[t] = "TS_NONEXIST"
        BY <1>1, <3>1 DEF KInv, Inv, BootInv
      <4>2. \A u \in Task : ~(u < tskid_ini)
        BY DEF Task
      <4>3. state' = [state EXCEPT ![tskid_ini] = "TS_DORMANT"]
        BY <1>1, <3>1, <4>1, <4>2, CreatedIs
      <4> QED
        BY <1>1, <2>1, <3>1, <4>1, <4>3 DEF UsermainInv, NoneBut, Exists, TypeOK
    <3>2. CASE thread = "main_sta" /\ thread' = "main_end" /\ tk_sta_tsk(1)
      BY <1>1, <2>1, <3>2 DEF tk_sta_tsk, UsermainInv, NoneBut, Exists, TypeOK
    <3> QED
      BY <2>2, <3>1, <3>2 DEF main
  <2>3. CASE DispatchStep
    BY <1>1, <2>1, <2>3, StartDispatches
  <2>4. CASE SysTick \/ TickForever \/ TickCount \/ TickReturn
    <3>1. UNCHANGED << state, itskpri, thread >>
      BY <2>4 DEF SysTick, TickForever, TickCount, TickReturn, tcb, dispatcher
    <3> QED
      BY <1>2, <2>1, <3>1
  <2>5. CASE TickExpire
    <3>1. scan \in Task /\ release(scan) /\ thread' = thread
      BY <1>1, <2>5 DEF TickExpire, TypeOK, dispatcher
    <3>2. state[scan] = "TS_WAIT"
      BY <1>1, <3>1, Released
    <3>3. thread \notin {"main_cre", "main_sta"}
      <4>1. thread # "main_cre"
        BY <1>1, <3>1, <3>2 DEF KInv, Inv, BootInv
      <4> QED
        BY <3>1, <3>2, <4>1 DEF UsermainInv, NoneBut
    <3> QED
      BY <1>3, <2>1, <3>1, <3>3 DEF Exists
  <2> QED
    BY <1>5, <2>2, <2>3, <2>4, <2>5 DEF AppKernelStep, TimerStep
<1>6. CASE usermain
  <2> USE DEF Goto
  <2>1. CASE CreatesMbf
    <3>1. UNCHANGED << state, itskpri, thread >>
      BY <2>1 DEF CreatesMbf, SameTask, tk_cre_mbf, tcb, dispatcher
    <3>2. At(tskid_ini, "cre_mbf") /\ pc[tskid_ini] = "cre_mbf" /\ pc' = [pc EXCEPT ![tskid_ini] = "cre_sns"]
      BY <2>1 DEF CreatesMbf, At
    <3>3. state[tskid_ini] = "TS_READY" /\ thread = "live"
      BY <1>1, <3>2, Runs
    <3>4. Exists(mbfid)'
      BY <1>1, <2>1, <3>2, CreatedMbf DEF UsermainInv, CreatesMbf
    <3> QED
      BY <3>1, <3>2, <3>3, <3>4 DEF UsermainInv, NoneBut, PlacesInv
  <2>2. ASSUME NEW l, NEW next, NEW new \in {tskid_sns, tskid_led}, NEW fun, Creates(l, next, new, fun),
               << l, next, new, fun >> \in {<< "cre_sns", "sta_sns", tskid_sns, "def_int" >>,
                                            << "cre_led", "sta_led", tskid_led, "led_off" >>}
        PROVE  UsermainInv'
    <3>1. At(tskid_ini, l) /\ pc[tskid_ini] = l /\ tk_cre_tsk(PriApp) /\ thread' = thread /\ mbfcb' = mbfcb
          /\ pc' = [pc EXCEPT ![tskid_ini] = next, ![new] = fun]
      BY <2>2 DEF Creates, At, mbfvars
    <3>2. state[tskid_ini] = "TS_READY" /\ thread = "live"
      BY <1>1, <3>1, Runs
    <3>3. state[new] = "TS_NONEXIST" /\ \A u \in Task : u < new => state[u] # "TS_NONEXIST"
      BY <2>2, <3>1, <3>2 DEF UsermainInv, NoneBut, Task, Alive
    <3>4. state' = [state EXCEPT ![new] = "TS_DORMANT"] /\ itskpri' = [itskpri EXCEPT ![new] = PriApp]
      BY <1>1, <3>1, <3>3, CreatedIs
    <3> QED
      BY <1>1, <2>2, <3>1, <3>2, <3>3, <3>4 DEF UsermainInv, NoneBut, PlacesInv, TypeOK, Exists, Alive
  <2>3. ASSUME NEW l, NEW next, NEW t \in {tskid_sns, tskid_led}, Starts(l, next, t),
               << l, next, t >> \in {<< "sta_sns", "cre_led", tskid_sns >>, << "sta_led", "slp", tskid_led >>}
        PROVE  UsermainInv'
    <3>1. At(tskid_ini, l) /\ pc[tskid_ini] = l /\ tk_sta_tsk(t) /\ thread' = thread /\ mbfcb' = mbfcb
          /\ pc' = [pc EXCEPT ![tskid_ini] = next]
      BY <2>3 DEF Starts, At, mbfvars
    <3>2. state[tskid_ini] = "TS_READY" /\ thread = "live"
      BY <1>1, <3>1, Runs
    <3>3. state' = [state EXCEPT ![t] = "TS_READY"] /\ itskpri' = itskpri
      BY <3>1 DEF tk_sta_tsk
    <3> QED
      BY <1>1, <2>3, <3>1, <3>2, <3>3 DEF UsermainInv, NoneBut, PlacesInv, TypeOK, Exists, Alive
  <2>4. CASE InitialSleeps
    <3>1. /\ At(tskid_ini, "slp") /\ pc[tskid_ini] = "slp" /\ cur_task = tskid_ini /\ InTask
          /\ pc' = [pc EXCEPT ![tskid_ini] = "ext"]
          /\ thread' = thread /\ mbfcb' = mbfcb
      BY <2>4 DEF InitialSleeps, At, Sleeps, SameTask, NoMbf, dispatcher, mbfvars
    <3>2. state[tskid_ini] = "TS_READY" /\ thread = "live"
      BY <1>1, <3>1, Runs
    <3>3. itskpri' = itskpri /\ state' = [state EXCEPT ![tskid_ini] = state'[tskid_ini]] /\ Alive(tskid_ini)'
      <4>1. CASE UNCHANGED << state, itskpri >>
        BY <1>1, <4>1, <3>2 DEF TypeOK, Alive
      <4>2. ASSUME enter_wait("TWFCT_SLP", WaitTim(TMO_FEVR))
            PROVE  itskpri' = itskpri /\ state' = [state EXCEPT ![tskid_ini] = "TS_WAIT"]
        BY <1>1, <3>1, <4>2, Waited
      <4> QED
        BY <1>1, <2>4, <4>1, <4>2 DEF InitialSleeps, Sleeps, Alive, TypeOK
    <3> QED
      BY <1>1, <3>1, <3>2, <3>3 DEF UsermainInv, NoneBut, PlacesInv, TypeOK, Exists, Alive
  <2> QED
    BY <1>6, <2>1, <2>2, <2>3, <2>4 DEF usermain
<1>7. CASE tsk_sns
  <2>1. ASSUME NEW l, At(tskid_sns, l)
        PROVE  /\ cur_task = tskid_sns /\ InTask /\ pc[tskid_sns] = l
               /\ pc[tskid_ini] = "ext" /\ thread \notin {"main_cre", "main_sta"}
    BY <1>1, <2>1, Runs
  <2>2. PICK l, next : At(tskid_sns, l) /\ Goto(tskid_sns, next) /\ l # "none" /\ next # "none"
    BY <1>7 DEF tsk_sns, DefInt, Enable, Trigger, SensorSleeps, Disable, Sends, Pauses
  <2>3. /\ pc'[tskid_ini] = "ext" /\ pc[tskid_ini] = "ext"
        /\ cur_task = tskid_sns /\ InTask /\ thread \notin {"main_cre", "main_sta"}
        /\ \A t \in {tskid_sns, tskid_led} :
             \/ pc'[t] = pc[t]
             \/ pc[tskid_ini] = "ext" /\ pc[t] # "none" /\ pc'[t] # "none"
    BY <2>1, <2>2 DEF Goto, PlacesInv
  <2>4. CASE DefInt \/ Enable \/ Trigger \/ Disable
    BY <1>2, <2>3, <2>4 DEF DefInt, Enable, Trigger, Disable, NoApi, vars, tcb, dispatcher, mbfvars
  <2>5. CASE SensorSleeps
    <3>1. thread' = thread /\ mbfcb' = mbfcb
      BY <2>5 DEF SensorSleeps, Sleeps, SameTask, NoMbf, dispatcher, mbfvars
    <3> QED
      BY <1>2, <1>4, <2>3, <2>5, <3>1 DEF SensorSleeps, Sleeps, Exists
  <2>6. CASE Pauses
    BY <1>4, <2>3, <2>6 DEF Pauses, SameTask, NoMbf, dispatcher, mbfvars, Exists
  <2>7. CASE Sends
    <3>1. CASE ~Woken
      BY <1>2, <2>3, <2>7, <3>1 DEF Sends, NoApi, vars, tcb, dispatcher, mbfvars
    <3>2. CASE Woken
      <4>1. thread' = thread /\ tk_snd_mbf(mbfid, << Distance >>, SndTmo)
        BY <2>7, <3>2 DEF Sends, SameTask, dispatcher
      <4>2. At(tskid_sns, "snd")
        BY <2>7 DEF Sends
      <4>3. /\ Exists(mbfid) /\ Exists(mbfid)'
            /\ release(tskid_led) \/ UNCHANGED << tcb, queues >>
        BY <3>2, <4>1, <4>2, SendIs
      <4>4. CASE UNCHANGED << tcb, queues >>
        BY <2>3, <4>1, <4>3, <4>4, StartKept DEF tcb
      <4> QED
        BY <1>3, <2>3, <4>1, <4>3, <4>4
    <3> QED
      BY <3>1, <3>2
  <2> QED
    BY <1>7, <2>4, <2>5, <2>6, <2>7 DEF tsk_sns
<1>8. CASE tsk_led
  <2>1. ASSUME NEW l, At(tskid_led, l)
        PROVE  /\ cur_task = tskid_led /\ InTask /\ pc[tskid_led] = l
               /\ pc[tskid_ini] = "ext" /\ thread \notin {"main_cre", "main_sta"}
    BY <1>1, <2>1, Runs
  <2>2. PICK l, next : At(tskid_led, l) /\ Goto(tskid_led, next) /\ l # "none" /\ next # "none"
    BY <1>8 DEF tsk_led, LedOff, Receives, Show
  <2>3. /\ pc'[tskid_ini] = "ext" /\ pc[tskid_ini] = "ext"
        /\ cur_task = tskid_led /\ InTask /\ thread \notin {"main_cre", "main_sta"}
        /\ \A t \in {tskid_sns, tskid_led} :
             \/ pc'[t] = pc[t]
             \/ pc[tskid_ini] = "ext" /\ pc[t] # "none" /\ pc'[t] # "none"
    BY <2>1, <2>2 DEF Goto, PlacesInv
  <2>4. CASE LedOff \/ Show
    BY <1>2, <2>3, <2>4 DEF LedOff, Show, NoApi, vars, tcb, dispatcher, mbfvars
  <2>5. CASE Receives
    <3>1. thread' = thread /\ tk_rcv_mbf(mbfid, TMO_FEVR) /\ At(tskid_led, "rcv")
      BY <2>5 DEF Receives, SameTask, dispatcher
    <3>2. /\ Exists(mbfid) /\ Exists(mbfid)'
          /\ enter_wait("TWFCT_MBFR", WaitTim(TMO_FEVR)) \/ (returns_ok /\ waiobj' = waiobj)
      BY <3>1, ReceiveIs
    <3>3. CASE returns_ok /\ waiobj' = waiobj
      BY <2>3, <3>1, <3>2, <3>3, StartKept DEF returns_ok
    <3>4. Exists(mbfid)' = Exists(mbfid)
      BY <3>2 DEF Exists
    <3>5. cur_task # tskid_ini
      BY <2>3
    <3> QED
      BY <1>4, <2>3, <3>1, <3>2, <3>3, <3>4, <3>5
  <2> QED
    BY <1>8, <2>4, <2>5 DEF tsk_led
<1>9. CASE echo_inthdr
  <2>1. pc' = pc /\ mbfcb' = mbfcb /\ thread' = thread
    BY <1>9 DEF echo_inthdr, NoApi, vars, dispatcher, mbfvars, SameTask, NoMbf
  <2>2. CASE ~SeesLow
    BY <1>2, <1>9, <2>1, <2>2 DEF echo_inthdr, NoApi, vars, tcb
  <2>3. CASE SeesLow
    <3>1. tk_wup_tsk(tskid_sns) /\ thread \notin {"main_cre", "main_sta"}
      BY <1>9, <2>3 DEF echo_inthdr, InHandler
    <3>2. CASE UNCHANGED << state, itskpri >>
      BY <1>2, <2>1, <3>2
    <3> QED
      BY <1>3, <2>1, <3>1, <3>2 DEF tk_wup_tsk, Exists
  <2> QED
    BY <2>2, <2>3
<1>10. CASE sensor
  BY <1>2, <1>10 DEF sensor, NoApi, vars, tcb, dispatcher, mbfvars, appvars
<1> QED
  BY <1>5, <1>6, <1>7, <1>8, <1>9, <1>10 DEF AppNext, AppTask

-----------------------------------------------------------------------------
(***************************************************************************)
(* Who waits for what.                                                     *)
(***************************************************************************)

\* A step of a function is one of a task that runs, so that the tasks that wait
\* stay where they are.
LEMMA WaitersStayThere ==
  ASSUME AppInv, KInv, AppNext
  PROVE  \A t \in {tskid_sns, tskid_led} : state[t] = "TS_WAIT" => pc'[t] = pc[t]
<1> SUFFICES ASSUME NEW t \in {tskid_sns, tskid_led}, state[t] = "TS_WAIT" PROVE pc'[t] = pc[t]
  OBVIOUS
<1>1. ASSUME NEW u \in {tskid_ini, tskid_sns, tskid_led}, NEW l, At(u, l) PROVE t # u
  BY <1>1, Runs
<1> USE Ids DEF AppInv, PlacesInv
<1>2. CASE usermain
  <2>1. ASSUME NEW l, NEW next, NEW new, NEW fun, Creates(l, next, new, fun),
               (l = "cre_sns" /\ new = tskid_sns) \/ (l = "cre_led" /\ new = tskid_led)
        PROVE  pc'[t] = pc[t]
    <3>1. pc[tskid_ini] = l /\ pc' = [pc EXCEPT ![tskid_ini] = next, ![new] = fun]
      BY <2>1 DEF Creates, At
    <3>2. state[new] = "TS_NONEXIST" /\ new # tskid_ini
      BY <2>1, <3>1 DEF UsermainInv, NoneBut
    <3>3. t # new /\ t # tskid_ini
      BY <3>2
    <3> QED
      BY <3>1, <3>3
  <2>2. \/ \E l, next : At(tskid_ini, l) /\ Goto(tskid_ini, next)
        \/ Creates("cre_sns", "sta_sns", tskid_sns, "def_int")
        \/ Creates("cre_led", "sta_led", tskid_led, "led_off")
    BY <1>2 DEF usermain, CreatesMbf, Starts, InitialSleeps
  <2>3. CASE \E l, next : At(tskid_ini, l) /\ Goto(tskid_ini, next)
    BY <2>3 DEF Goto
  <2>4. CASE Creates("cre_sns", "sta_sns", tskid_sns, "def_int")
    BY <2>1, <2>4
  <2>5. CASE Creates("cre_led", "sta_led", tskid_led, "led_off")
    BY <2>1, <2>5
  <2> QED
    BY <2>2, <2>3, <2>4, <2>5
<1>3. CASE tsk_sns \/ tsk_led
  <2>1. PICK u \in {tskid_sns, tskid_led} : \E l, next : At(u, l) /\ Goto(u, next)
    BY <1>3 DEF tsk_sns, DefInt, Enable, Trigger, SensorSleeps, Disable, Sends, Pauses,
                tsk_led, LedOff, Receives, Show
  <2>2. t # u
    BY <1>1, <2>1
  <2> QED
    BY <2>1, <2>2 DEF Goto
<1>4. CASE pc' = pc
  BY <1>4
<1> QED
  BY <1>2, <1>3, <1>4 DEF AppNext, AppTask, AppKernelStep, echo_inthdr, sensor, appvars

LEMMA WaitsNext ==
  ASSUME AppInv, MInv, AppNext
  PROVE  WaitsInv'
<1>1. KInv /\ TypeOK
  BY DEF MInv, KInv, Inv
<1>2. \A t \in {tskid_sns, tskid_led} : state[t] = "TS_WAIT" => pc'[t] = pc[t]
  BY <1>1, WaitersStayThere
<1>3. waiobj \in [Task -> Mbf \cup {NULL}]
  BY DEF MInv, BoxesInv
<1> USE Ids DEF AppInv, WaitsInv
\* Steps that begin no wait.
<1>4. ASSUME waiobj' = waiobj,
             \A t \in Task : \/ state'[t] = state[t] /\ waifct'[t] = waifct[t]
                             \/ state'[t] # "TS_WAIT" /\ waifct'[t] \in {"TWFCT_NON", waifct[t]},
             \A t \in Task \ {tskid_sns} : wupcnt'[t] = wupcnt[t]
      PROVE  WaitsInv'
  BY <1>1, <1>2, <1>3, <1>4 DEF WaitsFor
<1>5. ASSUME NEW t \in Task, release(t), waiobj' = waiobj
      PROVE  WaitsInv'
  <2>1. /\ state' = [state EXCEPT ![t] = "TS_READY"] /\ wupcnt' = wupcnt
        /\ waifct' = [waifct EXCEPT ![t] = "TWFCT_NON"]
    BY <1>1, <1>5, Released
  <2> QED
    BY <1>1, <1>4, <1>5, <2>1 DEF TypeOK
<1>6. CASE UNCHANGED << state, waifct, wupcnt, waiobj >>
  BY <1>4, <1>6
<1>7. ASSUME NEW fct, NEW tim, InTask, enter_wait(fct, tim),
             \/ cur_task = tskid_ini /\ fct = "TWFCT_SLP" /\ waiobj' = waiobj
             \/ /\ cur_task = tskid_sns /\ waiobj' = waiobj
                /\ << pc'[tskid_sns], fct >> \in {<< "disable", "TWFCT_SLP" >>, << "enable", "TWFCT_DLY" >>}
             \/ /\ cur_task = tskid_led /\ pc'[tskid_led] = "show" /\ fct = "TWFCT_MBFR"
                /\ waiobj' = [waiobj EXCEPT ![tskid_led] = mbfid]
      PROVE  WaitsInv'
  <2>1. /\ state' = [state EXCEPT ![cur_task] = "TS_WAIT"] /\ wupcnt' = wupcnt
        /\ waifct' = [waifct EXCEPT ![cur_task] = fct]
    BY <1>1, <1>7, Waited
  <2>2. CASE cur_task = tskid_ini
    BY <1>1, <1>2, <1>3, <1>7, <2>1, <2>2 DEF TypeOK, WaitsFor
  <2>3. CASE cur_task = tskid_sns
    BY <1>1, <1>2, <1>3, <1>7, <2>1, <2>3 DEF TypeOK, WaitsFor
  <2>4. CASE cur_task = tskid_led
    BY <1>1, <1>2, <1>3, <1>7, <2>1, <2>4 DEF TypeOK, WaitsFor
  <2> QED
    BY <1>7, <2>2, <2>3, <2>4
<1>8. CASE AppKernelStep
  <2>1. waiobj' = waiobj
    BY <1>8 DEF AppKernelStep, NoMbf, mbfvars
  <2>2. CASE main
    <3>1. state[1] # "TS_WAIT" /\ thread \in {"main_cre", "main_sta"}
      BY <2>2, <1>1 DEF main, KInv, Inv, BootInv, tk_sta_tsk
    <3>2. \A t \in Task : state'[t] = state[t] \/ state'[t] # "TS_WAIT"
      BY <1>1, <2>2 DEF main, tk_cre_tsk, tk_sta_tsk, TypeOK
    <3> QED
      BY <1>4, <2>1, <2>2, <3>2 DEF main, tk_cre_tsk, tk_sta_tsk
  <2>3. CASE DispatchStep \/ SysTick \/ TickForever \/ TickCount \/ TickReturn
    BY <1>6, <2>1, <2>3
       DEF DispatchStep, PendSV, Dispatch, LeaveIdle, SysTick, TickForever, TickCount, TickReturn, tcb
  <2>4. CASE TickExpire
    BY <1>1, <1>5, <2>1, <2>4 DEF TickExpire, TypeOK
  <2> QED
    BY <1>8, <2>2, <2>3, <2>4 DEF AppKernelStep, TimerStep
<1>9. CASE usermain
  <2>1. CASE CreatesMbf
    BY <1>6, <2>1 DEF CreatesMbf, tk_cre_mbf, tcb
  <2>2. ASSUME tk_cre_tsk(PriApp), UNCHANGED mbfvars
        PROVE  WaitsInv'
    <3>1. \A t \in Task : state'[t] = state[t] \/ state'[t] # "TS_WAIT"
      BY <1>1, <2>2 DEF tk_cre_tsk, TypeOK
    <3> QED
      BY <1>4, <2>2, <3>1 DEF tk_cre_tsk, mbfvars
  <2>3. ASSUME NEW t \in Task, tk_sta_tsk(t), UNCHANGED mbfvars
        PROVE  WaitsInv'
    <3>1. \A u \in Task : state'[u] = state[u] \/ state'[u] # "TS_WAIT"
      BY <1>1, <2>3 DEF tk_sta_tsk, TypeOK
    <3> QED
      BY <1>4, <2>3, <3>1 DEF tk_sta_tsk, mbfvars
  <2>4. CASE InitialSleeps
    <3>1. cur_task = tskid_ini /\ InTask /\ waiobj' = waiobj
      BY <2>4 DEF InitialSleeps, At, Sleeps, NoMbf, mbfvars
    <3>2. wupcnt[cur_task] = 0
      BY <3>1
    <3> QED
      BY <1>7, <2>4, <3>1, <3>2, KernelAssumption DEF InitialSleeps, Sleeps
  <2> QED
    BY <1>9, <2>1, <2>2, <2>3, <2>4 DEF usermain, Creates, Starts
<1>10. CASE tsk_sns
  <2>1. CASE DefInt \/ Enable \/ Trigger \/ Disable
    BY <1>6, <2>1 DEF DefInt, Enable, Trigger, Disable, NoApi, vars, tcb, mbfvars
  <2>2. CASE SensorSleeps
    <3>1. /\ cur_task = tskid_sns /\ InTask /\ waiobj' = waiobj
          /\ pc'[tskid_sns] = "disable"
      BY <2>2 DEF SensorSleeps, At, Goto, Sleeps, NoMbf, mbfvars, PlacesInv
    <3>2. CASE UNCHANGED << state, waifct >> /\ wupcnt' = [wupcnt EXCEPT ![cur_task] = @ - 1]
      BY <1>1, <1>4, <3>1, <3>2 DEF TypeOK
    <3> QED
      BY <1>7, <2>2, <3>1, <3>2 DEF SensorSleeps, Sleeps
  <2>3. CASE Sends
    <3>1. CASE ~Woken
      BY <1>6, <2>3, <3>1 DEF Sends, NoApi, vars, tcb, mbfvars
    <3>2. CASE Woken
      <4>1. /\ waiobj' = waiobj
            /\ release(tskid_led) \/ UNCHANGED << tcb, queues >>
        BY <2>3, <3>2, SendIs DEF Sends
      <4>2. CASE UNCHANGED << tcb, queues >>
        BY <1>6, <4>1, <4>2 DEF tcb
      <4> QED
        BY <1>5, <4>1, <4>2
    <3> QED
      BY <3>1, <3>2
  <2>4. CASE Pauses
    <3>1. /\ cur_task = tskid_sns /\ InTask /\ waiobj' = waiobj
          /\ pc'[tskid_sns] = "enable"
      BY <2>4 DEF Pauses, At, Goto, NoMbf, mbfvars, PlacesInv
    <3> QED
      BY <1>7, <2>4, <3>1 DEF Pauses
  <2> QED
    BY <1>10, <2>1, <2>2, <2>3, <2>4 DEF tsk_sns
<1>11. CASE tsk_led
  <2>1. CASE LedOff \/ Show
    BY <1>6, <2>1 DEF LedOff, Show, NoApi, vars, tcb, mbfvars
  <2>2. CASE Receives
    <3>1. /\ cur_task = tskid_led /\ InTask /\ pc'[tskid_led] = "show"
      BY <2>2 DEF Receives, At, Goto, PlacesInv
    <3>2. \/ returns_ok /\ waiobj' = waiobj
          \/ /\ enter_wait("TWFCT_MBFR", WaitTim(TMO_FEVR))
             /\ waiobj' = [waiobj EXCEPT ![tskid_led] = mbfid]
      BY <2>2, ReceiveIs DEF Receives
    <3>3. CASE returns_ok /\ waiobj' = waiobj
      BY <1>6, <3>3 DEF returns_ok
    <3> QED
      BY <1>7, <3>1, <3>2, <3>3
  <2> QED
    BY <1>11, <2>1, <2>2 DEF tsk_led
<1>12. CASE echo_inthdr
  <2>1. waiobj' = waiobj
    BY <1>12 DEF echo_inthdr, NoApi, NoMbf, mbfvars
  <2>2. CASE ~SeesLow
    BY <1>6, <1>12, <2>1, <2>2 DEF echo_inthdr, NoApi, vars, tcb
  <2>3. CASE SeesLow
    <3>1. tk_wup_tsk(tskid_sns)
      BY <1>12, <2>3 DEF echo_inthdr
    <3>2. CASE UNCHANGED << state, waifct >> /\ wupcnt' = [wupcnt EXCEPT ![tskid_sns] = @ + 1]
      BY <1>1, <1>4, <2>1, <3>2 DEF TypeOK
    <3> QED
      BY <1>5, <2>1, <3>1, <3>2 DEF tk_wup_tsk
  <2> QED
    BY <2>2, <2>3
<1>13. CASE sensor
  BY <1>6, <1>13 DEF sensor, NoApi, vars, tcb, mbfvars
<1> QED
  BY <1>8, <1>9, <1>10, <1>11, <1>12, <1>13 DEF AppNext, AppTask

-----------------------------------------------------------------------------
(***************************************************************************)
(* The buffer.                                                             *)
(***************************************************************************)

\* The sensor task cannot come to send before the LED task has received.
LedFirst ==
  /\ state[tskid_led] = "TS_READY"
  /\ \/ pc[tskid_sns] = "dly"
     \/ state[tskid_sns] = "TS_WAIT"
     \/ Before(ready_queue[PriApp], tskid_led, tskid_sns)

LEMMA BufferKept ==
  ASSUME BufferInv, mbfcb' = mbfcb, LedFirst => LedFirst'
  PROVE  BufferInv'
  BY DEF BufferInv, LedFirst, Exists

LEMMA BufferEmpty ==
  ASSUME mbfcb'[mbfid].bufsz = cmbf.bufsz, mbfcb'[mbfid].freesz = cmbf.bufsz
  PROVE  BufferInv'
  BY DEF BufferInv, Exists

\* A task becomes ready.
LEMMA LedStaysFirst ==
  ASSUME AppInv, KInv, LedFirst, NEW t \in Task, state[t] # "TS_READY", itskpri' = itskpri, pc' = pc,
         state' = [state EXCEPT ![t] = "TS_READY"],
         ready_queue' = [ready_queue EXCEPT ![itskpri[t]] = Append(@, t)]
  PROVE  LedFirst'
<1>1. PriApp \in Pri
  BY ApplicationAssumption, KernelAssumption DEF Pri
<1>2. itskpri[tskid_led] = PriApp /\ state[tskid_led] = "TS_READY"
  BY Ids DEF AppInv, UsermainInv, LedFirst
<1>3. Before(ready_queue[PriApp], tskid_led, tskid_sns) => Before(ready_queue'[PriApp], tskid_led, tskid_sns)
  BY <1>1, JoinsBehind
<1>4. state'[tskid_led] = "TS_READY"
  BY <1>2, Ids DEF KInv, Inv, TypeOK
<1>5. CASE t = tskid_sns /\ state[tskid_sns] = "TS_WAIT"
  <2>1. itskpri[tskid_sns] = PriApp
    BY <1>5, Ids DEF AppInv, UsermainInv
  <2>2. Before(ready_queue'[PriApp], tskid_led, tskid_sns)
    BY <1>1, <1>2, <1>5, <2>1, Ids, JoinsBehind
  <2> QED
    BY <1>4, <2>2 DEF LedFirst
<1>6. CASE ~(t = tskid_sns /\ state[tskid_sns] = "TS_WAIT")
  <2>1. state[tskid_sns] = "TS_WAIT" => state'[tskid_sns] = "TS_WAIT"
    BY <1>6, Ids DEF KInv, Inv, TypeOK
  <2> QED
    BY <1>3, <1>4, <2>1 DEF LedFirst
<1> QED
  BY <1>5, <1>6

LEMMA BufferNext ==
  ASSUME AppInv, MInv, AppNext
  PROVE  BufferInv'
<1>1. KInv /\ TypeOK /\ BufferInv /\ PlacesInv /\ UsermainInv
  BY DEF AppInv, MInv, KInv, Inv
<1> USE Ids
<1>2. ASSUME UNCHANGED << mbfcb, state, ready_queue >>, pc'[tskid_sns] = pc[tskid_sns]
      PROVE  BufferInv'
  BY <1>1, <1>2, BufferKept DEF LedFirst
<1>3. ASSUME NEW t \in Task, release(t), mbfcb' = mbfcb, pc' = pc
      PROVE  BufferInv'
  <2>1. /\ state[t] = "TS_WAIT" /\ state' = [state EXCEPT ![t] = "TS_READY"]
        /\ ready_queue' = [ready_queue EXCEPT ![itskpri[t]] = Append(@, t)] /\ itskpri' = itskpri
    BY <1>1, <1>3, Released
  <2> QED
    BY <1>1, <1>3, <2>1, BufferKept, LedStaysFirst
<1>4. ASSUME NEW t \in Task, tk_sta_tsk(t), mbfcb' = mbfcb,
             pc'[tskid_sns] = pc[tskid_sns]
      PROVE  BufferInv'
  <2>1. PriApp \in Pri
    BY ApplicationAssumption, KernelAssumption DEF Pri
  <2>2. ASSUME LedFirst PROVE LedFirst'
    <3>1. /\ state[t] = "TS_DORMANT" /\ state' = [state EXCEPT ![t] = "TS_READY"]
          /\ ready_queue' = [ready_queue EXCEPT ![itskpri[t]] = Append(@, t)]
      BY <1>4 DEF tk_sta_tsk, tqueue_add_entry
    <3>2. Before(ready_queue[PriApp], tskid_led, tskid_sns) => Before(ready_queue'[PriApp], tskid_led, tskid_sns)
      BY <1>1, <2>1, <3>1, JoinsBehind
    <3> QED
      BY <1>1, <1>4, <2>2, <3>1, <3>2 DEF LedFirst, TypeOK
  <2> QED
    BY <1>1, <1>4, <2>2, BufferKept
<1>5. ASSUME NEW pri, tk_cre_tsk(pri), mbfcb' = mbfcb,
             pc'[tskid_sns] = pc[tskid_sns] \/ pc[tskid_sns] = "none"
      PROVE  BufferInv'
  <2>1. \A t \in Task : state[t] = "TS_NONEXIST" \/ state'[t] = state[t]
    BY <1>1, <1>5 DEF tk_cre_tsk, TypeOK
  <2>2. ready_queue' = ready_queue
    BY <1>5 DEF tk_cre_tsk, queues
  <2>3. LedFirst => LedFirst'
    BY <1>5, <2>1, <2>2 DEF LedFirst
  <2> QED
    BY <1>1, <1>5, <2>3, BufferKept
\* The sensor task runs.
<1>6. ASSUME NEW l, At(tskid_sns, l), l # "dly", mbfcb' = mbfcb
      PROVE  BufferInv'
  <2>1. CASE ~Exists(mbfid)
    BY <1>6, <2>1 DEF BufferInv, Exists
  <2>2. CASE Exists(mbfid)
    <3>1. mbfcb[mbfid].bufsz = cmbf.bufsz /\ mbfcb[mbfid].freesz = cmbf.bufsz
      BY <1>1, <1>6, <2>2, SensorFindsItEmpty
    <3> QED
      BY <1>6, <3>1, BufferEmpty
  <2> QED
    BY <2>1, <2>2
<1>7. CASE AppKernelStep
  <2>1. mbfcb' = mbfcb /\ pc' = pc
    BY <1>7 DEF AppKernelStep, NoMbf, mbfvars, appvars
  <2>2. CASE main
    BY <1>1, <1>4, <1>5, <2>1, <2>2 DEF main
  <2>3. CASE DispatchStep \/ SysTick \/ TickForever \/ TickCount \/ TickReturn
    BY <1>2, <2>1, <2>3
       DEF DispatchStep, PendSV, Dispatch, LeaveIdle, SysTick, TickForever, TickCount, TickReturn, tcb, queues
  <2>4. CASE TickExpire
    BY <1>1, <1>3, <2>1, <2>4 DEF TickExpire, TypeOK
  <2> QED
    BY <1>7, <2>2, <2>3, <2>4 DEF AppKernelStep, TimerStep
<1>8. CASE usermain
  <2>1. CASE CreatesMbf
    BY <1>1, <2>1, BufferEmpty, CreatedMbf DEF CreatesMbf, At, UsermainInv
  <2>2. ASSUME NEW l, NEW next, NEW new, NEW fun, Creates(l, next, new, fun),
               (l = "cre_sns" /\ new = tskid_sns) \/ (l = "cre_led" /\ new = tskid_led)
        PROVE  BufferInv'
    <3>1. /\ mbfcb' = mbfcb /\ tk_cre_tsk(PriApp)
          /\ pc[tskid_ini] = l /\ pc' = [pc EXCEPT ![tskid_ini] = next, ![new] = fun]
      BY <2>2 DEF Creates, At, mbfvars
    <3>2. pc'[tskid_sns] = pc[tskid_sns] \/ pc[tskid_sns] = "none"
      BY <1>1, <2>2, <3>1 DEF UsermainInv, PlacesInv
    <3> QED
      BY <1>5, <3>1, <3>2
  <2>3. ASSUME NEW l, NEW next, NEW t \in Task, Starts(l, next, t)
        PROVE  BufferInv'
    <3>1. mbfcb' = mbfcb /\ tk_sta_tsk(t) /\ pc'[tskid_sns] = pc[tskid_sns]
      BY <1>1, <2>3 DEF Starts, Goto, PlacesInv, mbfvars
    <3> QED
      BY <1>4, <3>1
  <2>4. CASE InitialSleeps
    <3>1. /\ cur_task = tskid_ini /\ InTask /\ mbfcb' = mbfcb /\ pc'[tskid_sns] = pc[tskid_sns]
      BY <1>1, <2>4 DEF InitialSleeps, At, Goto, Sleeps, NoMbf, mbfvars, PlacesInv
    <3>2. CASE UNCHANGED << state, ready_queue >>
      BY <1>2, <3>1, <3>2
    <3>3. CASE enter_wait("TWFCT_SLP", WaitTim(TMO_FEVR))
      <4>1. /\ state' = [state EXCEPT ![tskid_ini] = "TS_WAIT"]
            /\ \A p \in Pri : p # itskpri[tskid_ini] => ready_queue'[p] = ready_queue[p]
        BY <1>1, <3>1, <3>3, Waited
      <4>2. itskpri[tskid_ini] = 1 /\ PriApp \in Pri /\ PriApp # 1
        BY <1>1, <3>1, ApplicationAssumption, KernelAssumption DEF KInv, Inv, BootInv, InTask, Pri
      <4>3. ready_queue'[PriApp] = ready_queue[PriApp]
        BY <4>1, <4>2
      <4>4. LedFirst => LedFirst'
        BY <1>1, <3>1, <4>1, <4>3 DEF LedFirst, TypeOK
      <4> QED
        BY <1>1, <3>1, <4>4, BufferKept
    <3> QED
      BY <2>4, <3>2, <3>3 DEF InitialSleeps, Sleeps, queues
  <2> QED
    BY <1>8, <2>1, <2>2, <2>3, <2>4 DEF usermain
<1>9. CASE tsk_sns
  <2>1. CASE DefInt \/ Enable \/ Trigger \/ Disable
    BY <1>6, <2>1 DEF DefInt, Enable, Trigger, Disable, NoApi, mbfvars
  <2>2. CASE SensorSleeps
    BY <1>6, <2>2 DEF SensorSleeps, Sleeps, NoMbf, mbfvars
  <2>3. CASE Sends
    <3>1. At(tskid_sns, "snd") /\ pc'[tskid_sns] = "dly"
      BY <1>1, <2>3 DEF Sends, Goto, PlacesInv
    <3>2. CASE ~Woken
      BY <1>6, <2>3, <3>1, <3>2 DEF Sends, NoApi, mbfvars
    <3>3. CASE Woken
      <4>1. /\ mbfcb'[mbfid].bufsz = cmbf.bufsz
            /\ \/ mbfcb'[mbfid].freesz = cmbf.bufsz
               \/ /\ UNCHANGED << tcb, queues >> /\ state[tskid_led] = "TS_READY"
                  /\ mbfcb'[mbfid].freesz = cmbf.bufsz - (MSG_SZ + 1)
        BY <2>3, <3>1, <3>3, SendIs DEF Sends
      <4> QED
        BY <3>1, <4>1 DEF BufferInv, tcb
    <3> QED
      BY <3>2, <3>3
  <2>4. CASE Pauses
    <3>1. /\ cur_task = tskid_sns /\ InTask /\ mbfcb' = mbfcb /\ enter_wait("TWFCT_DLY", UW(DlyTim + TIMER_PERIOD))
      BY <2>4 DEF Pauses, At, NoMbf, mbfvars
    <3>2. state' = [state EXCEPT ![tskid_sns] = "TS_WAIT"]
      BY <1>1, <3>1, Waited
    <3>3. LedFirst => LedFirst'
      BY <1>1, <3>2 DEF LedFirst, TypeOK
    <3> QED
      BY <1>1, <3>1, <3>3, BufferKept
  <2> QED
    BY <1>9, <2>1, <2>2, <2>3, <2>4 DEF tsk_sns
<1>10. CASE tsk_led
  <2>1. CASE LedOff \/ Show
    BY <1>1, <1>2, <2>1 DEF LedOff, Show, NoApi, Goto, PlacesInv, vars, tcb, queues, mbfvars
  <2>2. CASE Receives
    BY <2>2, ReceiveIs, BufferEmpty DEF Receives
  <2> QED
    BY <1>10, <2>1, <2>2 DEF tsk_led
<1>11. CASE echo_inthdr
  <2>1. mbfcb' = mbfcb /\ pc' = pc
    BY <1>11 DEF echo_inthdr, NoApi, NoMbf, mbfvars
  <2>2. CASE UNCHANGED << state, ready_queue >>
    BY <1>2, <2>1, <2>2
  <2>3. CASE release(tskid_sns)
    BY <1>3, <2>1, <2>3
  <2> QED
    BY <1>11, <2>2, <2>3 DEF echo_inthdr, NoApi, tk_wup_tsk, vars, tcb, queues
<1>12. CASE sensor
  BY <1>2, <1>12 DEF sensor, NoApi, vars, tcb, queues, mbfvars, appvars
<1> QED
  BY <1>7, <1>8, <1>9, <1>10, <1>11, <1>12 DEF AppNext, AppTask

-----------------------------------------------------------------------------
(***************************************************************************)
(* The echo.                                                               *)
(***************************************************************************)

\* The sleep does not end by its limit while the echo is still to end.
LEMMA SleepOutlastsEcho ==
  ASSUME AppInv, KInv, TickExpire, scan = tskid_sns, pc[tskid_sns] = "disable"
  PROVE  ~Outstanding
<1> SUFFICES ASSUME Outstanding PROVE FALSE
  OBVIOUS
<1>1. /\ TIMER_PERIOD \in Nat /\ SlpTmo \in Nat /\ EchoTicks \in Nat
      /\ EchoTicks * TIMER_PERIOD < SlpTmo + TIMER_PERIOD
  BY KernelAssumption, ApplicationAssumption, SensorAssumption
<1>2. /\ tskid_sns \in Task /\ tick /\ release(tskid_sns)
      /\ waitim[tskid_sns] \in Nat /\ waitim[tskid_sns] <= TIMER_PERIOD
  BY Ids DEF TickExpire, KInv, Inv, TypeOK
<1>3. PICK k \in 1 .. Len(wait_queue) : wait_queue[k] = tskid_sns
  BY <1>2, Released
<1>4. state[tskid_sns] = "TS_WAIT" /\ Ahead(tskid_sns)
  BY <1>2, <1>3, Released DEF Ahead
<1>5. /\ echo.ticks \in Nat /\ echo.ticks <= EchoTicks
      /\ waitim[tskid_sns] + (echo.ticks - 1) * TIMER_PERIOD >= SlpTmo + TIMER_PERIOD
  BY <1>4 DEF AppInv, TimeInv, Counted
<1>6. echo.ticks * TIMER_PERIOD <= EchoTicks * TIMER_PERIOD
  BY <1>1, <1>5
<1>7. (echo.ticks - 1) * TIMER_PERIOD = echo.ticks * TIMER_PERIOD - TIMER_PERIOD
  BY <1>1, <1>5
<1> HIDE DEF tskid_sns
<1>8. echo.ticks * TIMER_PERIOD \in Nat /\ EchoTicks * TIMER_PERIOD \in Nat
  BY <1>1, <1>5
<1> DEFINE a == echo.ticks * TIMER_PERIOD
           b == EchoTicks * TIMER_PERIOD
           c == (echo.ticks - 1) * TIMER_PERIOD
           w == waitim[tskid_sns]
<1>9. a \in Nat /\ b \in Nat /\ a <= b /\ c = a - TIMER_PERIOD /\ w \in Nat /\ w <= TIMER_PERIOD
      /\ w + c >= SlpTmo + TIMER_PERIOD /\ b < SlpTmo + TIMER_PERIOD
  BY <1>1, <1>2, <1>5, <1>6, <1>7, <1>8
<1> HIDE DEF a, b, c, w
<1> QED
  BY <1>1, <1>9

\* Steps that have nothing to do with the echo.
LEMMA EchoKept ==
  ASSUME EchoInv, UNCHANGED << irq, INTR, tim1, tim2 >>,
         echo'.phase = echo.phase, echo'.of = echo.of,
         pc'[tskid_sns] = pc[tskid_sns] \/ (pc[tskid_sns] = "none" /\ pc'[tskid_sns] = "def_int"),
         wupcnt'[tskid_sns] = wupcnt[tskid_sns],
         pc[tskid_sns] \in {"slp", "disable", "snd"} =>
           state'[tskid_sns] = state[tskid_sns] /\ err'[tskid_sns] = err[tskid_sns]
  PROVE  EchoInv'
<1>1. /\ Over' = Over /\ Armed' = Armed /\ Rising' = Rising /\ High' = High
      /\ Merged' = Merged /\ Falling' = Falling /\ Fresh' = Fresh
  BY DEF Armed, Rising, High, Merged, Falling, Over, Edges, Fresh
<1> QED
  BY <1>1 DEF EchoInv, Awaits, Woken

\* The handler is only called for the edges of an echo that is awaited.
LEMMA HandlerFinds ==
  ASSUME AppInv, irq.enabled, irq.pending
  PROVE  /\ pc[tskid_sns] \in {"slp", "disable"} /\ Awaits
         /\ Rising \/ Merged \/ Falling
  BY DEF AppInv, EchoInv, Over, Armed, High

LEMMA EchoNext ==
  ASSUME AppInv, MInv, AppNext, PlacesInv'
  PROVE  EchoInv'
<1>1. KInv /\ TypeOK /\ EchoInv /\ PlacesInv /\ UsermainInv /\ WaitsInv /\ AppTypeOK
  BY DEF AppInv, MInv, KInv, Inv
<1> USE Ids
<1>2. ASSUME UNCHANGED << irq, INTR, tim1, tim2 >>, echo'.phase = echo.phase, echo'.of = echo.of,
             UNCHANGED << state, err, wupcnt >>, pc'[tskid_sns] = pc[tskid_sns]
      PROVE  EchoInv'
  BY <1>1, <1>2, EchoKept
<1>3. CASE AppKernelStep
  <2>1. pc' = pc /\ UNCHANGED << irq, INTR, tim1, tim2 >>
    BY <1>3 DEF AppKernelStep, appvars
  <2>2. CASE main /\ UNCHANGED echo
    <3>1. thread \in {"main_cre", "main_sta"} /\ UNCHANGED << wupcnt, err >>
      BY <2>2 DEF main, tk_cre_tsk, tk_sta_tsk
    <3>2. pc[tskid_sns] = "none"
      BY <1>1, <3>1 DEF UsermainInv
    <3> QED
      BY <1>1, <2>1, <2>2, <3>1, <3>2, EchoKept
  <2>3. CASE DispatchStep /\ UNCHANGED echo
    BY <1>2, <2>1, <2>3 DEF DispatchStep, PendSV, Dispatch, LeaveIdle, tcb
  <2>4. CASE SysTick /\ echo' = [echo EXCEPT !.ticks = IF Outstanding THEN @ + 1 ELSE 0]
    <3>1. echo'.phase = echo.phase /\ echo'.of = echo.of
      BY <1>1, <2>4 DEF AppTypeOK
    <3> QED
      BY <1>2, <2>1, <2>4, <3>1 DEF SysTick, tcb
  <2>5. CASE (TickForever \/ TickCount \/ TickReturn) /\ UNCHANGED echo
    BY <1>2, <2>1, <2>5 DEF TickForever, TickCount, TickReturn, tcb
  <2>6. CASE TickExpire /\ UNCHANGED echo
    <3>1. scan \in Task /\ release(scan)
      BY <1>1, <2>6 DEF TickExpire, TypeOK
    <3>2. state[scan] = "TS_WAIT" /\ state' = [state EXCEPT ![scan] = "TS_READY"] /\ wupcnt' = wupcnt
      BY <1>1, <3>1, Released
    <3>3. err' = [err EXCEPT ![scan] = TimeoutErr(waifct[scan])]
      BY <1>1, <2>6, <3>1, <3>2 DEF TickExpire, KInv, OwnFrame
    <3>4. CASE scan # tskid_sns \/ pc[tskid_sns] # "disable"
      <4>1. pc[tskid_sns] \in {"slp", "disable", "snd"} => scan # tskid_sns
        BY <1>1, <3>2, <3>4 DEF WaitsInv
      <4> QED
        BY <1>1, <2>1, <2>6, <3>2, <3>3, <4>1, EchoKept DEF TypeOK
    <3>5. CASE scan = tskid_sns /\ pc[tskid_sns] = "disable"
      <4>1. ~Outstanding
        BY <1>1, <2>6, <3>5, SleepOutlastsEcho
      <4>2. Over
        BY <1>1, <3>5, <4>1 DEF EchoInv, Outstanding, Armed, Rising, High, Merged, Falling
      <4>3. waifct[tskid_sns] = "TWFCT_SLP"
        BY <1>1, <3>2, <3>5 DEF WaitsInv
      <4>4. err'[tskid_sns] = "E_TMOUT"
        BY <1>1, <3>3, <3>5, <4>3 DEF TimeoutErr, TypeOK
      <4>5. ~Woken'
        BY <4>4 DEF Woken
      <4>6. Over'
        BY <2>1, <2>6, <4>2 DEF Over, Edges
      <4> QED
        BY <1>1, <2>1, <2>6, <3>2, <3>5, <4>5, <4>6 DEF EchoInv
    <3> QED
      BY <3>4, <3>5
  <2> QED
    BY <1>3, <2>2, <2>3, <2>4, <2>5, <2>6 DEF AppKernelStep, TimerStep
<1>4. CASE usermain
  <2>1. UNCHANGED << irq, INTR, echo, tim1, tim2 >>
    BY <1>4 DEF usermain, CreatesMbf, Creates, Starts, InitialSleeps, io
  <2>2. CASE CreatesMbf
    BY <1>1, <1>2, <2>1, <2>2 DEF CreatesMbf, Goto, tk_cre_mbf, tcb, PlacesInv
  <2>3. ASSUME NEW l, NEW next, NEW new, NEW fun, Creates(l, next, new, fun),
               \/ l = "cre_sns" /\ new = tskid_sns /\ fun = "def_int"
               \/ l = "cre_led" /\ new = tskid_led /\ fun = "led_off"
        PROVE  EchoInv'
    <3>1. /\ UNCHANGED << wupcnt, err >> /\ tk_cre_tsk(PriApp) /\ At(tskid_ini, l)
          /\ pc[tskid_ini] = l /\ pc' = [pc EXCEPT ![tskid_ini] = next, ![new] = fun]
      BY <2>3 DEF Creates, At, tk_cre_tsk
    <3>2. \/ pc[tskid_sns] = "none" /\ pc'[tskid_sns] = "def_int"
          \/ pc[tskid_sns] = pc'[tskid_sns] /\ state[tskid_sns] # "TS_NONEXIST"
      BY <1>1, <2>3, <3>1 DEF UsermainInv, PlacesInv, Alive
    <3>3. state'[tskid_sns] = state[tskid_sns] \/ state[tskid_sns] = "TS_NONEXIST"
      BY <1>1, <3>1 DEF tk_cre_tsk, TypeOK
    <3> QED
      BY <1>1, <2>1, <3>1, <3>2, <3>3, EchoKept
  <2>4. ASSUME NEW l, NEW next, NEW t \in Task, Starts(l, next, t),
               (l = "sta_sns" /\ t = tskid_sns) \/ (l = "sta_led" /\ t = tskid_led)
        PROVE  EchoInv'
    <3>1. /\ UNCHANGED << wupcnt, err >> /\ state' = [state EXCEPT ![t] = "TS_READY"]
          /\ pc[tskid_ini] = l /\ pc' = [pc EXCEPT ![tskid_ini] = next]
      BY <2>4 DEF Starts, Goto, At, tk_sta_tsk
    <3>2. pc'[tskid_sns] = pc[tskid_sns]
      BY <1>1, <3>1 DEF PlacesInv
    <3>3. state'[tskid_sns] = state[tskid_sns] \/ pc[tskid_sns] = "def_int"
      BY <1>1, <2>4, <3>1 DEF UsermainInv, TypeOK
    <3> QED
      BY <1>1, <2>1, <3>1, <3>2, <3>3, EchoKept
  <2>5. CASE InitialSleeps
    <3>1. /\ cur_task = tskid_ini /\ InTask /\ pc'[tskid_sns] = pc[tskid_sns] /\ wupcnt[tskid_ini] = 0
      BY <1>1, <2>5 DEF InitialSleeps, At, Goto, PlacesInv, WaitsInv
    <3>2. enter_wait("TWFCT_SLP", WaitTim(TMO_FEVR))
      BY <2>5, <3>1 DEF InitialSleeps, Sleeps
    <3>3. /\ state' = [state EXCEPT ![tskid_ini] = "TS_WAIT"]
          /\ err' = [err EXCEPT ![tskid_ini] = "E_OK"] /\ wupcnt' = wupcnt
      BY <1>1, <3>1, <3>2, Waited
    <3> QED
      BY <1>1, <2>1, <3>1, <3>3, EchoKept DEF TypeOK
  <2> QED
    BY <1>4, <2>2, <2>3, <2>4, <2>5 DEF usermain
<1>5. CASE tsk_led
  <2>1. UNCHANGED << irq, INTR, echo, tim1, tim2 >> /\ pc'[tskid_sns] = pc[tskid_sns]
    BY <1>1, <1>5 DEF tsk_led, LedOff, Receives, Show, Goto, PlacesInv, io
  <2>2. CASE LedOff \/ Show
    BY <1>2, <2>1, <2>2 DEF LedOff, Show, NoApi, vars, tcb
  <2>3. CASE Receives
    <3>1. cur_task = tskid_led /\ InTask
          /\ (enter_wait("TWFCT_MBFR", WaitTim(TMO_FEVR)) \/ (returns_ok /\ waiobj' = waiobj))
      BY <2>3, ReceiveIs DEF Receives, At
    <3>2. CASE returns_ok /\ waiobj' = waiobj
      BY <1>1, <2>1, <3>1, <3>2, EchoKept DEF returns_ok, TypeOK
    <3>3. CASE enter_wait("TWFCT_MBFR", WaitTim(TMO_FEVR))
      <4>1. /\ state' = [state EXCEPT ![tskid_led] = "TS_WAIT"]
            /\ err' = [err EXCEPT ![tskid_led] = "E_OK"] /\ wupcnt' = wupcnt
        BY <1>1, <3>1, <3>3, Waited
      <4> QED
        BY <1>1, <2>1, <4>1, EchoKept DEF TypeOK
    <3> QED
      BY <3>1, <3>2, <3>3
  <2> QED
    BY <1>5, <2>2, <2>3 DEF tsk_led
<1>6. CASE tsk_sns
  <2>1. ASSUME NEW l, At(tskid_sns, l)
        PROVE  cur_task = tskid_sns /\ InTask /\ pc[tskid_sns] = l /\ state[tskid_sns] = "TS_READY"
    BY <1>1, <2>1, Runs
  <2>2. CASE DefInt
    <3>1. /\ pc[tskid_sns] = "def_int" /\ pc'[tskid_sns] = "enable" /\ wupcnt' = wupcnt
          /\ irq'.vec = "hll_inthdr" /\ irq'.enabled = irq.enabled /\ echo' = echo
      BY <1>1, <2>1, <2>2 DEF DefInt, Goto, NoApi, vars, tcb, PlacesInv, AppTypeOK
    <3> QED
      BY <1>1, <3>1 DEF EchoInv
  <2>3. CASE Enable
    <3>1. /\ pc[tskid_sns] = "enable" /\ pc'[tskid_sns] = "trig" /\ wupcnt' = wupcnt
          /\ irq'.vec = irq.vec /\ irq'.enabled = TRUE /\ irq'.pending = FALSE /\ echo' = echo
          /\ INTR' = NoEdges
      BY <1>1, <2>1, <2>3 DEF Enable, Goto, NoApi, vars, tcb, PlacesInv, AppTypeOK
    <3>2. Over'
      BY <1>1, <3>1 DEF EchoInv, Over, Edges, NoEdges
    <3> QED
      BY <1>1, <3>1, <3>2 DEF EchoInv
  <2>4. CASE Trigger
    <3>1. /\ pc[tskid_sns] = "trig" /\ pc'[tskid_sns] = "slp" /\ wupcnt' = wupcnt
          /\ irq' = irq /\ INTR' = Aged(INTR)
      BY <1>1, <2>1, <2>4 DEF Trigger, Goto, NoApi, vars, tcb, PlacesInv
    <3>2. Over /\ wupcnt[tskid_sns] = 0 /\ irq.enabled /\ irq.vec = "hll_inthdr"
      BY <1>1, <3>1 DEF EchoInv, TypeOK
    <3>3. echo'.phase = "armed" /\ echo'.of = "now"
      BY <2>4, <3>2 DEF Trigger, Over
    <3>4. Armed'
      BY <1>1, <3>1, <3>2, <3>3 DEF Armed, Over, Edges, Aged, AppTypeOK
    <3>5. Awaits'
      BY <3>1, <3>2 DEF Awaits
    <3> QED
      BY <3>1, <3>2, <3>3, <3>4, <3>5 DEF EchoInv
  <2>5. CASE SensorSleeps
    <3>1. /\ cur_task = tskid_sns /\ InTask /\ pc[tskid_sns] = "slp" /\ pc'[tskid_sns] = "disable"
          /\ UNCHANGED << irq, INTR, echo, tim1, tim2 >> /\ Sleeps(SlpTmo) /\ state[tskid_sns] = "TS_READY"
      BY <1>1, <2>1, <2>5 DEF SensorSleeps, Goto, PlacesInv, io
    <3>2. /\ Over' = Over /\ Armed' = Armed /\ Rising' = Rising /\ High' = High
          /\ Merged' = Merged /\ Falling' = Falling /\ Fresh' = Fresh
      BY <3>1 DEF Armed, Rising, High, Merged, Falling, Over, Edges, Fresh
    <3>3. CASE wupcnt[tskid_sns] > 0
      <4>1. wupcnt[tskid_sns] = 1 /\ Over /\ Fresh
        BY <1>1, <3>3 DEF EchoInv
      <4>2. wupcnt'[tskid_sns] = 0
        BY <1>1, <3>1, <3>3, <4>1 DEF Sleeps, TypeOK
      <4> QED
        BY <1>1, <3>1, <3>2, <4>1, <4>2 DEF EchoInv
    <3>4. CASE wupcnt[tskid_sns] = 0
      <4>1. enter_wait("TWFCT_SLP", WaitTim(SlpTmo))
        BY <3>1, <3>4 DEF Sleeps
      <4>2. state' = [state EXCEPT ![tskid_sns] = "TS_WAIT"] /\ wupcnt' = wupcnt
        BY <1>1, <3>1, <4>1, Waited
      <4>3. Awaits' /\ state'[tskid_sns] = "TS_WAIT"
        BY <1>1, <3>1, <3>4, <4>2 DEF Awaits, TypeOK
      <4> QED
        BY <1>1, <3>1, <3>2, <3>4, <4>2, <4>3 DEF EchoInv
    <3> QED
      BY <1>1, <3>3, <3>4 DEF TypeOK
  <2>6. CASE Disable
    <3>1. /\ pc[tskid_sns] = "disable" /\ pc'[tskid_sns] = "snd" /\ state[tskid_sns] = "TS_READY"
          /\ UNCHANGED << state, err, wupcnt, INTR, echo, tim1, tim2 >>
          /\ irq'.vec = irq.vec /\ irq'.enabled = FALSE
      BY <1>1, <2>1, <2>6 DEF Disable, Goto, NoApi, vars, tcb, PlacesInv, AppTypeOK
    <3>2. Over /\ wupcnt[tskid_sns] = 0
      BY <1>1, <3>1 DEF EchoInv, Awaits, TypeOK
    <3>3. Fresh' = Fresh /\ Woken' = Woken
      BY <3>1 DEF Fresh, Woken
    <3> QED
      BY <1>1, <3>1, <3>2, <3>3 DEF EchoInv, Over
  <2>7. CASE Sends
    <3>1. /\ pc[tskid_sns] = "snd" /\ pc'[tskid_sns] = "dly"
          /\ UNCHANGED << irq, INTR, echo, tim1, tim2 >>
      BY <1>1, <2>1, <2>7 DEF Sends, Goto, PlacesInv, io
    <3>2. wupcnt' = wupcnt
      <4>1. CASE ~Woken
        BY <2>7, <4>1 DEF Sends, NoApi, vars, tcb
      <4>2. CASE Woken
        <5>1. release(tskid_led) \/ UNCHANGED << tcb, queues >>
          BY <2>7, <4>2, SendIs DEF Sends
        <5> QED
          BY <5>1 DEF release, tcb
      <4> QED
        BY <4>1, <4>2
    <3> QED
      BY <1>1, <3>1, <3>2 DEF EchoInv
  <2>8. CASE Pauses
    <3>1. /\ pc[tskid_sns] = "dly" /\ pc'[tskid_sns] = "enable"
          /\ UNCHANGED << irq, INTR, echo, tim1, tim2, wupcnt >>
      BY <1>1, <2>1, <2>8 DEF Pauses, Goto, PlacesInv, io, enter_wait
    <3> QED
      BY <1>1, <3>1 DEF EchoInv
  <2> QED
    BY <1>6, <2>2, <2>3, <2>4, <2>5, <2>6, <2>7, <2>8 DEF tsk_sns
<1>7. CASE echo_inthdr
  <2>1. /\ irq.enabled /\ irq.pending /\ irq.vec = "hll_inthdr"
        /\ pc' = pc /\ echo' = echo /\ INTR' = NoEdges
        /\ tim1' = IF INTR["HIGH"] # "none" THEN INTR["HIGH"] ELSE tim1
        /\ irq'.vec = irq.vec /\ irq'.enabled = irq.enabled /\ irq'.pending = FALSE
    BY <1>1, <1>7 DEF echo_inthdr, AppTypeOK
  <2>2. pc[tskid_sns] \in {"slp", "disable"} /\ Awaits /\ (Rising \/ Merged \/ Falling)
    BY <2>1, HandlerFinds
  <2>3. pc[tskid_sns] = "slp" => state[tskid_sns] # "TS_WAIT"
    BY <1>1 DEF WaitsInv
  <2>4. CASE ~SeesLow
    <3>1. UNCHANGED << state, err, wupcnt, tim2 >>
      BY <1>7, <2>4 DEF echo_inthdr, NoApi, vars, tcb
    <3>2. Awaits'
      BY <2>1, <2>2, <3>1 DEF Awaits
    <3>3. Rising \/ Merged
      BY <2>2, <2>4 DEF Falling, Edges, SeesLow
    <3>4. Rising => High'
      BY <2>1 DEF Rising, High, Edges, NoEdges
    <3>5. Merged => Over'
      BY <2>1 DEF Merged, Over, Edges, NoEdges
    <3> QED
      BY <1>1, <2>1, <2>2, <3>1, <3>2, <3>3, <3>4, <3>5 DEF EchoInv, Awaits
  <2>5. CASE SeesLow
    <3>1. Falling
      BY <2>2, <2>5 DEF Rising, Merged, Edges, SeesLow
    <3>2. tim2' \in {NEAR, FAR} /\ tk_wup_tsk(tskid_sns)
      BY <1>7, <2>5, <3>1 DEF echo_inthdr, Falling, Edges
    <3>3. Fresh' /\ Over'
      BY <2>1, <3>1, <3>2 DEF Falling, Edges, Fresh, Over, NoEdges
    <3>4. CASE pc[tskid_sns] = "slp"
      <4>1. wupcnt' = [wupcnt EXCEPT ![tskid_sns] = @ + 1]
        BY <2>3, <3>2, <3>4 DEF tk_wup_tsk
      <4>2. wupcnt'[tskid_sns] = 1
        BY <1>1, <2>2, <4>1 DEF Awaits, TypeOK
      <4> QED
        BY <1>1, <2>1, <3>3, <3>4, <4>2 DEF EchoInv
    <3>5. CASE pc[tskid_sns] = "disable"
      <4>1. state[tskid_sns] = "TS_WAIT" /\ waifct[tskid_sns] = "TWFCT_SLP" /\ wupcnt[tskid_sns] = 0
        BY <1>1, <2>2, <3>5 DEF Awaits, WaitsInv
      <4>2. wupcnt' = wupcnt
        BY <3>2, <4>1 DEF tk_wup_tsk, release
      <4> QED
        BY <1>1, <2>1, <3>3, <3>5, <4>1, <4>2 DEF EchoInv
    <3> QED
      BY <2>2, <3>4, <3>5
  <2> QED
    BY <2>4, <2>5
<1>8. CASE sensor
  <2>1. UNCHANGED << state, err, wupcnt, pc, tim1, tim2 >>
    BY <1>8 DEF sensor, NoApi, vars, tcb, appvars
  <2>2. echo.phase # "idle" /\ echo'.of = echo.of
    BY <1>1, <1>8 DEF sensor, Edge, Silence, AppTypeOK
  <2>3. /\ pc[tskid_sns] \in {"slp", "disable"} /\ Awaits /\ echo.of = "now"
        /\ Armed \/ Rising \/ High
    BY <1>1, <2>2 DEF EchoInv, Over, Merged, Falling
  <2>4. Awaits' /\ wupcnt[tskid_sns] = 0
    BY <2>1, <2>3 DEF Awaits
  <2>5. CASE Edge("armed", "HIGH", "high")
    <3>1. Armed
      BY <2>3, <2>5 DEF Edge, Rising, High
    <3>2. Rising' /\ irq'.enabled = irq.enabled /\ irq'.vec = irq.vec
      BY <1>1, <2>3, <2>5, <3>1 DEF Edge, Armed, Rising, Edges, AppTypeOK
    <3> QED
      BY <1>1, <2>1, <2>2, <2>3, <2>4, <3>2 DEF EchoInv, Awaits
  <2>6. CASE Edge("high", "LOW", "idle")
    <3>1. Rising \/ High
      BY <2>3, <2>6 DEF Edge, Armed
    <3>2. irq'.enabled = irq.enabled /\ irq'.vec = irq.vec
      BY <1>1, <2>6 DEF Edge, AppTypeOK
    <3>3. Rising => Merged'
      BY <1>1, <2>3, <2>6 DEF Edge, Rising, Merged, Edges, AppTypeOK
    <3>4. High => Falling'
      BY <1>1, <2>1, <2>3, <2>6 DEF Edge, High, Falling, Edges, AppTypeOK
    <3> QED
      BY <1>1, <2>1, <2>2, <2>3, <2>4, <3>1, <3>2, <3>3, <3>4 DEF EchoInv, Awaits
  <2>7. CASE Silence
    <3>1. Armed
      BY <2>3, <2>7 DEF Silence, Rising, High
    <3>2. Over' /\ irq' = irq
      BY <1>1, <2>7, <3>1 DEF Silence, Armed, Over, Edges, AppTypeOK
    <3> QED
      BY <1>1, <2>1, <2>2, <2>3, <2>4, <3>2 DEF EchoInv, Awaits
  <2> QED
    BY <1>8, <2>5, <2>6, <2>7 DEF sensor
<1> QED
  BY <1>3, <1>4, <1>5, <1>6, <1>7, <1>8 DEF AppNext, AppTask

-----------------------------------------------------------------------------
(***************************************************************************)
(* The time of the sleep and that of the echo.                             *)
(***************************************************************************)
LEMMA TimesGrow ==
  ASSUME NEW a \in Int, NEW b \in Int, a <= b
  PROVE  a * TIMER_PERIOD \in Int /\ b * TIMER_PERIOD \in Int /\ a * TIMER_PERIOD <= b * TIMER_PERIOD
<1>1. TIMER_PERIOD \in Nat
  BY KernelAssumption
<1>2. a * TIMER_PERIOD \in Int /\ b * TIMER_PERIOD \in Int /\ (b - a) * TIMER_PERIOD \in Nat
  BY <1>1
<1>3. b * TIMER_PERIOD = a * TIMER_PERIOD + (b - a) * TIMER_PERIOD
  BY <1>1
<1> QED
  BY <1>2, <1>3

LEMMA CountedIs ==
  ASSUME TimeInv
  PROVE  Counted \in Int /\ echo.ticks \in Int /\ Counted <= echo.ticks /\ echo.ticks - 1 <= Counted
  BY DEF TimeInv, Counted

\* Steps that neither begin the sleep nor count its time.
LEMMA TimeKept ==
  ASSUME TimeInv, echo'.ticks = echo.ticks, Outstanding' => Outstanding,
         pc'[tskid_sns] = "disable" /\ state'[tskid_sns] = "TS_WAIT" =>
           /\ pc[tskid_sns] = "disable" /\ state[tskid_sns] = "TS_WAIT"
           /\ waitim'[tskid_sns] = waitim[tskid_sns],
         Ahead(tskid_sns)' => Ahead(tskid_sns), waitim[tskid_sns] \in Nat
  PROVE  TimeInv'
<1>1. Counted' \in Int /\ Counted <= Counted'
  BY DEF TimeInv, Counted
<1>2. Counted * TIMER_PERIOD \in Int /\ Counted' * TIMER_PERIOD \in Int
      /\ Counted * TIMER_PERIOD <= Counted' * TIMER_PERIOD
  BY <1>1, CountedIs, TimesGrow
<1>3. TIMER_PERIOD \in Int /\ SlpTmo \in Int
  BY KernelAssumption, ApplicationAssumption
<1>4. ASSUME Outstanding', pc'[tskid_sns] = "disable", state'[tskid_sns] = "TS_WAIT"
      PROVE  waitim'[tskid_sns] + Counted' * TIMER_PERIOD >= SlpTmo + TIMER_PERIOD
  <2> DEFINE c == Counted * TIMER_PERIOD
             d == Counted' * TIMER_PERIOD
  <2>1. waitim[tskid_sns] + c >= SlpTmo + TIMER_PERIOD /\ waitim'[tskid_sns] = waitim[tskid_sns]
    BY <1>4 DEF TimeInv
  <2>2. c \in Int /\ d \in Int /\ c <= d
    BY <1>2
  <2> HIDE DEF c, d
  <2>3. waitim'[tskid_sns] + d >= SlpTmo + TIMER_PERIOD
    BY <1>3, <2>1, <2>2
  <2> QED
    BY <2>3 DEF d
<1> QED
  BY <1>4 DEF TimeInv

\* The entry the timer handler has looked at is not ahead any more, the others
\* stay where they are.
LEMMA AdvancePasses ==
  ASSUME TypeOK, QueuesMatchState, tick, tick', scan \in Task, Advance,
         \/ wait_queue' = wait_queue
         \/ tqueue_remove_entry(wait_queue, scan, wait_queue')
  PROVE  \A t \in Task : /\ t = scan => Ahead(t)
                         /\ Ahead(t)' => Ahead(t) /\ t # scan
<1> DEFINE s == wait_queue
           r == wait_queue'
<1>1. s \in Seq(Task) /\ Len(s) \in Nat /\ \A i, j \in 1 .. Len(s) : s[i] = s[j] => i = j
  BY DEF TypeOK, QueuesMatchState, Lists
<1>2. PICK k \in 1 .. Len(s) : s[k] = scan /\ scan' = IF k = Len(s) THEN NULL ELSE s[k + 1]
  BY DEF Advance
<1>3. Ahead(scan)
  BY <1>2 DEF Ahead
<1>4. NULL \notin Task
  BY KernelAssumption
<1>5. ASSUME NEW t \in Task, Ahead(t)'
      PROVE  Ahead(t) /\ t # scan
  <2>1. PICK i \in 1 .. Len(r), j \in 1 .. Len(r) : i <= j /\ r[i] = scan' /\ r[j] = t
    BY <1>5 DEF Ahead
  <2>2. CASE r = s
    <3>1. scan' \in Task
      BY <1>1, <2>1, <2>2
    <3>2. k < Len(s) /\ k + 1 \in 1 .. Len(s) /\ scan' = s[k + 1]
      BY <1>1, <1>2, <1>4, <3>1
    <3>3. i = k + 1
      BY <1>1, <2>1, <2>2, <3>2
    <3>4. k <= j /\ k # j /\ j \in 1 .. Len(s)
      BY <2>1, <2>2, <3>3
    <3>5. s[j] = t /\ t # s[k]
      BY <1>1, <2>1, <2>2, <3>4
    <3> QED
      BY <1>2, <3>4, <3>5 DEF Ahead
  <2>3. CASE tqueue_remove_entry(s, scan, r)
    <3>1. PICK m \in 1 .. Len(s) : s[m] = scan /\ r = RemoveAt(s, m)
      BY <2>3 DEF tqueue_remove_entry
    <3>2. m = k
      BY <1>1, <1>2, <3>1
    <3>3. /\ r \in Seq(Task) /\ Len(r) = Len(s) - 1
          /\ \A n \in 1 .. Len(s) - 1 : r[n] = IF n < k THEN s[n] ELSE s[n + 1]
      BY <1>1, <3>1, <3>2, RemoveAtIs
    <3> HIDE DEF r, s
    <3>4. scan' \in Task
      BY <2>1, <3>3
    <3>5. k < Len(s) /\ k + 1 \in 1 .. Len(s) /\ scan' = s[k + 1]
      BY <1>1, <1>2, <1>4, <3>4
    <3>6. ~(i < k)
      <4>1. i < k => r[i] = s[i] /\ i \in 1 .. Len(s)
        BY <1>1, <2>1, <3>3
      <4> QED
        BY <1>1, <2>1, <3>5, <4>1
    <3>7. j + 1 \in 1 .. Len(s) /\ r[j] = s[j + 1] /\ k < j + 1
      BY <1>1, <2>1, <3>3, <3>6
    <3>8. t = s[j + 1] /\ t # s[k]
      BY <1>1, <2>1, <3>7
    <3>9. Ahead(t)
      BY <1>2, <3>7, <3>8 DEF Ahead, s
    <3> QED
      BY <1>2, <3>8, <3>9
  <2> QED
    BY <2>2, <2>3
<1> QED
  BY <1>3, <1>5

LEMMA TimeNext ==
  ASSUME AppInv, MInv, AppNext
  PROVE  TimeInv'
<1>1. /\ KInv /\ TypeOK /\ QueuesMatchState /\ AppTypeOK
      /\ EchoInv /\ PlacesInv /\ UsermainInv /\ WaitsInv /\ TimeInv
  BY DEF AppInv, MInv, KInv, Inv
<1>2. /\ TIMER_PERIOD \in Nat \ {0} /\ SlpTmo \in Nat /\ EchoTicks \in Nat
      /\ waitim[tskid_sns] \in Nat /\ tskid_sns \in Task
  BY <1>1, Ids, KernelAssumption, ApplicationAssumption DEF TypeOK
<1> USE Ids
\* Steps outside the timer handler.
<1>3. ASSUME ~tick, tick' = tick, echo'.ticks = echo.ticks, Outstanding' => Outstanding,
             pc'[tskid_sns] = "disable" /\ state'[tskid_sns] = "TS_WAIT" =>
               /\ pc[tskid_sns] = "disable" /\ state[tskid_sns] = "TS_WAIT"
               /\ waitim'[tskid_sns] = waitim[tskid_sns]
      PROVE  TimeInv'
  <2>1. ~Ahead(tskid_sns)'
    BY <1>3 DEF Ahead
  <2> QED
    BY <1>1, <1>2, <1>3, <2>1, TimeKept
<1>4. ASSUME UNCHANGED << irq, echo >>
      PROVE  (Outstanding' => Outstanding) /\ echo'.ticks = echo.ticks
  BY <1>4 DEF Outstanding
<1>5. ASSUME NEW t \in Task, release(t)
      PROVE  /\ waitim' = waitim
             /\ state'[tskid_sns] = "TS_WAIT" => state[tskid_sns] = "TS_WAIT"
  BY <1>1, <1>5, Released DEF TypeOK
<1>6. ASSUME InTask, cur_task # tskid_sns, NEW fct, NEW tim, enter_wait(fct, tim)
      PROVE  UNCHANGED << state[tskid_sns], waitim[tskid_sns] >>
  BY <1>1, <1>6, Waited DEF TypeOK
<1>7. CASE AppKernelStep
  <2>1. pc' = pc /\ irq' = irq
    BY <1>7 DEF AppKernelStep, appvars
  <2>2. CASE main /\ UNCHANGED echo
    <3>1. ~tick /\ tick' = tick /\ thread \in {"main_cre", "main_sta"}
      BY <2>2 DEF main, Running, timer
    <3>2. pc[tskid_sns] = "none"
      BY <1>1, <3>1 DEF UsermainInv
    <3> QED
      BY <1>3, <1>4, <2>1, <2>2, <3>1, <3>2
  <2>3. CASE DispatchStep /\ UNCHANGED echo
    BY <1>3, <1>4, <2>1, <2>3 DEF DispatchStep, PendSV, Dispatch, LeaveIdle, tcb, timer
  <2>4. CASE /\ SysTick
             /\ Outstanding => echo.ticks < EchoTicks
             /\ echo' = [echo EXCEPT !.ticks = IF Outstanding THEN @ + 1 ELSE 0]
    <3>1. ~tick /\ UNCHANGED << state, waitim >>
      BY <2>4 DEF SysTick, tcb
    <3>2. /\ echo'.ticks = IF Outstanding THEN echo.ticks + 1 ELSE 0
          /\ echo'.phase = echo.phase
      BY <1>1, <2>4 DEF AppTypeOK
    <3>3. Outstanding' = Outstanding
      BY <2>1, <3>2 DEF Outstanding
    <3>4. echo'.ticks \in Nat /\ (Outstanding' => echo'.ticks <= EchoTicks)
      BY <1>1, <1>2, <2>4, <3>2, <3>3 DEF TimeInv
    <3>5. ASSUME Outstanding', pc'[tskid_sns] = "disable", state'[tskid_sns] = "TS_WAIT"
          PROVE  waitim'[tskid_sns] + Counted' * TIMER_PERIOD >= SlpTmo + TIMER_PERIOD
      <4>1. Counted = echo.ticks
        BY <3>1 DEF Counted, Ahead
      <4>2. waitim[tskid_sns] + Counted * TIMER_PERIOD >= SlpTmo + TIMER_PERIOD
        BY <1>1, <2>1, <3>1, <3>3, <3>5 DEF TimeInv
      <4>3. Counted \in Int /\ Counted' \in Int /\ Counted <= Counted'
        BY <1>1, <3>2, <3>3, <3>4, <3>5, <4>1 DEF Counted, TimeInv
      <4> DEFINE c == Counted * TIMER_PERIOD
                 d == Counted' * TIMER_PERIOD
      <4>4. c \in Int /\ d \in Int /\ c <= d
        BY <4>3, TimesGrow
      <4>5. waitim[tskid_sns] + c >= SlpTmo + TIMER_PERIOD
        BY <4>2
      <4> HIDE DEF c, d
      <4>6. waitim'[tskid_sns] + d >= SlpTmo + TIMER_PERIOD
        BY <1>2, <3>1, <4>4, <4>5
      <4> QED
        BY <4>6 DEF d
    <3> QED
      BY <3>4, <3>5 DEF TimeInv
  <2>5. CASE TickForever /\ UNCHANGED echo
    <3>1. scan \in Task /\ tick /\ tick' /\ UNCHANGED << state, waitim, wait_queue >> /\ Advance
      BY <1>1, <2>5 DEF TickForever, TypeOK, tcb, queues
    <3>2. Ahead(tskid_sns)' => Ahead(tskid_sns)
      BY <1>1, <1>2, <3>1, AdvancePasses
    <3> QED
      BY <1>1, <1>2, <1>4, <2>1, <2>5, <3>1, <3>2, TimeKept
  <2>6. CASE TickCount /\ UNCHANGED echo
    <3>1. /\ scan \in Task /\ tick /\ tick' /\ UNCHANGED << state, wait_queue >> /\ Advance
          /\ waitim' = [waitim EXCEPT ![scan] = @ - TIMER_PERIOD]
      BY <1>1, <2>6 DEF TickCount, TypeOK, queues
    <3>2. /\ tskid_sns = scan => Ahead(tskid_sns)
          /\ Ahead(tskid_sns)' => Ahead(tskid_sns) /\ tskid_sns # scan
      BY <1>1, <1>2, <3>1, AdvancePasses
    <3>3. CASE tskid_sns # scan
      <4>1. waitim'[tskid_sns] = waitim[tskid_sns]
        BY <1>1, <3>1, <3>3 DEF TypeOK
      <4> QED
        BY <1>1, <1>2, <1>4, <2>1, <2>6, <3>1, <3>2, <4>1, TimeKept
    <3>4. CASE tskid_sns = scan
      <4>1. Counted = echo.ticks - 1 /\ Counted' = echo.ticks
        BY <2>6, <3>2, <3>4 DEF Counted
      <4>2. waitim'[tskid_sns] = waitim[tskid_sns] - TIMER_PERIOD
        BY <1>1, <3>1, <3>4 DEF TypeOK
      <4>3. echo.ticks \in Int
        BY <1>1 DEF TimeInv
      <4>4. (echo.ticks - 1) * TIMER_PERIOD = echo.ticks * TIMER_PERIOD - TIMER_PERIOD
            /\ echo.ticks * TIMER_PERIOD \in Int
        BY <1>2, <4>3
      <4>5. ASSUME Outstanding', pc'[tskid_sns] = "disable", state'[tskid_sns] = "TS_WAIT"
            PROVE  waitim'[tskid_sns] + Counted' * TIMER_PERIOD >= SlpTmo + TIMER_PERIOD
        <5> DEFINE c == echo.ticks * TIMER_PERIOD
                   d == (echo.ticks - 1) * TIMER_PERIOD
        <5>1. waitim[tskid_sns] + d >= SlpTmo + TIMER_PERIOD
          BY <1>1, <1>4, <2>1, <2>6, <3>1, <4>1, <4>5 DEF TimeInv
        <5>2. d = c - TIMER_PERIOD /\ c \in Int
          BY <4>4
        <5> HIDE DEF c, d
        <5>3. waitim'[tskid_sns] + c >= SlpTmo + TIMER_PERIOD
          BY <1>2, <4>2, <5>1, <5>2
        <5> QED
          BY <4>1, <5>3 DEF c
      <4> QED
        BY <1>1, <1>4, <2>1, <2>6, <4>5 DEF TimeInv
    <3> QED
      BY <3>3, <3>4
  <2>7. CASE TickExpire /\ UNCHANGED echo
    <3>1. scan \in Task /\ tick /\ tick' /\ release(scan) /\ Advance
      BY <1>1, <2>7 DEF TickExpire, TypeOK
    <3>2. waitim' = waitim /\ (state'[tskid_sns] = "TS_WAIT" => state[tskid_sns] = "TS_WAIT")
      BY <1>5, <3>1
    <3>3. tqueue_remove_entry(wait_queue, scan, wait_queue')
      BY <3>1 DEF release
    <3>4. Ahead(tskid_sns)' => Ahead(tskid_sns)
      BY <1>1, <1>2, <3>1, <3>3, AdvancePasses
    <3> QED
      BY <1>1, <1>2, <1>4, <2>1, <2>7, <3>2, <3>4, TimeKept
  <2>8. CASE TickReturn /\ UNCHANGED echo
    <3>1. ~tick' /\ UNCHANGED << state, waitim >>
      BY <2>8 DEF TickReturn, tcb
    <3>2. ~Ahead(tskid_sns)'
      BY <3>1 DEF Ahead
    <3> QED
      BY <1>1, <1>2, <1>4, <2>1, <2>8, <3>1, <3>2, TimeKept
  <2> QED
    BY <1>7, <2>2, <2>3, <2>4, <2>5, <2>6, <2>7, <2>8 DEF AppKernelStep, TimerStep
<1>8. CASE usermain
  <2>1. /\ UNCHANGED << irq, echo >> /\ tick' = tick /\ InTask
        /\ pc'[tskid_sns] = pc[tskid_sns] \/ pc'[tskid_sns] # "disable"
    <3>1. UNCHANGED << irq, echo >> /\ tick' = tick /\ InTask
      BY <1>8 DEF usermain, CreatesMbf, Creates, Starts, InitialSleeps, Sleeps, SameTask, At, timer, io
    <3>2. pc'[tskid_sns] = pc[tskid_sns] \/ pc'[tskid_sns] # "disable"
      BY <1>1, <1>8 DEF usermain, CreatesMbf, Creates, Starts, InitialSleeps, Goto, PlacesInv
    <3> QED
      BY <3>1, <3>2
  <2>2. \/ UNCHANGED << state[tskid_sns], waitim[tskid_sns] >>
        \/ state'[tskid_sns] # "TS_WAIT"
    <3>1. CASE CreatesMbf
      BY <3>1 DEF CreatesMbf, tk_cre_mbf, tcb
    <3>2. ASSUME tk_cre_tsk(PriApp)
          PROVE  \/ UNCHANGED << state[tskid_sns], waitim[tskid_sns] >>
                 \/ state'[tskid_sns] # "TS_WAIT"
      BY <1>1, <3>2 DEF tk_cre_tsk, TypeOK
    <3>3. ASSUME NEW t \in Task, tk_sta_tsk(t)
          PROVE  \/ UNCHANGED << state[tskid_sns], waitim[tskid_sns] >>
                 \/ state'[tskid_sns] # "TS_WAIT"
      BY <1>1, <3>3 DEF tk_sta_tsk, TypeOK
    <3>4. CASE InitialSleeps
      <4>1. cur_task # tskid_sns /\ (UNCHANGED << state, waitim >> \/ \E tim : enter_wait("TWFCT_SLP", tim))
        BY <3>4 DEF InitialSleeps, Sleeps, At
      <4> QED
        BY <1>6, <2>1, <4>1
    <3> QED
      BY <1>8, <3>1, <3>2, <3>3, <3>4 DEF usermain, Creates, Starts
  <2> QED
    BY <1>3, <1>4, <2>1, <2>2 DEF InTask, Running
<1>9. CASE tsk_led
  <2>1. /\ UNCHANGED << irq, echo >> /\ tick' = tick /\ InTask /\ pc'[tskid_sns] = pc[tskid_sns]
        /\ cur_task # tskid_sns
    <3>1. UNCHANGED << irq, echo >> /\ tick' = tick /\ InTask /\ cur_task # tskid_sns
      BY <1>9 DEF tsk_led, LedOff, Receives, Show, NoApi, SameTask, At, vars, timer, io
    <3>2. pc'[tskid_sns] = pc[tskid_sns]
      BY <1>1, <1>9 DEF tsk_led, LedOff, Receives, Show, Goto, PlacesInv
    <3> QED
      BY <3>1, <3>2
  <2>2. UNCHANGED << state[tskid_sns], waitim[tskid_sns] >>
    <3>1. CASE LedOff \/ Show
      BY <3>1 DEF LedOff, Show, NoApi, vars, tcb
    <3>2. CASE Receives
      <4>1. \/ returns_ok /\ waiobj' = waiobj
            \/ enter_wait("TWFCT_MBFR", WaitTim(TMO_FEVR))
        BY <3>2, ReceiveIs DEF Receives
      <4>2. CASE returns_ok /\ waiobj' = waiobj
        BY <4>2 DEF returns_ok
      <4> QED
        BY <1>6, <2>1, <4>1, <4>2
    <3> QED
      BY <1>9, <3>1, <3>2 DEF tsk_led
  <2> QED
    BY <1>3, <1>4, <2>1, <2>2 DEF InTask, Running
<1>10. CASE tsk_sns
  <2>1. ASSUME NEW l, At(tskid_sns, l)
        PROVE  /\ cur_task = tskid_sns /\ InTask /\ ~tick /\ pc[tskid_sns] = l
               /\ state[tskid_sns] = "TS_READY"
    BY <1>1, <2>1, Runs
  <2>2. CASE Trigger
    <3>1. echo.phase = "idle"
      BY <1>1, <2>1, <2>2 DEF Trigger, EchoInv, Over
    <3>2. echo'.ticks = 0
      BY <2>2, <3>1 DEF Trigger
    <3>3. pc'[tskid_sns] = "slp"
      BY <1>1, <2>2 DEF Trigger, Goto, PlacesInv
    <3> QED
      BY <1>2, <3>2, <3>3 DEF TimeInv
  <2>3. CASE SensorSleeps
    <3>1. /\ cur_task = tskid_sns /\ InTask /\ ~tick /\ tick' = tick /\ UNCHANGED << irq, echo >>
          /\ pc[tskid_sns] = "slp" /\ state[tskid_sns] = "TS_READY" /\ Sleeps(SlpTmo)
      BY <2>1, <2>3 DEF SensorSleeps, Sleeps, SameTask, timer, io
    <3>2. (Outstanding' => Outstanding) /\ echo'.ticks = echo.ticks
      BY <1>4, <3>1
    <3>3. CASE UNCHANGED state
      BY <1>3, <3>1, <3>2, <3>3
    <3>4. CASE enter_wait("TWFCT_SLP", WaitTim(SlpTmo))
      <4>1. WaitTim(SlpTmo) = SlpTmo + TIMER_PERIOD
        <5>1. SlpTmo + TIMER_PERIOD \in 0 .. UW_MAX /\ UW_MAX \in Nat
          BY <1>2, KernelAssumption, SensorAssumption
        <5>2. UW(SlpTmo + TIMER_PERIOD) = SlpTmo + TIMER_PERIOD
          BY <5>1 DEF UW
        <5> QED
          BY <1>2, <5>2 DEF WaitTim, TMO_FEVR
      <4>2. waitim'[tskid_sns] = SlpTmo + TIMER_PERIOD
        BY <1>1, <3>1, <3>4, <4>1, Waited DEF TypeOK
      <4>3. Counted' = echo'.ticks /\ echo'.ticks \in Nat
        BY <1>1, <3>1, <3>2 DEF Counted, Ahead, TimeInv
      <4>4. echo'.ticks * TIMER_PERIOD \in Nat
        BY <1>2, <4>3
      <4> DEFINE c == echo'.ticks * TIMER_PERIOD
      <4>5. c \in Nat
        BY <4>4
      <4> HIDE DEF c
      <4>6. waitim'[tskid_sns] + c >= SlpTmo + TIMER_PERIOD
        BY <1>2, <4>2, <4>5
      <4>7. waitim'[tskid_sns] + Counted' * TIMER_PERIOD >= SlpTmo + TIMER_PERIOD
        BY <4>3, <4>6 DEF c
      <4> QED
        BY <1>1, <3>2, <4>7 DEF TimeInv
    <3> QED
      BY <3>1, <3>3, <3>4 DEF Sleeps
\* After its other calls the sensor task does not sleep.
  <2>4. ASSUME echo' = echo, tick' = tick, Outstanding' => Outstanding, ~tick,
               pc'[tskid_sns] # "disable"
        PROVE  TimeInv'
    BY <1>3, <2>4
  <2>5. CASE DefInt \/ Enable \/ Disable
    <3>1. echo' = echo /\ tick' = tick /\ ~tick
      BY <2>1, <2>5 DEF DefInt, Enable, Disable, NoApi, vars, timer
    <3>2. pc'[tskid_sns] # "disable"
      BY <1>1, <2>5 DEF DefInt, Enable, Disable, Goto, PlacesInv
    <3>3. Outstanding' => Outstanding
      BY <1>1, <2>5 DEF DefInt, Enable, Disable, Outstanding, AppTypeOK
    <3> QED
      BY <2>4, <3>1, <3>2, <3>3
  <2>6. CASE Sends \/ Pauses
    <3>1. UNCHANGED << irq, echo >> /\ tick' = tick /\ ~tick
      BY <2>1, <2>6 DEF Sends, Pauses, NoApi, SameTask, vars, timer, io
    <3>2. pc'[tskid_sns] # "disable"
      BY <1>1, <2>6 DEF Sends, Pauses, Goto, PlacesInv
    <3> QED
      BY <1>4, <2>4, <3>1, <3>2
  <2> QED
    BY <1>10, <2>2, <2>3, <2>5, <2>6 DEF tsk_sns
<1>11. CASE echo_inthdr
  <2>1. /\ irq.enabled /\ irq.pending /\ ~tick /\ tick' = tick /\ pc' = pc /\ echo' = echo
    BY <1>11 DEF echo_inthdr, InHandler, NoApi, SameTask, vars, timer
  <2>2. Outstanding
    BY <2>1 DEF Outstanding
  <2>3. CASE UNCHANGED << state, waitim >>
    BY <1>3, <2>1, <2>2, <2>3
  <2>4. CASE release(tskid_sns)
    BY <1>3, <1>5, <2>1, <2>2, <2>4
  <2> QED
    BY <1>11, <2>3, <2>4 DEF echo_inthdr, NoApi, tk_wup_tsk, vars, tcb
<1>12. CASE sensor
  <2>1. UNCHANGED << state, waitim, pc, tick, scan, wait_queue >>
    BY <1>12 DEF sensor, NoApi, vars, tcb, queues, timer, appvars
  <2>2. echo.phase # "idle" /\ echo'.ticks = echo.ticks
    BY <1>1, <1>12 DEF sensor, Edge, Silence, AppTypeOK
  <2>3. Outstanding
    BY <2>2 DEF Outstanding
  <2>4. Ahead(tskid_sns)' => Ahead(tskid_sns)
    BY <2>1 DEF Ahead
  <2> QED
    BY <1>1, <1>2, <2>1, <2>2, <2>3, <2>4, TimeKept
<1> QED
  BY <1>7, <1>8, <1>9, <1>10, <1>11, <1>12 DEF AppNext, AppTask

-----------------------------------------------------------------------------
(***************************************************************************)
(* The theorems.                                                           *)
(***************************************************************************)
LEMMA AppInitInv == AppInit => AppInv /\ MInv
<1> SUFFICES ASSUME AppInit PROVE AppInv /\ MInv
  OBVIOUS
<1> USE Ids
<1>1. MbfInit /\ MInv
  BY MbfInitInv DEF AppInit
<1>2. /\ \A t \in Task : /\ state[t] = "TS_NONEXIST" /\ wupcnt[t] = 0 /\ waifct[t] = "TWFCT_NON"
                         /\ pc[t] = IF t = tskid_ini THEN "cre_mbf" ELSE "none"
      /\ pc \in [Task -> {"cre_mbf", "none"}]
      /\ thread = "main_cre" /\ ~tick /\ ~Exists(mbfid)
  BY <1>1 DEF AppInit, MbfInit, Init, Exists
<1>3. AppTypeOK
  <2>1. /\ irq \in [vec : {"Default_Handler", "hll_inthdr"}, enabled : BOOLEAN, pending : BOOLEAN]
        /\ ~irq.enabled
    BY DEF AppInit
  <2>2. 0 \in 0 .. EchoTicks
    BY ApplicationAssumption
  <2>3. echo \in [phase : {"idle", "armed", "high"}, of : {"now", "old"}, ticks : 0 .. EchoTicks]
    BY <2>2 DEF AppInit
  <2> QED
    BY <2>1, <2>3 DEF AppInit, AppTypeOK, NoEdges
<1>4. PlacesInv
  BY <1>2 DEF PlacesInv
<1>5. UsermainInv
  BY <1>2 DEF UsermainInv, NoneBut, Alive
<1>6. WaitsInv /\ BufferInv
  BY <1>2 DEF WaitsInv, BufferInv
<1>7. EchoInv
  BY <1>2 DEF EchoInv, AppInit, Over, Edges, NoEdges
<1>8. TimeInv
  BY <1>2, ApplicationAssumption DEF TimeInv, AppInit
<1> QED
  BY <1>1, <1>3, <1>4, <1>5, <1>6, <1>7, <1>8 DEF AppInv

LEMMA AppNextInv == AppInv /\ MInv /\ [AppNext]_allappvars => AppInv' /\ MInv'
<1> SUFFICES ASSUME AppInv, MInv, [AppNext]_allappvars PROVE AppInv' /\ MInv'
  OBVIOUS
<1>1. MInv'
  BY Distances, AppUsesMbf, MbfNextInv DEF AppInv
<1>2. CASE AppNext
  <2>1. AppTypeOK' /\ PlacesInv'
    BY <1>2, TypeNext, PlacesNext DEF AppInv
  <2> QED
    BY <1>1, <1>2, <2>1, StartNext, WaitsNext, BufferNext, EchoNext, TimeNext DEF AppInv
<1>3. CASE UNCHANGED allappvars
  <2>1. UNCHANGED << vars, mbfvars, appvars, io >>
    BY <1>3 DEF allappvars
  <2>2. /\ UNCHANGED << state, itskpri, wupcnt, waifct, waitim, err, ready_queue, wait_queue >>
        /\ UNCHANGED << thread, tick, scan, mbfcb, waiobj, pc, tim1, tim2, led, sent, irq, INTR, echo >>
    BY <2>1 DEF vars, tcb, queues, dispatcher, timer, mbfvars, appvars, io
  <2>3. AppTypeOK' /\ PlacesInv' /\ WaitsInv'
    BY <2>2 DEF AppInv, AppTypeOK, PlacesInv, WaitsInv, WaitsFor
  <2>4. UsermainInv' /\ BufferInv'
    BY <2>2 DEF AppInv, UsermainInv, BufferInv, NoneBut, Alive, Exists
  <2>5. EchoInv'
    BY <2>2, EchoKept DEF AppInv
  <2>6. TimeInv'
    BY <2>2 DEF AppInv, TimeInv, Counted, Ahead, Outstanding
  <2> QED
    BY <1>1, <2>3, <2>4, <2>5, <2>6 DEF AppInv
<1> QED
  BY <1>2, <1>3

THEOREM AppInvariance == AppSpec => [](AppInv /\ MInv)
<1>1. AppInit => AppInv /\ MInv
  BY AppInitInv
<1>2. AppInv /\ MInv /\ [AppNext]_allappvars => (AppInv /\ MInv)'
  BY AppNextInv
<1> QED
  BY <1>1, <1>2, PTL DEF AppSpec

\* The program calls the kernel as the module of its message buffers says it may
\* be called, so that whatever is proved of MbfSpec holds of the program too
\* (usermain.c:71-168).
THEOREM AppUsesTheKernel == AppSpec => MbfSpec
<1>1. AppInit => MbfInit
  BY DEF AppInit
<1>2. AppInv /\ [AppNext]_allappvars => [MbfNext]_<< vars, mbfvars >>
  BY AppUsesMbf DEF AppInv, allvars
<1> QED
  BY <1>1, <1>2, AppInvariance, PTL DEF AppSpec, MbfSpec

\* The handler, the interrupt and the sensor keep their types; above all no
\* interrupt is enabled before its handler is registered (usermain.c:114, 122).
THEOREM AppTyping == AppSpec => []AppTypeOK
  BY AppInvariance, PTL DEF AppInv

\* Every distance sent is that of the last trigger's echo: whatever the timer,
\* the scheduler and the edges do, the sleep does not end before the echo that
\* it waits for, and its wakeup is not taken for that of another one
\* (usermain.c:117-136).
THEOREM DistancesAreFresh == AppSpec => []DistanceIsFresh
<1>1. AppInv /\ MInv => DistanceIsFresh
  <2> SUFFICES ASSUME AppInv, MInv, At(tskid_sns, "snd"), Woken PROVE Distance # STALE
    BY DEF DistanceIsFresh
  <2>1. pc[tskid_sns] = "snd" /\ state[tskid_sns] = "TS_READY"
    BY Runs DEF MInv
  <2>2. Fresh
    BY <2>1 DEF AppInv, EchoInv
  <2> QED
    BY <2>2 DEF Fresh, Distance, NEAR, FAR, STALE
<1> QED
  BY <1>1, AppInvariance, PTL

\* No more than one wakeup is ever queued (usermain.c:69-72, 129).
THEOREM WakeupsDoNotPile == AppSpec => []NoPileOfWakeups
<1>1. AppInv /\ MInv => NoPileOfWakeups
  <2> SUFFICES ASSUME AppInv, MInv, NEW t \in Task PROVE wupcnt[t] <= 1
    BY DEF NoPileOfWakeups
  <2>1. wupcnt[t] \in Nat
    BY KernelAssumption DEF MInv, KInv, Inv, TypeOK
  <2> QED
    BY <2>1, Ids DEF AppInv, WaitsInv, EchoInv
<1> QED
  BY <1>1, AppInvariance, PTL

\* The buffer never holds more than one distance and no send waits, so that
\* none is dropped (usermain.c:86-93, 150).
THEOREM NoDistanceIsDropped == AppSpec => []NoDistanceDropped
<1>1. AppInv => NoDistanceDropped
  <2> SUFFICES ASSUME AppInv PROVE NoDistanceDropped
    OBVIOUS
  <2>1. cmbf.bufsz \in Nat
    BY Distances
  <2>2. ASSUME Exists(mbfid)
        PROVE  mbfcb[mbfid].freesz >= mbfcb[mbfid].bufsz - (MSG_SZ + 1)
    BY <2>1, <2>2 DEF AppInv, BufferInv, MSG_SZ
  <2> QED
    BY <2>2 DEF AppInv, WaitsInv, NoDistanceDropped
<1> QED
  BY <1>1, AppInvariance, PTL
=============================================================================
