----------------------------- MODULE Application -----------------------------
(***************************************************************************)
(* application/usermain.c and kernel/interrupt.c over the kernel and its   *)
(* message buffers: a task measures a distance again and again, an         *)
(* interrupt handler takes the times of an echo and wakes it, and another  *)
(* task shows the distances it is sent on an LED.                          *)
(*                                                                         *)
(* A time is what it was taken of: "now", an edge of the echo of the last  *)
(* trigger, or "old".  A distance is NEAR or FAR, or STALE when it comes   *)
(* from other than the two times of the last echo.                         *)
(***************************************************************************)
EXTENDS MessageBuffer

CONSTANTS
  PriApp,      \* ctsk_sns.itskpri and ctsk_led.itskpri, 5
  SlpTmo,      \* the sleep of the sensor task, 1000
  SndTmo,      \* the time limit of its messages, 100
  DlyTim,      \* its pause, 500
  MbfDepth,    \* messages that the buffer holds, 5
  EchoTicks    \* the sensor: an echo ends before EchoTicks + 1 ticks have passed

\* tk_cre_tsk and tk_cre_mbf give out the ids in the order of the calls.
tskid_ini == 1
tskid_sns == 2
tskid_led == 3
mbfid == 1

\* The distances, one byte each.
NEAR == 1
FAR == 2
STALE == 3
MSG_SZ == 1
cmbf == [bufsz |-> (MSG_SZ + 1) * MbfDepth, maxmsz |-> MSG_SZ]

ASSUME ApplicationAssumption ==
  /\ CNF_MAX_TSKID >= 3 /\ CNF_MAX_MBFID >= 1
  /\ PriApp \in 2 .. CNF_MAX_TSKPRI - 1
  /\ SlpTmo \in Nat \ {0} /\ SndTmo \in Nat \ {0} /\ DlyTim \in Nat \ {0}
  /\ MbfDepth \in Nat /\ MbfDepth > 1 /\ EchoTicks \in Nat
  /\ cmbf.bufsz <= UW_MAX

\* What the program calls is what the modules of the kernel are given.
ASSUME CallsAssumption ==
  /\ PriApp \in ItsPri /\ DlyTim \in RelTim /\ {TMO_FEVR, SlpTmo} \subseteq Tmo
  /\ "tk_wup_tsk" \in HandlerApi
  /\ CMbf = {cmbf} /\ {TMO_FEVR, SndTmo} \subseteq MbfTmo
  /\ Msg = {<< NEAR >>, << FAR >>, << STALE >>}

\* An echo is over before the sleep that waits for it can end by its limit: the
\* sensor's pulse is 38 ms at most, the sleep 1000 ms (usermain.c:129).
ASSUME SensorAssumption ==
  /\ EchoTicks * TIMER_PERIOD < SlpTmo + TIMER_PERIOD
  /\ SlpTmo + TIMER_PERIOD < UW_MAX

VARIABLES
  pc,         \* pc[t]: the call that the function of t comes to next
  tim1, tim2, \* the times of the edges, and with tim2 the distance they give
  led,        \* the LED is lit
  sent,       \* history: the last distance sent, NULL before the first
  irq,        \* IRQ_BANK0: its vector, whether it is enabled and pending
  INTR,       \* the edges of ECHO the GPIO has seen and not cleared
  echo        \* the sensor: its phase, and of which trigger; and the ticks
              \* since that trigger

appvars == << pc, tim1, tim2, led, sent >>
io == << irq, INTR, echo >>
allappvars == << vars, mbfvars, appvars, io >>

At(t, l) == InTask /\ cur_task = t /\ pc[t] = l
Goto(t, l) == pc' = [pc EXCEPT ![t] = l]

NoApi == UNCHANGED << vars, mbfvars >>
SameTask == UNCHANGED << dispatcher, timer >>
NoMbf == UNCHANGED mbfvars

-----------------------------------------------------------------------------
(***************************************************************************)
(* usermain, which the initial task runs.                                  *)
(***************************************************************************)
CreatesMbf ==
  /\ At(tskid_ini, "cre_mbf") /\ Goto(tskid_ini, "cre_sns")
  /\ tk_cre_mbf(cmbf)
  /\ SameTask /\ UNCHANGED << tim1, tim2, led, sent, io >>

Creates(l, next, new, fun) ==
  /\ At(tskid_ini, l)
  /\ pc' = [pc EXCEPT ![tskid_ini] = next, ![new] = fun]
  /\ tk_cre_tsk(PriApp)
  /\ UNCHANGED << cur_task, disp_running, cpu, thread, timer, mbfvars, tim1, tim2, led, sent, io >>

Starts(l, next, t) ==
  /\ At(tskid_ini, l) /\ Goto(tskid_ini, next)
  /\ tk_sta_tsk(t)
  /\ UNCHANGED << cur_task, disp_running, cpu, thread, timer, mbfvars, tim1, tim2, led, sent, io >>

\* tk_slp_tsk(tmout) by the running task.
Sleeps(tmout) ==
  /\ \/ /\ wupcnt[cur_task] > 0
        /\ wupcnt' = [wupcnt EXCEPT ![cur_task] = @ - 1]
        /\ err' = [err EXCEPT ![cur_task] = "E_OK"]
        /\ UNCHANGED << state, itskpri, waifct, waitim, waierr, queues, sche_task, pend_sv >>
     \/ wupcnt[cur_task] = 0 /\ enter_wait("TWFCT_SLP", WaitTim(tmout))
  /\ SameTask /\ NoMbf

InitialSleeps ==
  /\ At(tskid_ini, "slp") /\ Goto(tskid_ini, "ext")
  /\ Sleeps(TMO_FEVR)
  /\ UNCHANGED << tim1, tim2, led, sent, io >>

usermain ==
  \/ CreatesMbf
  \/ Creates("cre_sns", "sta_sns", tskid_sns, "def_int") \/ Starts("sta_sns", "cre_led", tskid_sns)
  \/ Creates("cre_led", "sta_led", tskid_led, "led_off") \/ Starts("sta_led", "slp", tskid_led)
  \/ InitialSleeps

-----------------------------------------------------------------------------
(***************************************************************************)
(* tsk_sns.                                                                *)
(***************************************************************************)

\* For DefInt: registers nothing.
DefIntNothing ==
  /\ At(tskid_sns, "def_int") /\ Goto(tskid_sns, "enable")
  /\ led' = FALSE
  /\ NoApi /\ UNCHANGED << tim1, tim2, sent, io >>

\* The pins are set up, the LED off, and tk_def_int registers echo_inthdr.
DefInt ==
  /\ At(tskid_sns, "def_int") /\ Goto(tskid_sns, "enable")
  /\ led' = FALSE
  /\ irq' = [irq EXCEPT !.vec = "hll_inthdr"]
  /\ NoApi /\ UNCHANGED << tim1, tim2, sent, INTR, echo >>

NoEdges == [e \in {"HIGH", "LOW"} |-> "none"]

\* Clears the causes of the interrupt, ClearInt, EnableInt.
Enable ==
  /\ At(tskid_sns, "enable") /\ Goto(tskid_sns, "trig")
  /\ INTR' = NoEdges
  /\ irq' = [irq EXCEPT !.pending = FALSE, !.enabled = TRUE]
  /\ NoApi /\ UNCHANGED << tim1, tim2, led, sent, echo >>

Aged(edges) == [e \in DOMAIN edges |-> IF edges[e] = "now" THEN "old" ELSE edges[e]]

\* The TRIG pulse.  The sensor answers if it is not busy; what it has sent
\* before is old.
Trigger ==
  /\ At(tskid_sns, "trig") /\ Goto(tskid_sns, "slp")
  /\ echo' = IF echo.phase = "idle" THEN [phase |-> "armed", of |-> "now", ticks |-> 0]
             ELSE [echo EXCEPT !.of = "old"]
  /\ tim1' = "old" /\ tim2' = STALE
  /\ INTR' = Aged(INTR)
  /\ NoApi /\ UNCHANGED << led, sent, irq >>

SensorSleeps ==
  /\ At(tskid_sns, "slp") /\ Goto(tskid_sns, "disable")
  /\ Sleeps(SlpTmo)
  /\ UNCHANGED << tim1, tim2, led, sent, io >>

Disable ==
  /\ At(tskid_sns, "disable") /\ Goto(tskid_sns, "snd")
  /\ irq' = [irq EXCEPT !.enabled = FALSE]
  /\ NoApi /\ UNCHANGED << tim1, tim2, led, sent, INTR, echo >>

Distance == IF tim1 = "now" THEN tim2 ELSE STALE

\* For Woken: without a look at the result of tk_slp_tsk.
WokenOrNot == TRUE

Woken == err[tskid_sns] = "E_OK"

\* do_action, if the sleep has not timed out.
Sends ==
  /\ At(tskid_sns, "snd") /\ Goto(tskid_sns, "dly")
  /\ \/ /\ Woken
        /\ tk_snd_mbf(mbfid, << Distance >>, SndTmo)
        /\ sent' = Distance
        /\ SameTask
     \/ ~Woken /\ NoApi /\ UNCHANGED sent
  /\ UNCHANGED << tim1, tim2, led, io >>

Pauses ==
  /\ At(tskid_sns, "dly") /\ Goto(tskid_sns, "enable")
  /\ enter_wait("TWFCT_DLY", UW(DlyTim + TIMER_PERIOD))
  /\ SameTask /\ NoMbf /\ UNCHANGED << tim1, tim2, led, sent, io >>

tsk_sns == DefInt \/ Enable \/ Trigger \/ SensorSleeps \/ Disable \/ Sends \/ Pauses

-----------------------------------------------------------------------------
(***************************************************************************)
(* tsk_led.                                                                *)
(***************************************************************************)
LedOff ==
  /\ At(tskid_led, "led_off") /\ Goto(tskid_led, "rcv")
  /\ led' = FALSE
  /\ NoApi /\ UNCHANGED << tim1, tim2, sent, io >>

Receives ==
  /\ At(tskid_led, "rcv") /\ Goto(tskid_led, "show")
  /\ tk_rcv_mbf(mbfid, TMO_FEVR)
  /\ SameTask /\ UNCHANGED << tim1, tim2, led, sent, io >>

Show ==
  /\ At(tskid_led, "show") /\ Goto(tskid_led, "rcv")
  /\ err[tskid_led] = "E_OK"
  /\ LET dis == received[tskid_led][1]
     IN  led' \in (IF dis = STALE THEN BOOLEAN ELSE {dis = NEAR})
  /\ NoApi /\ UNCHANGED << tim1, tim2, sent, io >>

tsk_led == LedOff \/ Receives \/ Show

-----------------------------------------------------------------------------
(***************************************************************************)
(* interrupt.c and echo_inthdr.  Of two edges at once it takes the HIGH    *)
(* one and clears both.                                                    *)
(***************************************************************************)

SeesLow == INTR["HIGH"] = "none" /\ INTR["LOW"] # "none"

echo_inthdr ==
  /\ InHandler /\ irq.enabled /\ irq.pending /\ irq.vec = "hll_inthdr"
  /\ tim1' = IF INTR["HIGH"] # "none" THEN INTR["HIGH"] ELSE tim1
  /\ \/ /\ SeesLow
        /\ tim2' \in (IF INTR["LOW"] = "now" THEN {NEAR, FAR} ELSE {STALE})
        /\ tk_wup_tsk(tskid_sns)
        /\ SameTask /\ NoMbf
     \/ ~SeesLow /\ NoApi /\ UNCHANGED tim2
  /\ INTR' = NoEdges
  /\ irq' = [irq EXCEPT !.pending = FALSE]
  /\ UNCHANGED << pc, led, sent, echo >>

-----------------------------------------------------------------------------
(***************************************************************************)
(* The sensor: after a trigger ECHO goes HIGH and LOW, or nothing happens. *)
(***************************************************************************)
Edge(from, edge, to) ==
  /\ echo.phase = from
  /\ echo' = [echo EXCEPT !.phase = to]
  /\ INTR' = [INTR EXCEPT ![edge] = echo.of]
  /\ irq' = [irq EXCEPT !.pending = TRUE]

Silence ==
  /\ echo.phase = "armed"
  /\ echo' = [echo EXCEPT !.phase = "idle"]
  /\ UNCHANGED << INTR, irq >>

sensor ==
  /\ Edge("armed", "HIGH", "high") \/ Edge("high", "LOW", "idle") \/ Silence
  /\ NoApi /\ UNCHANGED appvars

\* The echo, with its handler's run, is still to end.
Outstanding == echo.phase # "idle" \/ (irq.enabled /\ irq.pending)

\* Time passes, but an echo has its limit.
TimerStep ==
  \/ /\ SysTick
     /\ Outstanding => echo.ticks < EchoTicks
     /\ echo' = [echo EXCEPT !.ticks = IF Outstanding THEN @ + 1 ELSE 0]
  \/ (TickForever \/ TickCount \/ TickExpire \/ TickReturn) /\ UNCHANGED echo

-----------------------------------------------------------------------------
AppInit ==
  /\ MbfInit
  /\ pc = [t \in Task |-> IF t = tskid_ini THEN "cre_mbf" ELSE "none"]
  /\ tim1 = "old" /\ tim2 = STALE
  /\ led = FALSE
  /\ sent = NULL
  /\ irq = [vec |-> "Default_Handler", enabled |-> FALSE, pending |-> FALSE]
  /\ INTR = NoEdges
  /\ echo = [phase |-> "idle", of |-> "old", ticks |-> 0]

AppTask == usermain \/ tsk_sns \/ tsk_led

AppKernelStep ==
  /\ \/ (main \/ DispatchStep) /\ UNCHANGED echo
     \/ TimerStep
  /\ NoMbf /\ UNCHANGED << appvars, irq, INTR >>

AppNext == AppKernelStep \/ AppTask \/ echo_inthdr \/ sensor

AppSpec == AppInit /\ [][AppNext]_allappvars

\* The kernel's fairness; and the processor executes what it runs, handlers that
\* are pending included, and the sensor answers or stays silent.
AppFairSpec ==
  /\ AppSpec
  /\ WF_allappvars(TimerStep /\ NoMbf /\ UNCHANGED << appvars, irq, INTR >>)
  /\ SF_allappvars((main \/ DispatchStep) /\ UNCHANGED echo /\ NoMbf /\ UNCHANGED << appvars, irq, INTR >>)
  /\ SF_allappvars(AppTask)
  /\ SF_allappvars(echo_inthdr)
  /\ WF_allappvars(sensor)

-----------------------------------------------------------------------------
(***************************************************************************)
(* Properties.                                                             *)
(***************************************************************************)
AppTypeOK ==
  /\ tim1 \in {"now", "old"} /\ tim2 \in {NEAR, FAR, STALE}
  /\ led \in BOOLEAN /\ sent \in {NULL, NEAR, FAR, STALE}
  /\ INTR \in [{"HIGH", "LOW"} -> {"none", "now", "old"}]
  /\ irq \in [vec : {"Default_Handler", "hll_inthdr"}, enabled : BOOLEAN, pending : BOOLEAN]
  /\ irq.enabled => irq.vec = "hll_inthdr"
  /\ echo \in [phase : {"idle", "armed", "high"}, of : {"now", "old"}, ticks : 0 .. EchoTicks]

\* The distance the sensor task sends is that of the echo of its last trigger:
\* both times were taken after it, and no wakeup, time or edge of an earlier
\* measurement is taken for one of this one (usermain.c:117-136).
DistanceIsFresh == At(tskid_sns, "snd") /\ Woken => Distance # STALE

\* Nobody has more than one wakeup pending.  The kernel does not bound wupcnt
\* (task_sync.c:78): an echo has one falling edge, whose wakeup must be counted
\* once, and only if the task has not gone to sleep yet, and the next sleep must
\* take it (usermain.c:69-72, 129).  What a late echo would add is left out by
\* SensorAssumption.
NoPileOfWakeups == \A t \in Task : wupcnt[t] <= 1

\* The buffer never holds more than one distance: of two tasks of one priority,
\* the LED task takes what it was sent before the sensor task runs again, so a
\* send never waits nor times out and no distance is dropped
\* (usermain.c:86-93, 150).
NoDistanceDropped ==
  /\ \A t \in Task : waifct[t] # "TWFCT_MBFS"
  /\ Exists(mbfid) => mbfcb[mbfid].freesz >= mbfcb[mbfid].bufsz - (MSG_SZ + 1)

\* The sensor task measures for ever, whatever becomes of the echoes, the sleep
\* and the messages (usermain.c:117-138).
MeasuresForever == []<>(pc[tskid_sns] = "trig")

\* What is sent is shown, and the LED task is ready for more, unless another
\* distance comes first (usermain.c:89, 150).
SentIsShown ==
  \A d \in {NEAR, FAR} :
    sent = d ~> (state[tskid_led] = "TS_WAIT" /\ led = (d = NEAR)) \/ sent # d
=============================================================================
