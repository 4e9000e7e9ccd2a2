------------------------------- MODULE Device -------------------------------
(***************************************************************************)
(* device/devmgr and the drivers device/i2c and device/adc over the        *)
(* semaphores: tasks open devices and read and write them, a driver locks  *)
(* its unit with a semaphore and drives the hardware byte by byte, with    *)
(* interrupts open, so another task may run in the middle of a transfer.   *)
(*                                                                         *)
(* A descriptor is the name of its device.  A byte that is sent is the     *)
(* place in the caller's buffer it comes from, << task, index >>; a byte   *)
(* that is read is the slave or the channel it comes from.                 *)
(***************************************************************************)
EXTENDS Semaphore

CONSTANTS
  DevNm,    \* the devices tasks open
  OMode,    \* the omode arguments of tk_opn_dev
  Start,    \* the start arguments of reads and writes: slaves, channels
  Size      \* their size arguments

I2C == {"iica", "iicb"}
Dev == I2C \cup {"adca"}
Lock == [isemcnt |-> 1, maxsem |-> 1]

ASSUME DeviceAssumption ==
  /\ DevNm \subseteq Dev
  /\ OMode \subseteq SUBSET {"TD_READ", "TD_WRITE"}
  /\ Size \subseteq Nat
  /\ NULL \notin Start
  /\ Lock \in CSem /\ TMO_FEVR \in Tmo
  /\ Cnt = {1}    \* the drivers ask for their locks, one at a time

VARIABLES
  dev_tbl,    \* the registered devices: omode and opncnt
  ll_devcb,   \* the drivers' control blocks; semid is NULL as long as init is
              \* FALSE; sbuf and rbuf are places in a task's buffer
  call,       \* what the call of each task is and how far it has come
  buf,        \* the buffers of the calls, as far as they have been filled
  result,     \* history: what a call that is about to unlock will return
  unit        \* the hardware of each device

devvars == << dev_tbl, ll_devcb, call, buf, result >>
alldevvars == << vars, semvars, devvars, unit >>

\* What is left of a call when it has returned: nothing.
NoCall == [pc |-> "none", dd |-> NULL, op |-> NULL, start |-> NULL, size |-> 0,
           state |-> "I2C_STS_START", err |-> "E_OK"]

Idle == cur_task # NULL /\ call[cur_task].pc = "none"
At(pc) == InTask /\ call[cur_task].pc = pc

\* The device and the control block of the running call.
Dd == call[cur_task].dd
Cb == ll_devcb[Dd]

Goto(pc) == call' = [call EXCEPT ![cur_task].pc = pc]

\* What no step of a driver between its lock and its unlock changes.
NoApi == UNCHANGED << vars, semvars, dev_tbl >>

-----------------------------------------------------------------------------
(***************************************************************************)
(* The device manager.  A call that returns an error before it takes the   *)
(* lock, and a second open, change nothing and are no step.  A definition  *)
(* that another one is said to replace is a plausible bug.                 *)
(***************************************************************************)

\* For Refuses: takes every mode.
RefusesNothing(d, omode) == FALSE

\* The modes the open function of the device does not take.
Refuses(d, omode) == d = "adca" /\ "TD_WRITE" \in omode

\* For Opens: creates no semaphore if there is one.
OpensShared(d, omode) ==
  /\ dev_tbl' = [dev_tbl EXCEPT ![d] = [omode |-> omode, opncnt |-> @.opncnt + 1]]
  /\ \E s \in Sem : ll_devcb' = [ll_devcb EXCEPT ![d].semid = s]
  /\ \/ Exists(1) /\ UNCHANGED << vars, semvars >>
     \/ ~Exists(1) /\ tk_cre_sem(Lock) /\ UNCHANGED << dispatcher, timer >>

\* The first open creates the lock.  The driver's init is FALSE, because it and
\* opncnt are set in the same call.
Opens(d, omode) ==
  /\ dev_tbl' = [dev_tbl EXCEPT ![d] = [omode |-> omode, opncnt |-> @.opncnt + 1]]
  /\ tk_cre_sem(Lock)
  /\ UNCHANGED << dispatcher, timer >>
  /\ \E s \in Sem :
       /\ semcb[s].state # semcb'[s].state
       /\ ll_devcb' = [ll_devcb EXCEPT ![d].semid = s]

\* For IsOpen: an open that the driver has done already is done again.
IsNeverOpen(d) == FALSE

IsOpen(d) == dev_tbl[d].opncnt # 0

tk_opn_dev(d, omode) ==
  /\ ~IsOpen(d)
  /\ ~Refuses(d, omode)
  /\ Opens(d, omode)
  /\ UNCHANGED << call, buf, result, unit >>

\* For Locks: a driver that does not lock.
LocksNothing(d) == UNCHANGED << vars, semvars >>

\* The first thing a driver's read or write does after its checks.
Locks(d) ==
  /\ tk_wai_sem(ll_devcb[d].semid, 1, TMO_FEVR)
  /\ UNCHANGED << dispatcher, timer >>

\* The entry of a read or write, up to the return of tk_wai_sem: what is checked
\* of the device is never unset, so the step may be one.
Enters(d, op, start, size) ==
  /\ IsOpen(d)
  /\ Locks(d)
  /\ call' = [call EXCEPT ![cur_task] =
       [pc |-> "locked", dd |-> d, op |-> op, start |-> start, size |-> size,
        state |-> "I2C_STS_START", err |-> "E_OK"]]
  /\ buf' = [buf EXCEPT ![cur_task] = [i \in 1 .. size |-> NULL]]
  /\ UNCHANGED << dev_tbl, ll_devcb, result, unit >>

ADC_CH_NUM == 5

\* The only size the ADC driver takes is 1.
tk_srea_dev(d, start, size) ==
  /\ "TD_READ" \in dev_tbl[d].omode
  /\ \/ d \in I2C /\ Enters(d, "read", start, size)
     \/ d = "adca" /\ start \in 0 .. ADC_CH_NUM - 1 /\ Enters(d, "read", start, 1)

\* With start TDN_I2C_EXEC the buffer names a slave, a byte and a place for one.
tk_swri_dev(d, start, size) ==
  /\ "TD_WRITE" \in dev_tbl[d].omode
  /\ \/ Enters(d, "write", start, size)
     \/ Enters(d, "exec", start, 1)

-----------------------------------------------------------------------------
(***************************************************************************)
(* i2c_rp2040.c, with the lock.                                            *)
(***************************************************************************)
set_com_start ==
  /\ At("locked") /\ Dd \in I2C
  /\ LET c == call[cur_task]
     IN  ll_devcb' = [ll_devcb EXCEPT ![Dd] =
           [semid |-> @.semid, sadr |-> c.start,
            sdat_num |-> IF c.op = "read" THEN 0 ELSE c.size,
            rdat_num |-> IF c.op = "write" THEN 0 ELSE c.size,
            sbuf |-> IF c.op = "read" THEN NULL ELSE << cur_task, 1 >>,
            rbuf |-> IF c.op = "write" THEN NULL ELSE << cur_task, 1 >>]]
  /\ Goto("start")
  /\ NoApi /\ UNCHANGED << buf, result, unit >>

\* For NextState: after the last byte sent there is nothing to receive.
StopsAfterSend(cb) == IF cb.sdat_num > 0 THEN "I2C_STS_SEND" ELSE "I2C_STS_STOP"

\* What is to be done next, when cb counts what is left.
NextState(cb) ==
  IF cb.sdat_num > 0 THEN "I2C_STS_SEND"
  ELSE IF cb.rdat_num > 0 THEN "I2C_STS_RECV" ELSE "I2C_STS_STOP"

\* i2c_trans up to its loop.
TransStart ==
  /\ At("start")
  /\ unit' = [unit EXCEPT ![Dd] = [target |-> Cb.sadr, cmd |-> NULL, rx |-> << >>,
                                   abort |-> FALSE, line |-> << >>]]
  /\ call' = [call EXCEPT ![cur_task] =
       [@ EXCEPT !.pc = "loop", !.state = NextState(Cb),
                 !.err = IF NextState(Cb) = "I2C_STS_STOP" THEN "E_PAR"
                         ELSE call[cur_task].err]]
  /\ NoApi /\ UNCHANGED << ll_devcb, buf, result >>

\* A turn of the loop gives the controller a byte to send ...
TransSend ==
  /\ At("loop") /\ call[cur_task].state = "I2C_STS_SEND"
  /\ unit' = [unit EXCEPT ![Dd].cmd = [op |-> "WRITE", byte |-> Cb.sbuf]]
  /\ LET cb == [Cb EXCEPT !.sdat_num = @ - 1, !.sbuf[2] = @ + 1]
     IN  /\ ll_devcb' = [ll_devcb EXCEPT ![Dd] = cb]
         /\ call' = [call EXCEPT ![cur_task].pc = "send", ![cur_task].state = NextState(cb)]
  /\ NoApi /\ UNCHANGED << buf, result >>

\* ... and waits for TX_EMPTY ...
TransSent ==
  /\ At("send")
  /\ unit[Dd].cmd = NULL
  /\ Goto("loop")
  /\ NoApi /\ UNCHANGED << ll_devcb, buf, result, unit >>

\* ... or tells it to read a byte ...
TransRecv ==
  /\ At("loop") /\ call[cur_task].state = "I2C_STS_RECV"
  /\ unit' = [unit EXCEPT ![Dd].cmd = [op |-> "READ", byte |-> unit[Dd].target]]
  /\ LET cb == [Cb EXCEPT !.rdat_num = @ - 1]
     IN  /\ ll_devcb' = [ll_devcb EXCEPT ![Dd] = cb]
         /\ call' = [call EXCEPT ![cur_task].pc = "recv", ![cur_task].state = NextState(cb)]
  /\ NoApi /\ UNCHANGED << buf, result >>

\* Stores a byte at rbuf and moves rbuf on.
Stores(byte) ==
  /\ buf' = [buf EXCEPT ![Cb.rbuf[1]][Cb.rbuf[2]] = byte]
  /\ ll_devcb' = [ll_devcb EXCEPT ![Dd].rbuf[2] = @ + 1]

\* For TransReceived: takes what there is without a look at the abort.
ReceivesAnything ==
  /\ At("recv")
  /\ unit[Dd].cmd = NULL
  /\ Stores(IF unit[Dd].abort THEN NULL ELSE Head(unit[Dd].rx))
  /\ unit' = [unit EXCEPT ![Dd].rx = << >>]
  /\ Goto("loop")
  /\ NoApi /\ UNCHANGED result

\* ... and waits for an abort or for the byte.  After an abort the byte it
\* stores comes from an empty FIFO, NULL.
TransReceived ==
  /\ At("recv")
  /\ \/ /\ unit[Dd].abort
        /\ Stores(NULL)
        /\ call' = [call EXCEPT ![cur_task].pc = "loop", ![cur_task].err = "E_IO",
                                ![cur_task].state = "I2C_STS_STOP"]
        /\ UNCHANGED unit
     \/ /\ ~unit[Dd].abort
        /\ unit[Dd].rx # << >>
        /\ Stores(Head(unit[Dd].rx))
        /\ unit' = [unit EXCEPT ![Dd].rx = Tail(@)]
        /\ Goto("loop")
  /\ NoApi /\ UNCHANGED result

\* The end of i2c_trans; the controller, switched off, forgets what it holds.
TransEnd ==
  /\ At("loop") /\ call[cur_task].state = "I2C_STS_STOP"
  /\ result' = [result EXCEPT ![cur_task] = [err |-> call[cur_task].err, sent |-> unit[Dd].line]]
  /\ unit' = [unit EXCEPT ![Dd].cmd = NULL, ![Dd].rx = << >>, ![Dd].line = << >>]
  /\ Goto("unlock")
  /\ NoApi /\ UNCHANGED << ll_devcb, buf >>

-----------------------------------------------------------------------------
(***************************************************************************)
(* adc_rp2040.c, and the unlocking of both drivers.                        *)
(***************************************************************************)
AdcStart ==
  /\ At("locked") /\ Dd = "adca"
  /\ unit[Dd].cmd = NULL
  /\ unit' = [unit EXCEPT ![Dd].cmd = [op |-> "READ", byte |-> call[cur_task].start]]
  /\ Goto("convert")
  /\ NoApi /\ UNCHANGED << ll_devcb, buf, result >>

AdcRead ==
  /\ At("convert")
  /\ unit[Dd].cmd = NULL
  /\ buf' = [buf EXCEPT ![cur_task] = << Head(unit[Dd].rx) >>]
  /\ unit' = [unit EXCEPT ![Dd].rx = Tail(@)]
  /\ result' = [result EXCEPT ![cur_task] = [err |-> "E_OK", sent |-> << >>]]
  /\ Goto("unlock")
  /\ NoApi /\ UNCHANGED ll_devcb

Unlock ==
  /\ At("unlock")
  /\ tk_sig_sem(Cb.semid, 1, cur_task)
  /\ call' = [call EXCEPT ![cur_task] = NoCall]
  /\ buf' = [buf EXCEPT ![cur_task] = << >>]
  /\ result' = [result EXCEPT ![cur_task] = NULL]
  /\ UNCHANGED << dispatcher, timer, dev_tbl, ll_devcb, unit >>

-----------------------------------------------------------------------------
(***************************************************************************)
(* The hardware, as the drivers use it: what it is told to do, it does; an *)
(* I2C slave may refuse any byte, or not be there, and the controller then *)
(* drops commands until the abort is cleared.                              *)
(***************************************************************************)
Accepts(d) ==
  /\ unit[d].cmd # NULL /\ ~unit[d].abort
  /\ LET byte == unit[d].cmd.byte
     IN  unit' = IF unit[d].cmd.op = "READ"
                 THEN [unit EXCEPT ![d].rx = Append(@, byte), ![d].cmd = NULL]
                 ELSE [unit EXCEPT ![d].line = Append(@, byte), ![d].cmd = NULL]

Aborts(d) ==
  /\ unit[d].cmd # NULL /\ d \in I2C
  /\ unit' = [unit EXCEPT ![d].abort = TRUE, ![d].cmd = NULL]

Hardware ==
  /\ \E d \in Dev : Accepts(d) \/ Aborts(d)
  /\ UNCHANGED << vars, semvars, devvars >>

-----------------------------------------------------------------------------
DevInit ==
  /\ SemInit
  /\ dev_tbl = [d \in Dev |-> [omode |-> {}, opncnt |-> 0]]
  /\ ll_devcb = [d \in Dev |-> [semid |-> NULL, sadr |-> NULL, sdat_num |-> 0, rdat_num |-> 0,
                                sbuf |-> NULL, rbuf |-> NULL]]
  /\ call = [t \in Task |-> NoCall]
  /\ buf = [t \in Task |-> << >>]
  /\ result = [t \in Task |-> NULL]
  /\ unit = [d \in Dev |-> [target |-> NULL, cmd |-> NULL, rx |-> << >>,
                            abort |-> FALSE, line |-> << >>]]

\* The calls a task makes between its calls of the device manager.
OtherCall == Idle /\ (TaskCreates \/ TaskStarts \/ tk_ext_tsk \/ tk_dly_tsk \/ tk_slp_tsk \/ TaskWakes)

DevKernelStep ==
  /\ main \/ OtherCall \/ HandlerStep \/ DispatchStep \/ TickStep
  /\ Enter(NULL, 0)
  /\ UNCHANGED << semcb, waiobj, waisem, devvars, unit >>

TaskOpens == InTask /\ Idle /\ \E d \in DevNm, omode \in OMode : tk_opn_dev(d, omode)
TaskReads ==
  InTask /\ Idle /\ \E d \in Dev, start \in Start, size \in Size : tk_srea_dev(d, start, size)
TaskWrites ==
  InTask /\ Idle /\ \E d \in Dev, start \in Start, size \in Size : tk_swri_dev(d, start, size)

TransStep == TransStart \/ TransSend \/ TransSent \/ TransRecv \/ TransReceived \/ TransEnd
DriverStep == set_com_start \/ TransStep \/ AdcStart \/ AdcRead \/ Unlock

DevNext == DevKernelStep \/ TaskOpens \/ TaskReads \/ TaskWrites \/ DriverStep \/ Hardware

DevSpec == DevInit /\ [][DevNext]_alldevvars

-----------------------------------------------------------------------------
(***************************************************************************)
(* Properties.                                                             *)
(***************************************************************************)

\* t has the lock of d: its tk_wai_sem has returned, or will when t runs, and
\* it has not called tk_sig_sem.
Holds(t, d) ==
  call[t].pc # "none" /\ call[t].dd = d /\ ~(state[t] = "TS_WAIT" /\ waifct[t] = "TWFCT_SEM")

\* One transfer at a time on a unit, whoever preempts whom in the middle of it,
\* and whoever waits for the lock waits for somebody who will return it: the one
\* unit of the semaphore is in the semaphore or with one holder
\* (i2c_rp2040.c:206, 227, adc_rp2040.c:83).
OneTransferPerUnit ==
  \A d \in Dev :
    IF dev_tbl[d].opncnt = 0 THEN \A t \in Task : ~Holds(t, d)
    ELSE /\ \A t, u \in Task : Holds(t, d) /\ Holds(u, d) => t = u
         /\ semcb[ll_devcb[d].semid].semcnt = 0 <=> \E t \in Task : Holds(t, d)

\* Two devices never share a lock, and an open device has one
\* (i2c_rp2040.c:76-83, adc_rp2040.c:58-65).
LocksAreDistinct ==
  \A d, e \in Dev : dev_tbl[d].opncnt > 0 =>
    /\ ll_devcb[d].semid \in Sem /\ Exists(ll_devcb[d].semid)
    /\ dev_tbl[e].opncnt > 0 /\ ll_devcb[d].semid = ll_devcb[e].semid => d = e

\* The write function of the ADC, which is 0 in the table, is never called: the
\* refusal at the open is all that stands before it (device_tbl.c:13,
\* adc_rp2040.c:56).
NoWriteToAdc ==
  \A t \in Task : call[t].pc # "none" /\ call[t].dd = "adca" => call[t].op = "read"

\* The transfers of the tasks are as if one by one, see SerialDevice: a read
\* that returns E_OK has stored the bytes its own slave or channel gave it, and
\* what a write sends is its own, in order (i2c_rp2040.c:107-183).
SerialDevice == INSTANCE SerialDevice WITH
  Caller <- Task,
  request <- [t \in Task |->
    IF call[t].pc = "none" \/ result[t] # NULL THEN NULL
    ELSE [op |-> call[t].op, start |-> call[t].start, size |-> call[t].size]],
  answer <- [t \in Task |->
    IF result[t] = NULL THEN NULL
    ELSE [err |-> result[t].err, sent |-> result[t].sent, got |-> buf[t]]]
IsSerialDevice == SerialDevice!Spec

\* What the records hold: a place is one in a task's buffer.
Error == {"E_OK", "E_PAR", "E_IO"}
Place == Task \X Nat
Block == [semid : Sem \cup {NULL}, sadr : Start \cup {NULL}, sdat_num : Nat, rdat_num : Nat,
          sbuf : Place \cup {NULL}, rbuf : Place \cup {NULL}]
Call == [pc : {"none", "locked", "start", "loop", "send", "recv", "convert", "unlock"},
         dd : Dev \cup {NULL}, op : {"read", "write", "exec", NULL},
         start : Start \cup {NULL}, size : Nat, err : Error,
         state : {"I2C_STS_START", "I2C_STS_SEND", "I2C_STS_RECV", "I2C_STS_STOP"}]
Buffer == Seq(Start \cup {NULL})
Result == [err : Error, sent : Seq(Place)]
Command == [op : {"WRITE"}, byte : Place] \cup [op : {"READ"}, byte : Start]
Unit == [target : Start \cup {NULL}, cmd : Command \cup {NULL}, rx : Seq(Start),
         abort : BOOLEAN, line : Seq(Place)]

ASSUME NullIsNoRecord ==
  /\ NULL \notin Command \cup Result
  /\ NULL \notin [op : {"read", "write", "exec"}, start : Start, size : Nat]
  /\ NULL \notin [err : Error, sent : Seq(Place), got : Buffer]

DevTypeOK ==
  /\ dev_tbl \in [Dev -> [omode : SUBSET {"TD_READ", "TD_WRITE"}, opncnt : 0 .. 1]]
  /\ ll_devcb \in [Dev -> Block]
  /\ call \in [Task -> Call]
  /\ buf \in [Task -> Buffer]
  /\ result \in [Task -> Result \cup {NULL}]
  /\ unit \in [Dev -> Unit]
=============================================================================
