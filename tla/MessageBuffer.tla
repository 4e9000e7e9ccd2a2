--------------------------- MODULE MessageBuffer ---------------------------
(***************************************************************************)
(* kernel/messagebuf.c over the kernel: a ring of bytes in which a message *)
(* is its length followed by its bytes, and the tasks that wait to send    *)
(* and to receive.  The memory of a buffer is modelled with the byte that  *)
(* lies behind it, because the ring's code can reach it; the byte is taken *)
(* to belong to nobody, the most benign outcome.                           *)
(***************************************************************************)
EXTENDS Kernel

CONSTANTS
  CNF_MAX_MBFID,   \* config.h: number of message buffers
  CMbf,            \* the arguments of tk_cre_mbf, [bufsz, maxmsz]
  Msg,             \* the messages, sequences of bytes
  MbfTmo           \* the tmout arguments of tk_snd_mbf and tk_rcv_mbf

Mbf == 1 .. CNF_MAX_MBFID
Byte == 0 .. 255

ASSUME MessageBufferAssumption ==
  /\ CNF_MAX_MBFID \in Nat
  /\ CMbf \subseteq [bufsz : Int, maxmsz : Int]
  /\ Msg \subseteq Seq(Byte) \ {<< >>}
  /\ \A c \in CMbf, m \in Msg : Len(m) <= c.maxmsz
  /\ MbfTmo \subseteq Int

VARIABLES
  mbfcb,    \* the table of message buffers, mbfcb_tbl, each with its bytes mem
  waiobj,   \* tcb->waiobj of the waits for a buffer, NULL before the first
  msg,      \* *tcb->msg of a sender that waits or has waited
  received  \* the message in the buffer that a task passed to tk_rcv_mbf

mbfvars == << mbfcb, waiobj, msg, received >>

Exists(m) == mbfcb[m].state = "KS_EXIST"

-----------------------------------------------------------------------------
(***************************************************************************)
(* The ring.  cb is an entry of mbfcb, an address an offset from bufptr;   *)
(* bufsz is the offset of limit.  A definition that another one is said to *)
(* replace is a plausible bug: the properties are tried on it.             *)
(***************************************************************************)

\* For DataAt: wraps round one byte late.
LateAt(cb, a, i) ==
  IF i = 1 THEN a + 1 ELSE IF a + i > cb.bufsz THEN a + i - cb.bufsz - 1 ELSE a + i

\* The address of byte i of a message whose length is at a, and with i one more
\* than its length that of what follows it.  The test for the end of the ring
\* comes after each byte of data, not after the length.
DataAt(cb, a, i) ==
  IF i = 1 THEN a + 1
  ELSE ((IF a + 2 >= cb.bufsz THEN 0 ELSE a + 2) + i - 2) % cb.bufsz

\* What a message takes: sizeof(UB) for its length.
Taken(sz) == sz + 1

store_msg(cb, m) ==
  LET Written(a) == {i \in 1 .. Len(m) : DataAt(cb, cb.buf_wp, i) = a}
  IN  [cb EXCEPT
         !.mem = [a \in DOMAIN cb.mem |->
                    IF Written(a) # {} THEN m[CHOOSE i \in Written(a) : TRUE]
                    ELSE IF a = cb.buf_wp THEN Len(m) ELSE cb.mem[a]],
         !.freesz = @ - Taken(Len(m)),
         !.buf_wp = DataAt(cb, @, Len(m) + 1)]

\* The message at a.
MsgAt(cb, a) == [i \in 1 .. cb.mem[a] |-> cb.mem[DataAt(cb, a, i)]]

\* For Retrieved: forgets to write buf_rp back.
RetrievedAgain(cb) == [cb EXCEPT !.freesz = @ + Taken(cb.mem[cb.buf_rp])]

\* For Retrieved: forgets the byte of the length.
RetrievedData(cb) ==
  [cb EXCEPT !.freesz = @ + cb.mem[cb.buf_rp],
             !.buf_rp = DataAt(cb, @, cb.mem[cb.buf_rp] + 1)]

\* What retrieve_msg leaves of the ring; the message is MsgAt(cb, cb.buf_rp).
Retrieved(cb) ==
  [cb EXCEPT !.freesz = @ + Taken(cb.mem[cb.buf_rp]),
             !.buf_rp = DataAt(cb, @, cb.mem[cb.buf_rp] + 1)]

\* For HasRoom: forgets the byte of the length.
RoomForData(cb, sz) == UW(cb.freesz) > sz

\* The comparison that lets a sender store; sizeof makes it one of unsigned.
HasRoom(cb, sz) == UW(cb.freesz) > UW(Taken(sz))

\* The comparison that lets a waiting sender store.
Fits(cb, sz) == sz <= cb.freesz

-----------------------------------------------------------------------------
WaitsFor(t, fct, m) == state[t] = "TS_WAIT" /\ waifct[t] = fct /\ waiobj[t] = m

\* The first task a loop over wait_queue finds that waits so.
FirstWaiter(t, fct, m) ==
  /\ WaitsFor(t, fct, m)
  /\ \E i \in 1 .. Len(wait_queue) :
       /\ wait_queue[i] = t
       /\ \A j \in 1 .. i - 1 : ~WaitsFor(wait_queue[j], fct, m)

\* For FirstSender: a line copied from tk_snd_mbf.
CopiedFromSend(t, m) == FirstWaiter(t, "TWFCT_MBFR", m)

\* For FirstReceiver: a line copied from tk_rcv_mbf.
CopiedFromReceive(t, m) == FirstWaiter(t, "TWFCT_MBFS", m)

FirstSender(t, m) == FirstWaiter(t, "TWFCT_MBFS", m)
FirstReceiver(t, m) == FirstWaiter(t, "TWFCT_MBFR", m)

wait_for(fct, m, tmout) ==
  /\ enter_wait(fct, WaitTim(tmout))
  /\ waiobj' = [waiobj EXCEPT ![cur_task] = m]
  /\ UNCHANGED mbfcb

\* The caller's err keeps its initial value and the kernel is left alone.
returns_ok ==
  /\ err' = [err EXCEPT ![cur_task] = "E_OK"]
  /\ UNCHANGED << state, itskpri, wupcnt, waifct, waitim, waierr, queues, sche_task, pend_sv >>

-----------------------------------------------------------------------------
(***************************************************************************)
(* The APIs.  A call that returns E_ID, E_PAR, E_NOEXS or E_LIMIT changes  *)
(* nothing and is no step.                                                 *)
(***************************************************************************)
tk_cre_mbf(pk) ==
  /\ pk.bufsz > 0 /\ pk.maxmsz > 0 /\ pk.maxmsz < 256
  /\ pk.bufsz >= pk.maxmsz + 1
  /\ \E m \in Mbf :
       /\ ~Exists(m)
       /\ \A n \in Mbf : n < m => Exists(n)
       /\ mbfcb' = [mbfcb EXCEPT ![m] =
            [state |-> "KS_EXIST", bufsz |-> pk.bufsz, freesz |-> pk.bufsz,
             buf_rp |-> 0, buf_wp |-> 0, mem |-> [a \in 0 .. pk.bufsz |-> 0]]]
  /\ UNCHANGED << tcb, queues, sche_task, pend_sv, waiobj, msg, received >>

\* The message goes into the ring, and the oldest one to the first receiver
\* that waits, whose result is its length; or the caller waits.
tk_snd_mbf(m, message, tmout) ==
  /\ Exists(m)
  /\ \/ /\ HasRoom(mbfcb[m], Len(message))
        /\ LET cb == store_msg(mbfcb[m], message)
           IN  \/ \E t \in Task :
                    /\ FirstReceiver(t, m)
                    /\ received' = [received EXCEPT ![t] = MsgAt(cb, cb.buf_rp)]
                    /\ mbfcb' = [mbfcb EXCEPT ![m] = Retrieved(cb)]
                    /\ release(t)
                    /\ err' = [err EXCEPT ![waierr[t]] = "E_OK", ![cur_task] = "E_OK"]
                    /\ scheduler
                    /\ UNCHANGED waierr
               \/ /\ \A t \in Task : ~FirstReceiver(t, m)
                  /\ mbfcb' = [mbfcb EXCEPT ![m] = cb]
                  /\ returns_ok
                  /\ UNCHANGED received
        /\ UNCHANGED << waiobj, msg >>
     \/ /\ ~HasRoom(mbfcb[m], Len(message))
        /\ wait_for("TWFCT_MBFS", m, tmout)
        /\ msg' = [msg EXCEPT ![cur_task] = message]
        /\ UNCHANGED received

\* The oldest message goes to the caller, and that of the first sender that
\* waits into the ring, if it fits; or the caller waits.
tk_rcv_mbf(m, tmout) ==
  /\ Exists(m)
  /\ \/ /\ mbfcb[m].buf_rp # mbfcb[m].buf_wp
        /\ received' = [received EXCEPT ![cur_task] = MsgAt(mbfcb[m], mbfcb[m].buf_rp)]
        /\ LET cb == Retrieved(mbfcb[m])
           IN  \/ \E t \in Task :
                    /\ FirstSender(t, m) /\ Fits(cb, Len(msg[t]))
                    /\ mbfcb' = [mbfcb EXCEPT ![m] = store_msg(cb, msg[t])]
                    /\ release(t)
                    /\ err' = [err EXCEPT ![cur_task] = "E_OK"]
                    /\ scheduler
                    /\ UNCHANGED waierr
               \/ /\ \A t \in Task : FirstSender(t, m) => ~Fits(cb, Len(msg[t]))
                  /\ mbfcb' = [mbfcb EXCEPT ![m] = cb]
                  /\ returns_ok
        /\ UNCHANGED waiobj
     \/ /\ mbfcb[m].buf_rp = mbfcb[m].buf_wp
        /\ wait_for("TWFCT_MBFR", m, tmout)
        /\ UNCHANGED received
  /\ UNCHANGED msg

TaskCreatesMbf ==
  /\ InTask
  /\ \E pk \in CMbf : tk_cre_mbf(pk)
  /\ UNCHANGED << dispatcher, timer >>

TaskSends ==
  /\ InTask
  /\ \E m \in Mbf, message \in Msg, tmout \in MbfTmo : tk_snd_mbf(m, message, tmout)
  /\ UNCHANGED << dispatcher, timer >>

TaskReceives ==
  /\ InTask
  /\ \E m \in Mbf, tmout \in MbfTmo : tk_rcv_mbf(m, tmout)
  /\ UNCHANGED << dispatcher, timer >>

-----------------------------------------------------------------------------
MbfInit ==
  /\ Init
  /\ mbfcb = [m \in Mbf |-> [state |-> "KS_NONEXIST", bufsz |-> 0, freesz |-> 0,
                             buf_rp |-> 0, buf_wp |-> 0, mem |-> [a \in {0} |-> 0]]]
  /\ waiobj = [t \in Task |-> NULL]
  /\ msg = [t \in Task |-> << >>]
  /\ received = [t \in Task |-> << >>]

KernelStep == Next /\ UNCHANGED mbfvars

MbfNext == KernelStep \/ TaskCreatesMbf \/ TaskSends \/ TaskReceives

MbfSpec == MbfInit /\ [][MbfNext]_<< vars, mbfvars >>

-----------------------------------------------------------------------------
(***************************************************************************)
(* Properties.                                                             *)
(***************************************************************************)

\* The messages from buf_rp to buf_wp, as retrieve_msg would read them one after
\* the other: at[n] is where it finds the n-th, and buf_wp behind the last; each
\* takes two bytes at least.
Contents(cb) ==
  LET behind == [a \in 0 .. cb.bufsz - 1 |->
                   IF a = cb.buf_wp THEN a ELSE DataAt(cb, a, cb.mem[a] + 1)]
      at[n \in 1 .. cb.bufsz \div 2] == IF n = 1 THEN cb.buf_rp ELSE behind[at[n - 1]]
      k == Cardinality({n \in DOMAIN at : at[n] # cb.buf_wp})
      message == [a \in 0 .. cb.bufsz - 1 |-> MsgAt(cb, a)]
  IN  [n \in 1 .. k |-> message[at[n]]]

MbfTypeOK ==
  /\ \A m \in Mbf : Exists(m) =>
       LET cb == mbfcb[m]
       IN  /\ cb.freesz \in 0 .. cb.bufsz
           /\ cb.buf_rp \in 0 .. cb.bufsz - 1
           /\ cb.buf_wp \in 0 .. cb.bufsz - 1
           /\ cb.mem \in [0 .. cb.bufsz -> Byte]
  /\ waiobj \in [Task -> Mbf \cup {NULL}]
  /\ msg \in [Task -> Msg \cup {<< >>}]
  /\ received \in [Task -> Msg \cup {<< >>}]

\* Messages come out whole, once, and in order, whoever waits for whom and
\* wherever the ring wraps round (messagebuf.c:44-82, 97-114, 152-170).
Channel == INSTANCE MessageChannel WITH
  Buffer <- Mbf,
  Receiver <- Task,
  channel <- [m \in Mbf |-> IF Exists(m) THEN Contents(mbfcb[m]) ELSE << >>]
IsChannel == Channel!Spec

\* Nothing is stored behind the buffer: its bufsz bytes are all there is
\* (apidef.h:127-129, knldef.h:147-149).
StaysInBuffer == \A m \in Mbf : mbfcb[m].mem[mbfcb[m].bufsz] = 0

\* freesz is the room that the messages from buf_rp to buf_wp leave
\* (knldef.h:151-153).
FreeszIsRoom ==
  \A m \in Mbf : Exists(m) =>
    mbfcb[m].freesz = mbfcb[m].bufsz - ((mbfcb[m].buf_wp - mbfcb[m].buf_rp) % mbfcb[m].bufsz)

\* Who waits to receive waits because there is no message (messagebuf.c:172).
ReceiverWaitsForMessage ==
  \A t \in Task, m \in Mbf :
    WaitsFor(t, "TWFCT_MBFR", m) => mbfcb[m].freesz = mbfcb[m].bufsz

\* Who waits to send waits because messages take up the room
\* (messagebuf.c:116); so senders and receivers never wait for each other.
SenderWaitsForRoom ==
  \A t \in Task, m \in Mbf :
    WaitsFor(t, "TWFCT_MBFS", m) => mbfcb[m].freesz < mbfcb[m].bufsz
=============================================================================
