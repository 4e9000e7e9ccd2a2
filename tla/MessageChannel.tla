--------------------------- MODULE MessageChannel ---------------------------
(***************************************************************************)
(* What message buffers promise, without their bytes: messages come out of *)
(* a buffer whole, each once, in the order in which they went in.          *)
(***************************************************************************)
EXTENDS Sequences

CONSTANTS
  Buffer,
  Receiver,
  Msg         \* the messages

VARIABLES
  channel,    \* channel[b]: the messages stored in b, the oldest first
  received    \* received[t]: the message t has got last

Init ==
  /\ channel = [b \in Buffer |-> << >>]
  /\ received = [t \in Receiver |-> << >>]

Send(b, m) ==
  /\ UNCHANGED received
  /\ channel' = [channel EXCEPT ![b] = Append(@, m)]

\* The oldest message of chan, which b would hold, goes to t.
Deliver(t, b, chan) ==
  /\ chan # << >>
  /\ received' = [received EXCEPT ![t] = Head(chan)]
  /\ channel' = [channel EXCEPT ![b] = Tail(chan)]

\* A message comes in and the oldest one goes out, in one call: a sender finds
\* a receiver waiting, or a receiver makes room for a sender.
Pass(m, t, b) == Deliver(t, b, Append(channel[b], m))

Receive(t, b) == Deliver(t, b, channel[b])

Next ==
  \E b \in Buffer :
    \/ \E m \in Msg : Send(b, m)
    \/ \E t \in Receiver : Receive(t, b)
    \/ \E m \in Msg, t \in Receiver : Pass(m, t, b)

Spec == Init /\ [][Next]_<< channel, received >>
=============================================================================
