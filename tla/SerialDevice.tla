---------------------------- MODULE SerialDevice ----------------------------
(***************************************************************************)
(* What the device drivers promise their callers, without their locks and  *)
(* control blocks: the calls are served one by one, and the answer to a    *)
(* call is made of nothing but the call and of what its own slave or       *)
(* channel did.                                                            *)
(***************************************************************************)
EXTENDS Naturals, SequencesExt

CONSTANTS
  Caller,
  Start,     \* slaves and channels
  Size,
  NULL

VARIABLES
  request,   \* request[t]: the call of t that is not served yet
  answer     \* answer[t]: what t's call is answered, until it returns

Request == [op : {"read", "write", "exec"}, start : Start, size : Size \cup {1}]

Init ==
  /\ request = [t \in Caller |-> NULL]
  /\ answer = [t \in Caller |-> NULL]

Ask(t, r) ==
  /\ request[t] = NULL /\ answer[t] = NULL
  /\ request' = [request EXCEPT ![t] = r]
  /\ UNCHANGED answer

\* The bytes of t's buffer, and those a slave gives.
Own(t, n) == [i \in 1 .. n |-> << t, i >>]
From(slave, n) == [i \in 1 .. n |-> slave]

\* A call for nothing is an error.  A read has all its bytes or ends with E_IO;
\* a write says nothing of what has become of its bytes, a slave may have
\* refused any of them.
MayAnswer(t, r, a) ==
  /\ a.err = "E_PAR" <=> r.size = 0
  /\ r.op = "read" => a.sent = << >>
  /\ r.op = "write" => a.err # "E_IO"
  /\ IsPrefix(a.sent, Own(t, r.size))
  /\ r.op # "write" /\ a.err = "E_OK" => a.got = From(r.start, r.size)
  /\ r.op = "exec" /\ a.err = "E_OK" => a.sent = Own(t, r.size)

Serve(t) ==
  /\ request[t] # NULL
  /\ request' = [request EXCEPT ![t] = NULL]
  /\ answer'[t] # NULL /\ MayAnswer(t, request[t], answer'[t])
  /\ \A u \in Caller \ {t} : answer'[u] = answer[u]

Return(t) ==
  /\ answer[t] # NULL
  /\ answer' = [answer EXCEPT ![t] = NULL]
  /\ UNCHANGED request

Next == \E t \in Caller : Serve(t) \/ Return(t) \/ \E r \in Request : Ask(t, r)

Spec == Init /\ [][Next]_<< request, answer >>
=============================================================================
