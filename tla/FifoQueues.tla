----------------------------- MODULE FifoQueues -----------------------------
(***************************************************************************)
(* What the queue functions of kernel/task_queue.c promise, without their  *)
(* pointers: a family of first-in first-out queues of TCBs.  A TCB is in   *)
(* one queue at most, because it has one pair of link fields.              *)
(***************************************************************************)
EXTENDS Naturals, SequencesExt

CONSTANTS
  Queue,   \* the queue heads: wait_queue and one ready queue per priority
  TCB      \* the task control blocks

VARIABLE queue   \* queue[q]: the TCBs of q, the first one at index 1

Queued(t) == \E q \in Queue : \E i \in 1 .. Len(queue[q]) : queue[q][i] = t

Init == queue = [q \in Queue |-> << >>]

\* knldef.h:105-109: add the TCB at the end of the queue.
Add(q, t) ==
  /\ ~Queued(t)
  /\ queue' = [queue EXCEPT ![q] = Append(@, t)]

\* knldef.h:112-116: remove the first TCB, if there is one.
RemoveTop(q) ==
  /\ queue[q] # << >>
  /\ queue' = [queue EXCEPT ![q] = Tail(@)]

\* knldef.h:119-123: remove the given TCB, wherever it is in the queue.
RemoveEntry(q, t) ==
  \E i \in 1 .. Len(queue[q]) :
    /\ queue[q][i] = t
    /\ queue' = [queue EXCEPT ![q] = RemoveAt(@, i)]

Next ==
  \E q \in Queue :
    \/ RemoveTop(q)
    \/ \E t \in TCB : Add(q, t) \/ RemoveEntry(q, t)

Spec == Init /\ [][Next]_queue
=============================================================================
