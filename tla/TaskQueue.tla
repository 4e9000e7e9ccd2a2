------------------------------ MODULE TaskQueue ------------------------------
(***************************************************************************)
(* kernel/task_queue.c with its pointers: a queue is a head pointer, the   *)
(* links are the pre and next fields of the TCBs themselves.  The head's   *)
(* pre is the last TCB, the last TCB's next is NULL, and a removed TCB     *)
(* keeps its old links.                                                    *)
(*                                                                         *)
(* content is a history variable: the order in which TCBs were added,      *)
(* less those removed.  The code does not keep it; Linked says that the    *)
(* pointers spell it out, and Walk reads the queue the way the kernel's    *)
(* loops do, from the pointers alone.                                      *)
(***************************************************************************)
EXTENDS Naturals, SequencesExt

CONSTANTS
  Queue,   \* the queue heads
  TCB,     \* the task control blocks
  NULL

ASSUME NullIsNoTCB == NULL \notin TCB

\* The task control blocks are the entries of a table.
ASSUME TCBsAreFinite == IsFiniteSet(TCB)

VARIABLES
  head,     \* head[q]: *queue, a TCB or NULL
  pre,      \* pre[t]: tcb->pre
  next,     \* next[t]: tcb->next
  content   \* content[q]: history, the TCBs of q in order

vars == << head, pre, next, content >>

Pointer == TCB \cup {NULL}

TypeOK ==
  /\ head \in [Queue -> Pointer]
  /\ pre \in [TCB -> Pointer]
  /\ next \in [TCB -> Pointer]
  /\ content \in [Queue -> Seq(TCB)]

\* The tables and the queue heads are in .bss: every pointer is NULL.
Init ==
  /\ head = [q \in Queue |-> NULL]
  /\ pre = [t \in TCB |-> NULL]
  /\ next = [t \in TCB |-> NULL]
  /\ content = [q \in Queue |-> << >>]

InQueue(q, t) == \E i \in 1 .. Len(content[q]) : content[q][i] = t

-----------------------------------------------------------------------------
(***************************************************************************)
(* The three functions.  Each takes the pointers as they are and gives     *)
(* their next values; the callers' duties are in the actions below.  A     *)
(* definition that another one is said to replace is a plausible bug: the  *)
(* properties are tried on it.                                             *)
(***************************************************************************)

\* For tqueue_add_entry: leaves the next of the new last entry as it was.
AddUnterminated(q, t) ==
  \/ /\ head[q] = NULL
     /\ head' = [head EXCEPT ![q] = t]
     /\ pre' = [pre EXCEPT ![t] = t]
     /\ next' = next
  \/ /\ head[q] # NULL
     /\ head' = head
     /\ next' = [next EXCEPT ![pre[head[q]]] = t]
     /\ pre' = [pre EXCEPT ![t] = pre[head[q]], ![head[q]] = t]

tqueue_add_entry(q, t) ==
  \/ /\ head[q] = NULL
     /\ head' = [head EXCEPT ![q] = t]
     /\ pre' = [pre EXCEPT ![t] = t]
     /\ next' = [next EXCEPT ![t] = NULL]
  \/ /\ head[q] # NULL
     /\ head' = head
     /\ LET queue_end == pre[head[q]]
        IN  /\ next' = [next EXCEPT ![queue_end] = t, ![t] = NULL]
            /\ pre' = [pre EXCEPT ![t] = queue_end, ![head[q]] = t]

tqueue_remove_top(q) ==
  \/ head[q] = NULL /\ UNCHANGED << head, pre, next >>
  \/ /\ head[q] # NULL
     /\ LET top == head[q]
        IN  /\ head' = [head EXCEPT ![q] = next[top]]
            /\ pre' = IF next[top] = NULL THEN pre
                      ELSE [pre EXCEPT ![next[top]] = pre[top]]
     /\ next' = next

\* For tqueue_remove_entry: the head's pre still names a removed last entry.
RemoveKeepsEnd(q, t) ==
  \/ head[q] = t /\ tqueue_remove_top(q)
  \/ /\ head[q] # t
     /\ head' = head
     /\ next' = [next EXCEPT ![pre[t]] = next[t]]
     /\ pre' = IF next[t] # NULL THEN [pre EXCEPT ![next[t]] = pre[t]] ELSE pre

\* Removing the first TCB is the case of tqueue_remove_top.
tqueue_remove_entry(q, t) ==
  \/ head[q] = t /\ tqueue_remove_top(q)
  \/ /\ head[q] # t
     /\ head' = head
     /\ next' = [next EXCEPT ![pre[t]] = next[t]]
     /\ pre' = IF next[t] # NULL THEN [pre EXCEPT ![next[t]] = pre[t]]
               ELSE [pre EXCEPT ![head[q]] = pre[t]]

-----------------------------------------------------------------------------
(***************************************************************************)
(* How the kernel calls them: a TCB is added when it is in no queue, and   *)
(* removed by name from the queue it is in.                                *)
(***************************************************************************)
Add(q, t) ==
  /\ \A r \in Queue : ~InQueue(r, t)
  /\ tqueue_add_entry(q, t)
  /\ content' = [content EXCEPT ![q] = Append(@, t)]

RemoveTop(q) ==
  /\ tqueue_remove_top(q)
  /\ content' = [content EXCEPT ![q] = IF @ = << >> THEN @ ELSE Tail(@)]

RemoveEntry(q, t) ==
  \E i \in 1 .. Len(content[q]) :
    /\ content[q][i] = t
    /\ tqueue_remove_entry(q, t)
    /\ content' = [content EXCEPT ![q] = RemoveAt(@, i)]

Next ==
  \E q \in Queue :
    \/ RemoveTop(q)
    \/ \E t \in TCB : Add(q, t) \/ RemoveEntry(q, t)

Spec == Init /\ [][Next]_vars

-----------------------------------------------------------------------------
(***************************************************************************)
(* Properties.                                                             *)
(***************************************************************************)

\* No TCB is queued twice, neither in one queue nor in two: one pair of
\* links cannot serve two places.
Distinct ==
  \A q, r \in Queue : \A i \in 1 .. Len(content[q]), j \in 1 .. Len(content[r]) :
    content[q][i] = content[r][j] => q = r /\ i = j

\* The links of queue q spell the sequence s, forwards and backwards, with the
\* head's pre closing on the last TCB and the last next NULL.
Spells(q, s) ==
  /\ s = << >> => head[q] = NULL
  /\ s # << >> =>
       /\ head[q] = s[1]
       /\ pre[s[1]] = s[Len(s)]
       /\ next[s[Len(s)]] = NULL
       /\ \A i \in 1 .. Len(s) - 1 :
            next[s[i]] = s[i + 1] /\ pre[s[i + 1]] = s[i]

\* Whatever sequence of additions and removals went before, from whichever
\* ends of whichever queues, every queue's pointers spell its TCBs in the
\* order of their arrival (task_queue.c:9-54).
Linked == \A q \in Queue : Spells(q, content[q])

\* The TCBs a loop over the next pointers meets, in its order: f[n] is the
\* n-th of them, NULL once the loop is past the last.
Walk(q) ==
  LET f[n \in 1 .. Cardinality(TCB)] ==
        IF n = 1 THEN head[q]
        ELSE IF f[n - 1] = NULL THEN NULL ELSE next[f[n - 1]]
      n == Cardinality({k \in DOMAIN f : f[k] # NULL})
  IN  SubSeq([k \in DOMAIN f |-> f[k]], 1, n)

\* Read from the pointers alone, the queues behave as the abstract queues do.
Fifo == INSTANCE FifoQueues WITH queue <- [q \in Queue |-> Walk(q)]
WalkIsFifo == Fifo!Spec
=============================================================================
