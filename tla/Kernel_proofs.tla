--------------------------- MODULE Kernel_proofs ---------------------------
(***************************************************************************)
(* Proofs about Kernel, for every number of tasks and priorities, every    *)
(* timer period and every argument of the APIs.                            *)
(*                                                                         *)
(* The inductive invariant is Inv: the queues match the task states, the   *)
(* scheduler's choice is up to date, and DispatchInv says what the         *)
(* dispatcher's registers and globals have to do with each other.  The     *)
(* sections behind its theorems add where timeouts are written, in which   *)
(* order tasks of one priority run, that an ended task does not run on and *)
(* that every ready task is looked at; the last two hold under conditions  *)
(* on the callers, which their statements name.                            *)
(***************************************************************************)
EXTENDS Kernel, SeqLemmas

USE DEF tqueue_add_entry

Main == {"main_cre", "main_sta", "main_end"}

\* disp_running is the idle loop's flag; outside it there is a current task
\* once main is left; and a thread that runs with no dispatch pending is the
\* scheduler's choice.  A task that is started has a context to resume.
DispatchInv ==
  /\ disp_running <=> cpu = "idle"
  /\ cpu = "idle" => cur_task = NULL
  /\ cpu # "idle" => (cur_task = NULL <=> thread \in Main)
  /\ cpu = "thread" /\ ~pend_sv => cur_task = sche_task /\ thread # "main_end"
  /\ \A t \in Task : state[t] \in {"TS_READY", "TS_WAIT"} => context[t] # "none"

\* Nothing exists until main has created the initial task, whose priority is
\* one that the scheduler looks at.
BootInv ==
  \/ thread = "main_cre" /\ \A t \in Task : state[t] = "TS_NONEXIST"
  \/ thread # "main_cre" /\ state[1] # "TS_NONEXIST" /\ itskpri[1] = 1

Inv == TypeOK /\ QueuesMatchState /\ SchedulerUpToDate /\ DispatchInv /\ BootInv

ReadyAt(p) == {t \in Task : state[t] = "TS_READY" /\ itskpri[t] = p}
Waiting == {t \in Task : state[t] = "TS_WAIT"}

-----------------------------------------------------------------------------
(***************************************************************************)
(* Queues as lists of sets.                                                *)
(***************************************************************************)

\* Adding a task that is not listed lists one task more.
LEMMA ListsAppend ==
  ASSUME NEW s \in Seq(Task), NEW S, NEW t \in Task, Lists(s, S), t \notin S
  PROVE  Lists(Append(s, t), S \cup {t})
<1> DEFINE r == Append(s, t)
<1>1. /\ r \in Seq(Task) /\ Len(r) = Len(s) + 1 /\ Len(s) \in Nat
      /\ \A i \in 1 .. Len(s) : r[i] = s[i]
      /\ r[Len(s) + 1] = t
  BY AppendIs
<1> HIDE DEF r
<1>2. ASSUME NEW i \in 1 .. Len(r)
      PROVE  i \in 1 .. Len(s) \/ i = Len(s) + 1
  BY <1>1
<1>3. \A i \in 1 .. Len(r) : r[i] \in S \cup {t}
  BY <1>1, <1>2 DEF Lists
<1>4. ASSUME NEW i \in 1 .. Len(r), NEW j \in 1 .. Len(r), r[i] = r[j]
      PROVE  i = j
  <2>1. CASE i \in 1 .. Len(s) /\ j \in 1 .. Len(s)
    BY <2>1, <1>1, <1>4 DEF Lists
  <2>2. CASE i = Len(s) + 1 /\ j = Len(s) + 1
    BY <2>2
  <2>3. ~(i \in 1 .. Len(s) /\ j = Len(s) + 1)
    BY <1>1, <1>4 DEF Lists
  <2>4. ~(j \in 1 .. Len(s) /\ i = Len(s) + 1)
    BY <1>1, <1>4 DEF Lists
  <2> QED
    BY <2>1, <2>2, <2>3, <2>4, <1>2
<1>5. ASSUME NEW u \in S \cup {t}
      PROVE  \E i \in 1 .. Len(r) : r[i] = u
  <2>1. CASE u = t
    BY <2>1, <1>1
  <2>2. CASE u \in S
    <3>1. PICK i \in 1 .. Len(s) : s[i] = u
      BY <2>2 DEF Lists
    <3> QED
      BY <3>1, <1>1
  <2> QED
    BY <2>1, <2>2
<1> QED
  BY <1>3, <1>4, <1>5 DEF Lists, r

\* Removing a place lists one task less, the one that was there.
LEMMA ListsRemoveAt ==
  ASSUME NEW s \in Seq(Task), NEW S, Lists(s, S), NEW k \in 1 .. Len(s)
  PROVE  Lists(RemoveAt(s, k), S \ {s[k]})
<1> DEFINE r == RemoveAt(s, k)
           From(i) == IF i < k THEN i ELSE i + 1
<1>1. /\ r \in Seq(Task) /\ Len(r) = Len(s) - 1 /\ Len(s) \in Nat /\ k \in Nat
      /\ \A i \in 1 .. Len(s) - 1 : r[i] = s[From(i)]
  <2>1. \A i \in 1 .. Len(s) - 1 : r[i] = IF i < k THEN s[i] ELSE s[i + 1]
    BY RemoveAtIs
  <2>2. ASSUME NEW i \in 1 .. Len(s) - 1
        PROVE  r[i] = s[From(i)]
    <3>1. r[i] = IF i < k THEN s[i] ELSE s[i + 1]
      BY <2>1
    <3> QED
      BY <3>1, Zenon DEF From
  <2>3. r \in Seq(Task) /\ Len(r) = Len(s) - 1
    BY RemoveAtIs
  <2>4. Len(s) \in Nat /\ k \in Nat
    OBVIOUS
  <2> QED
    BY <2>2, <2>3, <2>4
<1> HIDE DEF r
<1>2. ASSUME NEW i \in 1 .. Len(r)
      PROVE  /\ From(i) \in 1 .. Len(s) /\ From(i) # k /\ r[i] = s[From(i)]
  BY <1>1
<1>3. ASSUME NEW i \in 1 .. Len(r), NEW j \in 1 .. Len(r), From(i) = From(j)
      PROVE  i = j
  BY <1>1, <1>3
<1>4. ASSUME NEW m \in 1 .. Len(s), m # k
      PROVE  \E i \in 1 .. Len(r) : From(i) = m
  <2>1. CASE m < k
    <3>1. m \in 1 .. Len(r) /\ From(m) = m
      BY <2>1, <1>1
    <3> QED
      BY <3>1
  <2>2. CASE m > k
    <3>1. m - 1 \in 1 .. Len(r) /\ From(m - 1) = m
      BY <2>2, <1>1
    <3> QED
      BY <3>1
  <2> QED
    BY <2>1, <2>2, <1>1, <1>4
<1> HIDE DEF From
<1>5. \A i \in 1 .. Len(r) : r[i] \in S \ {s[k]}
  BY <1>2 DEF Lists
<1>6. ASSUME NEW i \in 1 .. Len(r), NEW j \in 1 .. Len(r), r[i] = r[j]
      PROVE  i = j
  <2>1. From(i) = From(j)
    BY <1>2, <1>6 DEF Lists
  <2> QED
    BY <2>1, <1>3
<1>7. ASSUME NEW u \in S \ {s[k]}
      PROVE  \E i \in 1 .. Len(r) : r[i] = u
  <2>1. PICK m \in 1 .. Len(s) : s[m] = u
    BY DEF Lists
  <2>2. m # k
    BY <2>1
  <2>3. PICK i \in 1 .. Len(r) : From(i) = m
    BY <2>2, <1>4
  <2> QED
    BY <2>1, <2>3, <1>2
<1> QED
  BY <1>5, <1>6, <1>7 DEF Lists, r

\* Removing the front lists one task less, the one at the front.
LEMMA ListsTail ==
  ASSUME NEW s \in Seq(Task), NEW S, Lists(s, S), s # << >>
  PROVE  Lists(Tail(s), S \ {Head(s)})
<1> DEFINE r == Tail(s)
<1>1. /\ r \in Seq(Task) /\ Len(r) = Len(s) - 1 /\ Len(s) \in Nat \ {0}
      /\ \A i \in 1 .. Len(r) : r[i] = s[i + 1]
      /\ Head(s) = s[1]
  BY TailIs
<1> HIDE DEF r
<1>2. ASSUME NEW i \in 1 .. Len(r)
      PROVE  i + 1 \in 1 .. Len(s) /\ r[i] = s[i + 1] /\ i + 1 # 1
  BY <1>1
<1>3. \A i \in 1 .. Len(r) : r[i] \in S \ {s[1]}
  <2>1. 1 \in 1 .. Len(s)
    BY <1>1
  <2> QED
    BY <1>2, <2>1 DEF Lists
<1>4. ASSUME NEW i \in 1 .. Len(r), NEW j \in 1 .. Len(r), r[i] = r[j]
      PROVE  i = j
  <2>1. i + 1 = j + 1
    BY <1>2, <1>4 DEF Lists
  <2> QED
    BY <2>1
<1>5. ASSUME NEW u \in S \ {s[1]}
      PROVE  \E i \in 1 .. Len(r) : r[i] = u
  <2>1. PICK m \in 1 .. Len(s) : s[m] = u
    BY DEF Lists
  <2>2. m - 1 \in 1 .. Len(r) /\ (m - 1) + 1 = m
    BY <2>1, <1>1
  <2> QED
    BY <2>1, <2>2, <1>1
<1> QED
  BY <1>1, <1>3, <1>4, <1>5 DEF Lists, r

-----------------------------------------------------------------------------
(***************************************************************************)
(* What the helpers of the APIs do to the queues.                          *)
(***************************************************************************)

\* The task to run is READY and heads the queue of its own priority: what
\* tqueue_remove_top(&ready_queue[cur_task->itskpri]) removes is the caller.
LEMMA TopHeadsItsQueue ==
  ASSUME TypeOK, QueuesMatchState, NEW t \in Task, IsTop(t, ready_queue)
  PROVE  /\ state[t] = "TS_READY"
         /\ itskpri[t] \in Scanned
         /\ ready_queue[itskpri[t]] # << >>
         /\ Head(ready_queue[itskpri[t]]) = t
<1>1. PICK p \in Scanned : ready_queue[p] # << >> /\ t = Head(ready_queue[p])
  BY KernelAssumption DEF IsTop
<1>2. p \in Pri
  BY KernelAssumption DEF Pri, Scanned
<1>3. ready_queue[p] \in Seq(Task)
  BY <1>2 DEF TypeOK
<1>4. 1 \in 1 .. Len(ready_queue[p]) /\ t = ready_queue[p][1]
  BY <1>1, <1>3, TailIs
<1>5. state[t] = "TS_READY" /\ itskpri[t] = p
  BY <1>2, <1>4 DEF QueuesMatchState, Lists
<1> QED
  BY <1>1, <1>5

\* The three ways the queues change, by the sets they list.
LEMMA QueuesFromParts ==
  ASSUME \A p \in Pri : Lists(ready_queue'[p], ReadyAt(p)'),
         Lists(wait_queue', Waiting')
  PROVE  QueuesMatchState'
  BY DEF QueuesMatchState, ReadyAt, Waiting

LEMMA QueuesToParts ==
  ASSUME QueuesMatchState
  PROVE  /\ \A p \in Pri : Lists(ready_queue[p], ReadyAt(p))
         /\ Lists(wait_queue, Waiting)
  BY DEF QueuesMatchState, ReadyAt, Waiting

\* A step that gives the READY task c, at the head of its queue, another state
\* and removes the top of that queue.
LEMMA CallerLeaves ==
  ASSUME TypeOK, QueuesMatchState, NEW c \in Task, IsTop(c, ready_queue),
         NEW st, st # "TS_READY",
         state' = [state EXCEPT ![c] = st], itskpri' = itskpri,
         ready_queue' = [ready_queue EXCEPT ![itskpri[c]] = tqueue_remove_top(@)]
  PROVE  \A p \in Pri : Lists(ready_queue'[p], ReadyAt(p)')
<1>1. /\ state[c] = "TS_READY" /\ itskpri[c] \in Pri
      /\ ready_queue[itskpri[c]] # << >> /\ Head(ready_queue[itskpri[c]]) = c
  BY TopHeadsItsQueue DEF TypeOK
<1>2. SUFFICES ASSUME NEW p \in Pri
               PROVE  Lists(ready_queue'[p], ReadyAt(p)')
  OBVIOUS
<1>3. Lists(ready_queue[p], ReadyAt(p)) /\ ready_queue[p] \in Seq(Task)
  BY QueuesToParts DEF TypeOK
<1>4. CASE p = itskpri[c]
  <2>1. ready_queue'[p] = Tail(ready_queue[p])
    BY <1>1, <1>4 DEF TypeOK, tqueue_remove_top
  <2>2. ReadyAt(p)' = ReadyAt(p) \ {c}
    BY <1>1, <1>4 DEF TypeOK, ReadyAt
  <2>3. Lists(Tail(ready_queue[p]), ReadyAt(p) \ {Head(ready_queue[p])})
    BY <1>1, <1>3, <1>4, ListsTail
  <2> QED
    BY <1>1, <1>4, <2>1, <2>2, <2>3
<1>5. CASE p # itskpri[c]
  <2>1. ready_queue'[p] = ready_queue[p]
    BY <1>5 DEF TypeOK
  <2>2. ReadyAt(p)' = ReadyAt(p)
    BY <1>5 DEF TypeOK, ReadyAt
  <2> QED
    BY <1>3, <2>1, <2>2
<1> QED
  BY <1>4, <1>5

\* A step that makes a task READY and adds it to the queue of its priority.
LEMMA TaskJoins ==
  ASSUME TypeOK, QueuesMatchState, NEW c \in Task, state[c] # "TS_READY",
         state' = [state EXCEPT ![c] = "TS_READY"], itskpri' = itskpri,
         ready_queue' = [ready_queue EXCEPT ![itskpri[c]] = Append(@, c)]
  PROVE  \A p \in Pri : Lists(ready_queue'[p], ReadyAt(p)')
<1>1. itskpri[c] \in Pri
  BY DEF TypeOK
<1>2. SUFFICES ASSUME NEW p \in Pri
               PROVE  Lists(ready_queue'[p], ReadyAt(p)')
  OBVIOUS
<1>3. Lists(ready_queue[p], ReadyAt(p)) /\ ready_queue[p] \in Seq(Task)
  BY QueuesToParts DEF TypeOK
<1>4. CASE p = itskpri[c]
  <2>1. ready_queue'[p] = Append(ready_queue[p], c)
    BY <1>1, <1>4 DEF TypeOK
  <2>2. ReadyAt(p)' = ReadyAt(p) \cup {c}
    BY <1>1, <1>4 DEF TypeOK, ReadyAt
  <2>3. c \notin ReadyAt(p)
    BY DEF ReadyAt
  <2> QED
    BY <1>3, <2>1, <2>2, <2>3, ListsAppend
<1>5. CASE p # itskpri[c]
  <2>1. ready_queue'[p] = ready_queue[p]
    BY <1>5 DEF TypeOK
  <2>2. ReadyAt(p)' = ReadyAt(p)
    BY <1>5 DEF TypeOK, ReadyAt
  <2> QED
    BY <1>3, <2>1, <2>2
<1> QED
  BY <1>4, <1>5

\* enter_wait moves the caller from the ready queues to the wait queue.
LEMMA EnterWaitKeepsQueues ==
  ASSUME TypeOK, QueuesMatchState, cur_task \in Task, IsTop(cur_task, ready_queue),
         NEW fct, NEW tim, enter_wait(fct, tim)
  PROVE  QueuesMatchState'
<1>1. \A p \in Pri : Lists(ready_queue'[p], ReadyAt(p)')
  BY CallerLeaves DEF enter_wait
<1>2. cur_task \notin Waiting
  BY TopHeadsItsQueue DEF Waiting
<1>3. Waiting' = Waiting \cup {cur_task}
  BY DEF enter_wait, Waiting, TypeOK
<1>4. Lists(wait_queue, Waiting) /\ wait_queue \in Seq(Task)
  BY QueuesToParts DEF TypeOK
<1>5. Lists(wait_queue', Waiting')
  BY <1>2, <1>3, <1>4, ListsAppend DEF enter_wait
<1> QED
  BY <1>1, <1>5, QueuesFromParts

\* release moves a waiting task to the ready queue of its priority.
LEMMA ReleaseKeepsQueues ==
  ASSUME TypeOK, QueuesMatchState, NEW t \in Task, release(t)
  PROVE  QueuesMatchState'
<1>1. PICK i \in 1 .. Len(wait_queue) :
        wait_queue[i] = t /\ wait_queue' = RemoveAt(wait_queue, i)
  BY DEF release, tqueue_remove_entry
<1>2. Lists(wait_queue, Waiting) /\ wait_queue \in Seq(Task)
  BY QueuesToParts DEF TypeOK
<1>3. state[t] = "TS_WAIT"
  BY <1>1, <1>2 DEF Lists, Waiting
<1>4. \A p \in Pri : Lists(ready_queue'[p], ReadyAt(p)')
  BY <1>3, TaskJoins DEF release
<1>5. Waiting' = Waiting \ {t}
  BY <1>3 DEF release, Waiting, TypeOK
<1>6. Lists(wait_queue', Waiting')
  BY <1>1, <1>2, <1>5, ListsRemoveAt
<1> QED
  BY <1>4, <1>6, QueuesFromParts

-----------------------------------------------------------------------------
(***************************************************************************)
(* The invariant is inductive: one lemma per helper or action.             *)
(***************************************************************************)

\* A conversion to UW gives a UW.
LEMMA UWType == ASSUME NEW n \in Int PROVE UW(n) \in 0 .. UW_MAX
<1>1. UW_MAX + 1 \in Nat \ {0}
  BY KernelAssumption
<1>2. n % (UW_MAX + 1) \in 0 .. (UW_MAX + 1) - 1
  BY <1>1
<1> QED
  BY <1>2, KernelAssumption DEF UW

\* A task that calls the kernel is the one to run.
LEMMA CallerIsTop ==
  ASSUME Inv, InTask
  PROVE  cur_task \in Task /\ IsTop(cur_task, ready_queue)
  BY DEF Inv, TypeOK, SchedulerUpToDate, DispatchInv, InTask, Running, Main

\* The dispatcher's part of the invariant, for steps that leave the dispatcher
\* alone and end in scheduler().
LEMMA SchedulerKeepsDispatch ==
  ASSUME DispatchInv, scheduler, UNCHANGED dispatcher,
         \A t \in Task : state'[t] \in {"TS_READY", "TS_WAIT"} =>
                         state[t] \in {"TS_READY", "TS_WAIT"}
  PROVE  DispatchInv'
  BY DEF DispatchInv, scheduler, dispatcher

\* Tasks never cease to exist nor change their priority.
LEMMA BootStays ==
  ASSUME BootInv, thread' = thread, itskpri' = itskpri,
         \A t \in Task : state[t] = "TS_NONEXIST" <=> state'[t] = "TS_NONEXIST"
  PROVE  BootInv'
<1>1. 1 \in Task
  BY KernelAssumption DEF Task
<1> QED
  BY <1>1 DEF BootInv

LEMMA EnterWaitInv ==
  ASSUME Inv, InTask, NEW fct \in WaiFct, NEW tim \in 0 .. UW_MAX,
         enter_wait(fct, tim), UNCHANGED << dispatcher, timer >>
  PROVE  Inv'
<1>1. cur_task \in Task /\ IsTop(cur_task, ready_queue)
  BY CallerIsTop
<1>2. QueuesMatchState'
  BY <1>1, EnterWaitKeepsQueues DEF Inv
<1>3. TypeOK'
  <2>1. ready_queue' \in [Pri -> Seq(Task)]
    <3>1. /\ ready_queue[itskpri[cur_task]] # << >>
          /\ itskpri[cur_task] \in Pri
      BY <1>1, TopHeadsItsQueue DEF Inv, TypeOK
    <3>2. Tail(ready_queue[itskpri[cur_task]]) \in Seq(Task)
      BY <3>1, TailIs DEF Inv, TypeOK
    <3> QED
      BY <3>1, <3>2 DEF Inv, TypeOK, enter_wait, tqueue_remove_top
  <2>2. wait_queue' \in Seq(Task)
    BY <1>1, AppendIs DEF Inv, TypeOK, enter_wait
  <2>3. /\ state' \in [Task -> {"TS_NONEXIST", "TS_READY", "TS_WAIT", "TS_DORMANT"}]
        /\ waifct' \in [Task -> WaiFct]
        /\ waitim' \in [Task -> 0 .. UW_MAX]
        /\ waierr' \in [Task -> Task \cup {NULL}]
        /\ err' \in [Task -> {"E_OK", "E_TMOUT"}]
    BY <1>1 DEF Inv, TypeOK, enter_wait
  <2>4. sche_task' \in Task \cup {NULL} /\ pend_sv' \in BOOLEAN
    BY Zenon DEF enter_wait, scheduler
  <2> QED
    BY <2>1, <2>2, <2>3, <2>4 DEF Inv, TypeOK, enter_wait, dispatcher, timer
<1>4. SchedulerUpToDate'
  BY DEF enter_wait, scheduler, SchedulerUpToDate
<1>5. DispatchInv'
  <2>1. state[cur_task] = "TS_READY"
    BY <1>1, TopHeadsItsQueue DEF Inv
  <2>2. ASSUME NEW t \in Task, state'[t] \in {"TS_READY", "TS_WAIT"}
        PROVE  state[t] \in {"TS_READY", "TS_WAIT"}
    BY <2>1, <2>2 DEF enter_wait, Inv, TypeOK
  <2> QED
    BY <2>2, SchedulerKeepsDispatch DEF enter_wait, Inv
<1>6. BootInv'
  <2>1. state[cur_task] = "TS_READY"
    BY <1>1, TopHeadsItsQueue DEF Inv
  <2>2. \A t \in Task : state[t] = "TS_NONEXIST" <=> state'[t] = "TS_NONEXIST"
    BY <1>1, <2>1 DEF enter_wait, Inv, TypeOK
  <2> QED
    BY <2>2, BootStays DEF enter_wait, dispatcher, Inv
<1> QED
  BY <1>2, <1>3, <1>4, <1>5, <1>6 DEF Inv

\* release gives values of the right types.
LEMMA ReleaseType ==
  ASSUME TypeOK, NEW t \in Task, release(t)
  PROVE  /\ state' \in [Task -> {"TS_NONEXIST", "TS_READY", "TS_WAIT", "TS_DORMANT"}]
         /\ waifct' \in [Task -> WaiFct]
         /\ ready_queue' \in [Pri -> Seq(Task)]
         /\ wait_queue' \in Seq(Task)
         /\ UNCHANGED << itskpri, wupcnt, waitim >>
<1>1. wait_queue' \in Seq(Task)
  BY RemoveAtIs DEF TypeOK, release, tqueue_remove_entry
<1>2. itskpri[t] \in Pri /\ ready_queue[itskpri[t]] \in Seq(Task)
  BY DEF TypeOK
<1>3. Append(ready_queue[itskpri[t]], t) \in Seq(Task)
  BY <1>2, AppendIs
<1>4. ready_queue' \in [Pri -> Seq(Task)]
  BY <1>2, <1>3 DEF TypeOK, release
<1> QED
  BY <1>1, <1>4 DEF TypeOK, release, WaiFct

\* The end of a wait by an API: what every releasing API shares, whatever
\* result it writes and wherever it points waierr.
LEMMA ReleaseInv ==
  ASSUME Inv, ~tick, NEW t \in Task, release(t), scheduler,
         waierr' \in [Task -> Task \cup {NULL}], err' \in [Task -> {"E_OK", "E_TMOUT"}],
         UNCHANGED << dispatcher, timer >>
  PROVE  Inv'
<1>1. state[t] = "TS_WAIT"
  BY DEF release, tqueue_remove_entry, Inv, QueuesMatchState, Lists
<1>2. QueuesMatchState'
  BY ReleaseKeepsQueues DEF Inv
<1>3. TypeOK'
  <2>1. sche_task' \in Task \cup {NULL} /\ pend_sv' \in BOOLEAN
    BY Zenon DEF scheduler
  <2> QED
    BY <2>1, ReleaseType DEF Inv, TypeOK, dispatcher, timer
<1>4. SchedulerUpToDate'
  BY DEF scheduler, SchedulerUpToDate
<1>5. DispatchInv'
  <2>1. ASSUME NEW u \in Task, state'[u] \in {"TS_READY", "TS_WAIT"}
        PROVE  state[u] \in {"TS_READY", "TS_WAIT"}
    BY <1>1, <2>1 DEF release, Inv, TypeOK
  <2> QED
    BY <2>1, SchedulerKeepsDispatch DEF Inv
<1>6. BootInv'
  <2>1. \A u \in Task : state[u] = "TS_NONEXIST" <=> state'[u] = "TS_NONEXIST"
    BY <1>1 DEF release, Inv, TypeOK
  <2> QED
    BY <2>1, BootStays DEF release, dispatcher, Inv
<1> QED
  BY <1>2, <1>3, <1>4, <1>5, <1>6 DEF Inv

\* A call that at most sets its own result.
LEMMA ResultInv ==
  ASSUME Inv, err' \in [Task -> {"E_OK", "E_TMOUT"}],
         UNCHANGED << state, itskpri, wupcnt, waifct, waitim, waierr, queues, sche_task, pend_sv >>,
         UNCHANGED << dispatcher, timer >>
  PROVE  Inv'
  BY DEF Inv, TypeOK, QueuesMatchState, SchedulerUpToDate, DispatchInv, BootInv, IsTop,
         queues, dispatcher, timer

LEMMA WakeInv ==
  ASSUME Inv, ~tick, NEW t \in Task, tk_wup_tsk(t), UNCHANGED << dispatcher, timer >>
  PROVE  Inv'
<1>1. CASE release(t) /\ scheduler /\ UNCHANGED << waierr, err >>
  BY <1>1, ReleaseInv DEF Inv, TypeOK
<1>2. CASE /\ wupcnt[t] < MaxWup /\ wupcnt' = [wupcnt EXCEPT ![t] = @ + 1]
           /\ UNCHANGED << state, itskpri, waifct, waitim, waierr, err, queues, sche_task, pend_sv >>
  <2>1. wupcnt' \in [Task -> 0 .. MaxWup]
    BY <1>2, KernelAssumption DEF Inv, TypeOK
  <2> QED
    BY <1>2, <2>1 DEF Inv, TypeOK, QueuesMatchState, SchedulerUpToDate, DispatchInv, BootInv,
                      IsTop, queues, dispatcher, timer
<1> QED
  BY <1>1, <1>2 DEF tk_wup_tsk

LEMMA StartInv ==
  ASSUME Inv, ~tick, NEW t \in Task, tk_sta_tsk(t),
         UNCHANGED << cur_task, disp_running, cpu, timer >>,
         \/ thread' = thread
         \/ t = 1 /\ thread = "main_sta" /\ thread' = "main_end"
  PROVE  Inv'
<1>1. QueuesMatchState'
  <2>1. \A p \in Pri : Lists(ready_queue'[p], ReadyAt(p)')
    BY TaskJoins DEF Inv, tk_sta_tsk
  <2>2. Lists(wait_queue, Waiting) /\ Waiting' = Waiting /\ wait_queue' = wait_queue
    BY QueuesToParts DEF Inv, TypeOK, tk_sta_tsk, Waiting
  <2> QED
    BY <2>1, <2>2, QueuesFromParts
<1>2. itskpri[t] \in Pri /\ ready_queue[itskpri[t]] \in Seq(Task)
  BY DEF Inv, TypeOK
<1>3. /\ Append(ready_queue[itskpri[t]], t) \in Seq(Task)
      /\ Append(ready_queue[itskpri[t]], t) # << >>
  BY <1>2, AppendIs
<1>4. TypeOK'
  <2>1. ready_queue' \in [Pri -> Seq(Task)]
    BY <1>2, <1>3 DEF Inv, TypeOK, tk_sta_tsk
  <2>2. sche_task' \in Task \cup {NULL} /\ pend_sv' \in BOOLEAN
    BY Zenon DEF tk_sta_tsk, scheduler
  <2>3. /\ state' \in [Task -> {"TS_NONEXIST", "TS_READY", "TS_WAIT", "TS_DORMANT"}]
        /\ context' \in [Task -> {"none", "live", "exited"}]
    BY DEF Inv, TypeOK, tk_sta_tsk
  <2> QED
    BY <2>1, <2>2, <2>3 DEF Inv, TypeOK, tk_sta_tsk, timer
<1>5. SchedulerUpToDate'
  BY DEF tk_sta_tsk, scheduler, SchedulerUpToDate
<1>6. DispatchInv'
  <2>1. thread' # thread => cpu = "idle" \/ sche_task' # cur_task
    <3>1. SUFFICES ASSUME thread' # thread, cpu # "idle"
                   PROVE  sche_task' # cur_task
      OBVIOUS
    <3>2. t = 1 /\ cur_task = NULL
      BY <3>1 DEF Inv, DispatchInv, Main
    <3>3. itskpri[1] \in Scanned
      BY <3>1, KernelAssumption DEF Inv, BootInv, Scanned
    <3>4. ready_queue'[itskpri[1]] # << >>
      BY <1>2, <1>3, <3>2 DEF tk_sta_tsk, Inv, TypeOK
    <3>5. IsTop(sche_task', ready_queue')
      BY DEF tk_sta_tsk, scheduler
    <3>6. PICK p \in Scanned : ready_queue'[p] # << >> /\ sche_task' = Head(ready_queue'[p])
      BY <3>3, <3>4, <3>5 DEF IsTop
    <3>7. ready_queue'[p] \in Seq(Task)
      BY <1>4, KernelAssumption DEF TypeOK, Scanned, Pri
    <3>8. sche_task' \in Task
      BY <3>6, <3>7, TailIs
    <3> QED
      BY <3>2, <3>8, KernelAssumption
  <2>2. cpu = "thread" /\ ~pend_sv' => cur_task = sche_task' /\ thread' # "main_end"
    BY <2>1 DEF tk_sta_tsk, scheduler, Inv, DispatchInv
  <2>3. \A u \in Task : state'[u] \in {"TS_READY", "TS_WAIT"} => context'[u] # "none"
    BY DEF tk_sta_tsk, Inv, DispatchInv, TypeOK
  <2>4. thread' \in Main <=> thread \in Main
    BY DEF Main
  <2> QED
    BY <2>2, <2>3, <2>4 DEF Inv, DispatchInv
<1>7. BootInv'
  <2>1. 1 \in Task
    BY KernelAssumption DEF Task
  <2>2. state[t] = "TS_DORMANT"
    BY DEF tk_sta_tsk
  <2> QED
    BY <2>1, <2>2 DEF tk_sta_tsk, Inv, BootInv, TypeOK
<1> QED
  BY <1>1, <1>4, <1>5, <1>6, <1>7 DEF Inv

LEMMA CreateInv ==
  ASSUME Inv, ~tick, NEW pri \in Int, tk_cre_tsk(pri),
         UNCHANGED << cur_task, disp_running, cpu, timer >>,
         \/ thread' = thread /\ thread # "main_cre"
         \/ pri = 1 /\ thread = "main_cre" /\ thread' = "main_sta"
  PROVE  Inv'
<1>1. PICK t \in Task :
        /\ state[t] = "TS_NONEXIST"
        /\ \A u \in Task : u < t => state[u] # "TS_NONEXIST"
        /\ state' = [state EXCEPT ![t] = "TS_DORMANT"]
        /\ itskpri' = [itskpri EXCEPT ![t] = pri]
  BY DEF tk_cre_tsk
<1>2. UNCHANGED << wupcnt, waifct, waitim, waierr, err, ready_queue, wait_queue,
                   sche_task, pend_sv, context >>
  BY DEF tk_cre_tsk, queues
<1>3. TypeOK'
  <2>1. pri \in Pri
    BY KernelAssumption DEF tk_cre_tsk, Pri
  <2>2. /\ state' \in [Task -> {"TS_NONEXIST", "TS_READY", "TS_WAIT", "TS_DORMANT"}]
        /\ itskpri' \in [Task -> Pri]
    BY <1>1, <2>1 DEF Inv, TypeOK
  <2> QED
    BY <1>2, <2>2 DEF Inv, TypeOK, timer
<1>4. QueuesMatchState'
  <2>1. \A p \in Pri : ReadyAt(p)' = ReadyAt(p)
    BY <1>1 DEF ReadyAt, Inv, TypeOK
  <2>2. Waiting' = Waiting
    BY <1>1 DEF Waiting, Inv, TypeOK
  <2>3. \A p \in Pri : Lists(ready_queue[p], ReadyAt(p))
    BY QueuesToParts DEF Inv
  <2>4. Lists(wait_queue, Waiting)
    BY QueuesToParts DEF Inv
  <2> QED
    BY <1>2, <2>1, <2>2, <2>3, <2>4, QueuesFromParts
<1>5. SchedulerUpToDate'
  BY <1>2 DEF Inv, SchedulerUpToDate, timer
<1>6. DispatchInv'
  <2>1. \A u \in Task : state'[u] \in {"TS_READY", "TS_WAIT"} => context'[u] # "none"
    BY <1>1, <1>2 DEF Inv, DispatchInv, TypeOK
  <2>2. thread' \in Main <=> thread \in Main
    BY DEF Main
  <2> QED
    BY <1>2, <2>1, <2>2 DEF Inv, DispatchInv
<1>7. BootInv'
  <2>1. 1 \in Task /\ \A u \in Task : u >= 1 /\ u \in Int
    BY KernelAssumption DEF Task
  <2>2. CASE thread = "main_cre"
    <3>1. t = 1
      BY <1>1, <2>1, <2>2 DEF Inv, BootInv
    <3> QED
      BY <1>1, <2>1, <2>2, <3>1 DEF Inv, BootInv, TypeOK
  <2>3. CASE thread # "main_cre"
    <3>1. t # 1
      BY <1>1, <2>3 DEF Inv, BootInv
    <3> QED
      BY <1>1, <2>1, <2>3, <3>1 DEF Inv, BootInv, TypeOK
  <2> QED
    BY <2>2, <2>3
<1> QED
  BY <1>3, <1>4, <1>5, <1>6, <1>7 DEF Inv

LEMMA ExitInv ==
  ASSUME Inv, tk_ext_tsk
  PROVE  Inv'
<1>1. cur_task \in Task /\ IsTop(cur_task, ready_queue)
  BY CallerIsTop DEF tk_ext_tsk
<1>2. /\ state[cur_task] = "TS_READY" /\ itskpri[cur_task] \in Pri
      /\ ready_queue[itskpri[cur_task]] # << >>
  BY <1>1, TopHeadsItsQueue DEF Inv, TypeOK
<1>3. QueuesMatchState'
  <2>1. \A p \in Pri : Lists(ready_queue'[p], ReadyAt(p)')
    BY <1>1, CallerLeaves DEF Inv, tk_ext_tsk
  <2>2. Lists(wait_queue, Waiting) /\ Waiting' = Waiting /\ wait_queue' = wait_queue
    BY <1>2, QueuesToParts DEF Inv, TypeOK, tk_ext_tsk, Waiting
  <2> QED
    BY <2>1, <2>2, QueuesFromParts
<1>4. TypeOK'
  <2>1. Tail(ready_queue[itskpri[cur_task]]) \in Seq(Task)
    BY <1>2, TailIs DEF Inv, TypeOK
  <2>2. ready_queue' \in [Pri -> Seq(Task)]
    BY <1>2, <2>1 DEF Inv, TypeOK, tk_ext_tsk, tqueue_remove_top
  <2>3. state' \in [Task -> {"TS_NONEXIST", "TS_READY", "TS_WAIT", "TS_DORMANT"}]
    BY DEF Inv, TypeOK, tk_ext_tsk
  <2>4. sche_task' \in Task \cup {NULL} /\ pend_sv' \in BOOLEAN
    BY Zenon DEF tk_ext_tsk, scheduler
  <2> QED
    BY <2>2, <2>3, <2>4 DEF Inv, TypeOK, tk_ext_tsk, timer
<1>5. SchedulerUpToDate'
  BY DEF tk_ext_tsk, scheduler, SchedulerUpToDate
<1>6. DispatchInv'
  <2>1. \A u \in Task : state'[u] \in {"TS_READY", "TS_WAIT"} => context'[u] # "none"
    BY DEF tk_ext_tsk, Inv, DispatchInv, TypeOK
  <2>2. thread' \notin Main /\ thread \notin Main /\ thread' # "main_end"
    BY DEF tk_ext_tsk, InTask, Main
  <2>3. cpu = "thread" /\ ~pend_sv' => cur_task = sche_task'
    BY DEF tk_ext_tsk, scheduler, Inv, DispatchInv
  <2> QED
    BY <2>1, <2>2, <2>3 DEF tk_ext_tsk, Inv, DispatchInv
<1>7. BootInv'
  BY <1>2 DEF tk_ext_tsk, InTask, Inv, BootInv, TypeOK
<1> QED
  BY <1>3, <1>4, <1>5, <1>6, <1>7 DEF Inv

LEMMA DelayInv ==
  ASSUME Inv, tk_dly_tsk
  PROVE  Inv'
<1>1. PICK dlytim \in RelTim : enter_wait("TWFCT_DLY", UW(dlytim + TIMER_PERIOD))
  BY DEF tk_dly_tsk
<1>2. dlytim + TIMER_PERIOD \in Int
  BY KernelAssumption
<1>3. UW(dlytim + TIMER_PERIOD) \in 0 .. UW_MAX
  BY <1>2, UWType
<1> QED
  BY <1>1, <1>3, EnterWaitInv DEF tk_dly_tsk, WaiFct

LEMMA SleepInv ==
  ASSUME Inv, tk_slp_tsk
  PROVE  Inv'
<1>1. CASE /\ wupcnt[cur_task] > 0
           /\ wupcnt' = [wupcnt EXCEPT ![cur_task] = @ - 1]
           /\ err' = [err EXCEPT ![cur_task] = "E_OK"]
           /\ UNCHANGED << state, itskpri, waifct, waitim, waierr, queues, sche_task, pend_sv >>
  <2>1. wupcnt' \in [Task -> 0 .. MaxWup] /\ err' \in [Task -> {"E_OK", "E_TMOUT"}]
    BY <1>1, KernelAssumption, CallerIsTop DEF Inv, TypeOK, tk_slp_tsk
  <2> QED
    BY <1>1, <2>1 DEF tk_slp_tsk, Inv, TypeOK, QueuesMatchState, SchedulerUpToDate,
                      DispatchInv, BootInv, IsTop, queues, dispatcher, timer
<1>2. ASSUME NEW tmout \in Tmo, enter_wait("TWFCT_SLP", WaitTim(tmout))
      PROVE  Inv'
  <2>1. tmout \in Int /\ tmout + TIMER_PERIOD \in Int
    BY KernelAssumption
  <2>2. WaitTim(tmout) \in 0 .. UW_MAX
    BY <2>1, UWType DEF WaitTim
  <2> QED
    BY <1>2, <2>2, EnterWaitInv DEF tk_slp_tsk, WaiFct
<1> QED
  BY <1>1, <1>2 DEF tk_slp_tsk

\* A dispatch, wherever it starts, makes the scheduler's choice current and
\* resumes a context that exists.
LEMMA SwitchInv ==
  ASSUME Inv, ~tick, sche_task # NULL,
         context' \in [Task -> {"none", "live", "exited"}],
         \A t \in Task : state[t] \in {"TS_READY", "TS_WAIT"} => context'[t] # "none",
         SwitchTo(sche_task, context'), UNCHANGED << tcb, queues, timer, sche_task, pend_sv >>
  PROVE  Inv'
<1>1. sche_task \in Task /\ IsTop(sche_task, ready_queue)
  BY DEF Inv, TypeOK, SchedulerUpToDate
<1>2. state[sche_task] = "TS_READY"
  BY <1>1, TopHeadsItsQueue DEF Inv
<1>3. thread' \in {"live", "exited"}
  BY <1>1, <1>2 DEF SwitchTo
<1>4. TypeOK'
  BY <1>1, <1>3 DEF Inv, TypeOK, SwitchTo, tcb, queues, timer
<1>5. QueuesMatchState' /\ SchedulerUpToDate'
  BY DEF Inv, QueuesMatchState, SchedulerUpToDate, IsTop, tcb, queues, timer
<1>6. BootInv'
  <2>1. 1 \in Task
    BY KernelAssumption DEF Task
  <2> QED
    BY <1>1, <1>2, <1>3, <2>1 DEF Inv, BootInv, tcb
<1>7. DispatchInv'
  BY <1>1, <1>3, KernelAssumption DEF Inv, DispatchInv, SwitchTo, Main, tcb
<1> QED
  BY <1>4, <1>5, <1>6, <1>7 DEF Inv

LEMMA DispatchStepInv ==
  ASSUME Inv, DispatchStep
  PROVE  Inv'
<1>1. CASE PendSV
  BY <1>1 DEF PendSV, Inv, TypeOK, QueuesMatchState, SchedulerUpToDate, DispatchInv, BootInv,
              IsTop, tcb, queues, timer
<1>2. CASE Dispatch
  <2>1. cur_task # NULL => cur_task \in Task /\ thread \in {"live", "exited"}
    BY <1>2 DEF Dispatch, Inv, TypeOK, DispatchInv, Main
  <2>2. /\ context' \in [Task -> {"none", "live", "exited"}]
        /\ \A t \in Task : state[t] \in {"TS_READY", "TS_WAIT"} => context'[t] # "none"
    BY <1>2, <2>1 DEF Dispatch, Inv, TypeOK, DispatchInv
  <2>3. CASE sche_task # NULL
    BY <1>2, <2>2, <2>3, SwitchInv DEF Dispatch
  <2>4. CASE sche_task = NULL
    BY <1>2, <2>2, <2>4 DEF Dispatch, Inv, TypeOK, QueuesMatchState, SchedulerUpToDate,
                            DispatchInv, BootInv, IsTop, tcb, queues, timer
  <2> QED
    BY <2>3, <2>4
<1>3. CASE LeaveIdle
  BY <1>3, SwitchInv DEF LeaveIdle, Inv, TypeOK, DispatchInv
<1> QED
  BY <1>1, <1>2, <1>3 DEF DispatchStep

\* Moving the handler's cursor along the wait queue.
LEMMA AdvanceType ==
  ASSUME TypeOK, Advance
  PROVE  scan' \in Task \cup {NULL}
<1>1. PICK i \in 1 .. Len(wait_queue) :
        scan' = IF i = Len(wait_queue) THEN NULL ELSE wait_queue[i + 1]
  BY DEF Advance
<1>2. wait_queue \in Seq(Task)
  BY DEF TypeOK
<1>3. CASE i = Len(wait_queue)
  BY <1>1, <1>3
<1>4. CASE i # Len(wait_queue)
  <2>1. i + 1 \in 1 .. Len(wait_queue)
    BY <1>2, <1>4
  <2>2. wait_queue[i + 1] \in Task
    BY <1>2, <2>1
  <2> QED
    BY <1>1, <1>4, <2>2
<1> QED
  BY <1>3, <1>4

LEMMA TickStepInv ==
  ASSUME Inv, TickStep
  PROVE  Inv'
<1>1. CASE SysTick
  <2>1. scan' \in Task \cup {NULL}
    BY <1>1, TailIs DEF SysTick, Inv, TypeOK
  <2> QED
    BY <1>1, <2>1 DEF SysTick, Inv, TypeOK, QueuesMatchState, SchedulerUpToDate, DispatchInv,
                      BootInv, tcb, queues, dispatcher
<1>2. CASE TickForever
  BY <1>2, AdvanceType DEF TickForever, Inv, TypeOK, QueuesMatchState, SchedulerUpToDate,
                           DispatchInv, BootInv, tcb, queues, dispatcher
<1>3. CASE TickCount
  <2>1. waitim' \in [Task -> 0 .. UW_MAX]
    BY <1>3, KernelAssumption DEF TickCount, Inv, TypeOK
  <2> QED
    BY <1>3, <2>1, AdvanceType DEF TickCount, Inv, TypeOK, QueuesMatchState, SchedulerUpToDate,
                                   DispatchInv, BootInv, queues, dispatcher
<1>4. CASE TickExpire
  <2>1. scan \in Task
    BY <1>4 DEF TickExpire, Inv, TypeOK
  <2>2. QueuesMatchState'
    BY <1>4, <2>1, ReleaseKeepsQueues DEF TickExpire, Inv
  <2>3. TypeOK'
    <3>1. err' \in [Task -> {"E_OK", "E_TMOUT"}]
      BY <1>4 DEF TickExpire, TimeoutErr, Inv, TypeOK
    <3> QED
      BY <1>4, <2>1, <3>1, ReleaseType, AdvanceType DEF TickExpire, Inv, TypeOK, dispatcher
  <2>4. SchedulerUpToDate'
    BY <1>4 DEF TickExpire, SchedulerUpToDate
  <2>5. state[scan] = "TS_WAIT"
    BY <1>4, <2>1 DEF TickExpire, release, tqueue_remove_entry, Inv, QueuesMatchState, Lists
  <2>6. state' = [state EXCEPT ![scan] = "TS_READY"] /\ itskpri' = itskpri
    BY <1>4 DEF TickExpire, release
  <2>7. DispatchInv'
    BY <1>4, <2>5, <2>6 DEF TickExpire, Inv, TypeOK, DispatchInv, dispatcher
  <2>8. BootInv'
    <3>1. \A t \in Task : state[t] = "TS_NONEXIST" <=> state'[t] = "TS_NONEXIST"
      BY <2>5, <2>6 DEF Inv, TypeOK
    <3> QED
      BY <1>4, <2>6, <3>1, BootStays DEF TickExpire, Inv, dispatcher
  <2> QED
    BY <2>2, <2>3, <2>4, <2>7, <2>8 DEF Inv
<1>5. CASE TickReturn
  <2>1. sche_task' \in Task \cup {NULL} /\ pend_sv' \in BOOLEAN
    BY <1>5, Zenon DEF TickReturn, scheduler
  <2>2. TypeOK' /\ QueuesMatchState' /\ BootInv'
    BY <1>5, <2>1 DEF TickReturn, Inv, TypeOK, QueuesMatchState, BootInv, tcb, dispatcher
  <2>3. SchedulerUpToDate'
    BY <1>5 DEF TickReturn, scheduler, SchedulerUpToDate
  <2>4. DispatchInv'
    BY <1>5 DEF TickReturn, scheduler, Inv, DispatchInv, tcb, dispatcher
  <2> QED
    BY <2>2, <2>3, <2>4 DEF Inv
<1> QED
  BY <1>1, <1>2, <1>3, <1>4, <1>5 DEF TickStep

LEMMA InitInv == Init => Inv
<1> SUFFICES ASSUME Init PROVE Inv
  OBVIOUS
<1>1. TypeOK
  <2>1. 0 \in Pri /\ 0 \in 0 .. UW_MAX /\ 0 \in 0 .. MaxWup
    BY KernelAssumption DEF Pri
  <2>2. << >> \in Seq(Task)
    OBVIOUS
  <2>3. /\ itskpri \in [Task -> Pri]
        /\ wupcnt \in [Task -> 0 .. MaxWup]
        /\ waitim \in [Task -> 0 .. UW_MAX]
        /\ ready_queue \in [Pri -> Seq(Task)]
    BY <2>1, <2>2 DEF Init
  <2> QED
    BY <2>2, <2>3 DEF Init, TypeOK, WaiFct
<1>2. QueuesMatchState
  BY DEF Init, QueuesMatchState, Lists
<1>3. SchedulerUpToDate
  BY KernelAssumption DEF Init, SchedulerUpToDate, IsTop, Pri, Scanned
<1>4. DispatchInv /\ BootInv
  BY DEF Init, DispatchInv, BootInv, Main
<1> QED
  BY <1>1, <1>2, <1>3, <1>4 DEF Inv

LEMMA NextInv == Inv /\ [Next]_vars => Inv'
<1> SUFFICES ASSUME Inv, [Next]_vars PROVE Inv'
  OBVIOUS
<1>1. CASE TaskStep
  <2>1. CASE main
    <3>1. 1 \in Task
      BY KernelAssumption DEF Task
    <3> QED
      BY <2>1, <3>1, CreateInv, StartInv DEF main, Running
  <2>2. CASE TaskCreates
    BY <2>2, CreateInv, KernelAssumption DEF TaskCreates, InTask, Running
  <2>3. CASE TaskStarts
    BY <2>3, StartInv DEF TaskStarts, InTask, Running
  <2>4. CASE tk_ext_tsk
    BY <2>4, ExitInv
  <2>5. CASE tk_dly_tsk
    BY <2>5, DelayInv
  <2>6. CASE tk_slp_tsk
    BY <2>6, SleepInv
  <2>7. CASE TaskWakes
    BY <2>7, WakeInv DEF TaskWakes, InTask, Running
  <2> QED
    BY <1>1, <2>1, <2>2, <2>3, <2>4, <2>5, <2>6, <2>7 DEF TaskStep
<1>2. CASE HandlerStep
  <2>1. CASE HandlerStarts
    BY <2>1, StartInv DEF HandlerStarts, InHandler
  <2>2. CASE HandlerWakes
    BY <2>2, WakeInv DEF HandlerWakes, InHandler
  <2> QED
    BY <1>2, <2>1, <2>2 DEF HandlerStep
<1>3. CASE DispatchStep
  BY <1>3, DispatchStepInv
<1>4. CASE TickStep
  BY <1>4, TickStepInv
<1>5. CASE UNCHANGED vars
  BY <1>5 DEF vars, tcb, queues, dispatcher, timer, Inv, TypeOK, QueuesMatchState,
              SchedulerUpToDate, DispatchInv, BootInv, IsTop
<1> QED
  BY <1>1, <1>2, <1>3, <1>4, <1>5 DEF Next

\* A thread that runs with nothing pending is the one to run.
LEMMA InvRunsTop == Inv => RunsTheTop
<1> SUFFICES ASSUME Inv, Running, thread \notin {"main_cre", "main_sta"}
             PROVE  cur_task = sche_task /\ IsTop(cur_task, ready_queue) /\ cur_task # NULL
  BY DEF RunsTheTop
<1>1. cur_task = sche_task /\ thread # "main_end" /\ thread \notin Main
  BY DEF Running, Inv, DispatchInv, Main
<1> QED
  BY <1>1 DEF Running, Inv, DispatchInv, SchedulerUpToDate

THEOREM Invariance == Spec => []Inv
  BY InitInv, NextInv, PTL DEF Spec

-----------------------------------------------------------------------------
(***************************************************************************)
(* The theorems.                                                           *)
(***************************************************************************)

\* Every variable of the kernel keeps its type (knldef.h:28-65).
THEOREM Typing == Spec => []TypeOK
  BY Invariance, PTL DEF Inv

\* No task is lost or queued twice, whatever the calls, the interrupts and the
\* timer do (task_mange.c, task_sync.c, systimer.c).
THEOREM QueuesAlwaysMatch == Spec => []QueuesMatchState
  BY Invariance, PTL DEF Inv

\* The scheduler's choice is never out of date outside the timer handler
\* (scheduler.c:15-26).
THEOREM SchedulerAlwaysUpToDate == Spec => []SchedulerUpToDate
  BY Invariance, PTL DEF Inv

\* No dispatch is missed: the thread that runs is the one to run
\* (scheduler.c:27-30, dispatch.S:10-90).
THEOREM TopAlwaysRuns == Spec => []RunsTheTop
  BY InvRunsTop, Invariance, PTL

-----------------------------------------------------------------------------
(***************************************************************************)
(* Wakeups.                                                                *)
(***************************************************************************)

\* A step keeps NoSleepWithPendingWakeup: tk_slp_tsk waits only when no wakeup
\* is queued, tk_wup_tsk queues one only for a task that does not sleep.
LEMMA NextWakeups == Inv /\ NoSleepWithPendingWakeup /\ [Next]_vars => NoSleepWithPendingWakeup'
<1> SUFFICES ASSUME Inv, NoSleepWithPendingWakeup, [Next]_vars,
                    NEW t \in Task, state'[t] = "TS_WAIT", waifct'[t] = "TWFCT_SLP"
             PROVE  wupcnt'[t] = 0
  BY DEF NoSleepWithPendingWakeup
<1>1. CASE TaskStep
  <2>1. CASE main
    BY <2>1 DEF main, tk_cre_tsk, tk_sta_tsk, Inv, TypeOK, NoSleepWithPendingWakeup
  <2>2. CASE TaskCreates
    BY <2>2 DEF TaskCreates, tk_cre_tsk, Inv, TypeOK, NoSleepWithPendingWakeup
  <2>3. CASE TaskStarts
    BY <2>3 DEF TaskStarts, tk_sta_tsk, Inv, TypeOK, NoSleepWithPendingWakeup
  <2>4. CASE tk_ext_tsk
    BY <2>4 DEF tk_ext_tsk, Inv, TypeOK, NoSleepWithPendingWakeup
  <2>5. CASE tk_dly_tsk
    BY <2>5 DEF tk_dly_tsk, enter_wait, Inv, TypeOK, NoSleepWithPendingWakeup
  <2>6. CASE tk_slp_tsk
    <3>1. cur_task \in Task /\ state[cur_task] = "TS_READY"
      BY <2>6, CallerIsTop, TopHeadsItsQueue DEF tk_slp_tsk, Inv
    <3>2. t # cur_task => state[t] = "TS_WAIT" /\ waifct[t] = "TWFCT_SLP" /\ wupcnt'[t] = wupcnt[t]
      BY <2>6, <3>1 DEF tk_slp_tsk, enter_wait, Inv, TypeOK
    <3>3. t = cur_task => wupcnt'[t] = 0
      BY <2>6, <3>1 DEF tk_slp_tsk, enter_wait, Inv, TypeOK
    <3> QED
      BY <3>2, <3>3 DEF NoSleepWithPendingWakeup
  <2>7. CASE TaskWakes
    BY <2>7 DEF TaskWakes, tk_wup_tsk, release, Inv, TypeOK, NoSleepWithPendingWakeup
  <2> QED
    BY <1>1, <2>1, <2>2, <2>3, <2>4, <2>5, <2>6, <2>7 DEF TaskStep
<1>2. CASE HandlerStep
  <2>1. CASE HandlerStarts
    BY <2>1 DEF HandlerStarts, tk_sta_tsk, Inv, TypeOK, NoSleepWithPendingWakeup
  <2>2. CASE HandlerWakes
    BY <2>2 DEF HandlerWakes, tk_wup_tsk, release, Inv, TypeOK, NoSleepWithPendingWakeup
  <2> QED
    BY <1>2, <2>1, <2>2 DEF HandlerStep
<1>3. CASE DispatchStep
  BY <1>3 DEF DispatchStep, PendSV, Dispatch, LeaveIdle, tcb, NoSleepWithPendingWakeup
<1>4. CASE TickStep
  BY <1>4 DEF TickStep, SysTick, TickForever, TickCount, TickExpire, TickReturn, release, tcb,
              Inv, TypeOK, NoSleepWithPendingWakeup
<1>5. CASE UNCHANGED vars
  BY <1>5 DEF vars, tcb, NoSleepWithPendingWakeup
<1> QED
  BY <1>1, <1>2, <1>3, <1>4, <1>5 DEF Next

\* No wakeup is lost (task_sync.c:36-38, 76-78).
THEOREM WakeupsNeverLost == Spec => []NoSleepWithPendingWakeup
<1>1. Init => NoSleepWithPendingWakeup
  BY DEF Init, NoSleepWithPendingWakeup
<1> QED
  BY <1>1, NextWakeups, Invariance, PTL DEF Spec

-----------------------------------------------------------------------------
(***************************************************************************)
(* Timeouts.                                                               *)
(***************************************************************************)

\* A task that waits has given the kernel the address of its own err, which
\* still holds E_OK.
OwnFrame == \A t \in Task : state[t] = "TS_WAIT" => waierr[t] = t /\ err[t] = "E_OK"

\* A wait that begins.
LEMMA EnterWaitOwnFrame ==
  ASSUME Inv, OwnFrame, cur_task \in Task, NEW fct, NEW tim, enter_wait(fct, tim)
  PROVE  OwnFrame'
  BY DEF enter_wait, Inv, TypeOK, OwnFrame

\* A wait that ends by an API, whatever becomes of waierr of the task that
\* waited.
LEMMA ReleaseOwnFrame ==
  ASSUME Inv, OwnFrame, NEW t \in Task, release(t),
         \A u \in Task : err'[u] \in {err[u], "E_OK"},
         \A u \in Task \ {t} : waierr'[u] = waierr[u]
  PROVE  OwnFrame'
  BY DEF release, Inv, TypeOK, OwnFrame

\* A call of a task that sets its own result.
LEMMA ResultOwnFrame ==
  ASSUME Inv, OwnFrame, cur_task \in Task, err' = [err EXCEPT ![cur_task] = "E_OK"],
         UNCHANGED << state, waierr >>
  PROVE  OwnFrame'
  BY DEF Inv, TypeOK, OwnFrame

LEMMA NextOwnFrame == Inv /\ OwnFrame /\ [Next]_vars => OwnFrame'
<1> SUFFICES ASSUME Inv, OwnFrame, [Next]_vars PROVE OwnFrame'
  OBVIOUS
<1>1. CASE tk_dly_tsk \/ tk_slp_tsk
  <2>1. cur_task \in Task
    BY <1>1, CallerIsTop DEF tk_dly_tsk, tk_slp_tsk
  <2> QED
    BY <1>1, <2>1, EnterWaitOwnFrame, ResultOwnFrame DEF tk_dly_tsk, tk_slp_tsk
<1>2. CASE main \/ TaskCreates \/ TaskStarts \/ tk_ext_tsk \/ HandlerStarts
  BY <1>2 DEF main, TaskCreates, TaskStarts, tk_ext_tsk, HandlerStarts, tk_cre_tsk, tk_sta_tsk,
              Inv, TypeOK, OwnFrame
<1>3. CASE TaskWakes \/ HandlerWakes
  <2>1. ASSUME NEW t \in Task, tk_wup_tsk(t) PROVE OwnFrame'
    BY <2>1, ReleaseOwnFrame DEF tk_wup_tsk, OwnFrame
  <2> QED
    BY <1>3, <2>1 DEF TaskWakes, HandlerWakes
<1>4. CASE DispatchStep
  BY <1>4 DEF DispatchStep, PendSV, Dispatch, LeaveIdle, tcb, OwnFrame
<1>5. CASE SysTick \/ TickForever \/ TickCount \/ TickReturn
  BY <1>5 DEF SysTick, TickForever, TickCount, TickReturn, tcb, OwnFrame
<1>6. CASE TickExpire
  <2>1. scan \in Task /\ state[scan] = "TS_WAIT"
    BY <1>6 DEF TickExpire, release, tqueue_remove_entry, Inv, TypeOK, QueuesMatchState, Lists
  <2>2. err' = [err EXCEPT ![scan] = TimeoutErr(waifct[scan])]
    BY <1>6, <2>1 DEF TickExpire, OwnFrame
  <2> QED
    BY <1>6, <2>1, <2>2 DEF TickExpire, release, Inv, TypeOK, OwnFrame
<1>7. CASE UNCHANGED vars
  BY <1>7 DEF vars, tcb, OwnFrame
<1> QED
  BY <1>1, <1>2, <1>3, <1>4, <1>5, <1>6, <1>7 DEF Next, TaskStep, HandlerStep, TickStep

\* What TimeoutHitsTheWaiter says of a step.
Hits == \A t \in Task : err'[t] = "E_TMOUT" /\ err[t] = "E_OK" =>
          scan = t /\ state[t] = "TS_WAIT" /\ waifct[t] # "TWFCT_DLY"

LEMMA NextHits == Inv /\ OwnFrame /\ Next => Hits
<1> SUFFICES ASSUME Inv, OwnFrame, Next, NEW t \in Task,
                    err'[t] = "E_TMOUT", err[t] = "E_OK"
             PROVE  scan = t /\ state[t] = "TS_WAIT" /\ waifct[t] # "TWFCT_DLY"
  BY DEF Hits
<1>1. CASE TaskStep
  BY <1>1 DEF TaskStep, main, TaskCreates, TaskStarts, tk_ext_tsk, tk_dly_tsk, tk_slp_tsk, TaskWakes,
              tk_cre_tsk, tk_sta_tsk, tk_wup_tsk, enter_wait, Inv, TypeOK
<1>2. CASE HandlerStep
  BY <1>2 DEF HandlerStep, HandlerStarts, HandlerWakes, tk_sta_tsk, tk_wup_tsk
<1>3. CASE DispatchStep
  BY <1>3 DEF DispatchStep, PendSV, Dispatch, LeaveIdle, tcb
<1>4. CASE SysTick \/ TickForever \/ TickCount \/ TickReturn
  BY <1>4 DEF SysTick, TickForever, TickCount, TickReturn, tcb
<1>5. CASE TickExpire
  <2>1. scan \in Task
    BY <1>5 DEF TickExpire, Inv, TypeOK
  <2>2. state[scan] = "TS_WAIT"
    BY <1>5, <2>1 DEF TickExpire, release, tqueue_remove_entry, Inv, QueuesMatchState, Lists
  <2>3. err' = [err EXCEPT ![scan] = TimeoutErr(waifct[scan])]
    BY <1>5, <2>1, <2>2 DEF TickExpire, OwnFrame
  <2> QED
    BY <2>1, <2>2, <2>3 DEF TimeoutErr, Inv, TypeOK
<1> QED
  BY <1>1, <1>2, <1>3, <1>4, <1>5 DEF Next, TickStep

\* A timeout is reported to the call that waits, never to another task's frame
\* nor to a later call (systimer.c:25-29).
THEOREM TimeoutsHitWaiters == Spec => TimeoutHitsTheWaiter
<1>1. Init => OwnFrame
  BY DEF Init, OwnFrame
<1>2. Inv /\ OwnFrame /\ [Next]_vars => [Hits]_vars
  BY NextHits
<1> QED
  BY <1>1, <1>2, NextOwnFrame, Invariance, PTL DEF Spec, TimeoutHitsTheWaiter, Hits

-----------------------------------------------------------------------------
(***************************************************************************)
(* The end of a task.                                                      *)
(***************************************************************************)

\* The thread of an ended task is that of a current task which is DORMANT, and
\* no task that is started or waits has such a thread to resume.
EndInv ==
  /\ cpu # "idle" /\ thread = "exited" => state[cur_task] = "TS_DORMANT"
  /\ \A t \in Task : state[t] \in {"TS_READY", "TS_WAIT"} => context[t] = "live"

\* A task is started again only by tasks.
TasksStart == "tk_sta_tsk" \notin HandlerApi

LEMMA NextEnd == TasksStart /\ Inv /\ EndInv /\ [Next]_vars => EndInv'
<1> SUFFICES ASSUME TasksStart, Inv, EndInv, [Next]_vars PROVE EndInv'
  OBVIOUS
<1>1. cpu # "idle" /\ thread = "exited" => cur_task \in Task
  BY DEF Inv, TypeOK, DispatchInv, Main
<1>2. CASE main
  <2>1. CASE tk_cre_tsk(1)
    BY <1>1, <1>2, <2>1 DEF main, tk_cre_tsk, Inv, TypeOK, EndInv
  <2>2. CASE tk_sta_tsk(1)
    <3>1. thread' = "main_end" /\ cur_task' = cur_task /\ cpu' = cpu
      BY <1>2, <2>2 DEF main, tk_cre_tsk, tk_sta_tsk, Inv, TypeOK
    <3>2. /\ state' = [state EXCEPT ![1] = "TS_READY"]
          /\ context' = [context EXCEPT ![1] = "live"]
      BY <2>2 DEF tk_sta_tsk
    <3> QED
      BY <3>1, <3>2 DEF Inv, TypeOK, EndInv
  <2> QED
    BY <1>2, <2>1, <2>2 DEF main
<1>12. CASE TaskCreates
  BY <1>1, <1>12 DEF TaskCreates, tk_cre_tsk, Inv, TypeOK, EndInv
<1>3. CASE TaskStarts
  BY <1>3 DEF TaskStarts, InTask, tk_sta_tsk, Inv, TypeOK, EndInv
<1>4. CASE tk_ext_tsk
  BY <1>4, CallerIsTop DEF tk_ext_tsk, Inv, TypeOK, EndInv
<1>5. CASE tk_dly_tsk \/ tk_slp_tsk
  <2>1. cur_task \in Task /\ state[cur_task] = "TS_READY" /\ thread = "live"
    BY <1>5, CallerIsTop, TopHeadsItsQueue DEF tk_dly_tsk, tk_slp_tsk, InTask, Inv
  <2> QED
    BY <1>5, <2>1 DEF tk_dly_tsk, tk_slp_tsk, enter_wait, dispatcher, Inv, TypeOK, EndInv
<1>6. CASE TaskWakes \/ HandlerWakes
  BY <1>1, <1>6 DEF TaskWakes, HandlerWakes, tk_wup_tsk, release, dispatcher, Inv, TypeOK, EndInv
<1>7. CASE HandlerStarts
  BY <1>7 DEF HandlerStarts, TasksStart
<1>8. CASE PendSV
  BY <1>8 DEF PendSV, tcb, EndInv
<1>9. CASE Dispatch \/ LeaveIdle
  <2>1. \A t \in Task : state[t] \in {"TS_READY", "TS_WAIT"} => context'[t] = "live"
    BY <1>9 DEF Dispatch, LeaveIdle, Inv, TypeOK, DispatchInv, Main, EndInv
  <2>2. sche_task # NULL => sche_task \in Task /\ state[sche_task] = "TS_READY"
    BY <1>9, TopHeadsItsQueue DEF Dispatch, LeaveIdle, Inv, TypeOK, SchedulerUpToDate
  <2> QED
    BY <1>9, <2>1, <2>2 DEF Dispatch, LeaveIdle, SwitchTo, tcb, EndInv
<1>10. CASE TickStep
  <2>1. CASE TickExpire
    <3>1. scan \in Task /\ state[scan] = "TS_WAIT"
      BY <2>1 DEF TickExpire, release, tqueue_remove_entry, Inv, TypeOK, QueuesMatchState, Lists
    <3> QED
      BY <1>1, <2>1, <3>1 DEF TickExpire, release, dispatcher, Inv, TypeOK, EndInv
  <2>2. CASE SysTick \/ TickForever \/ TickCount \/ TickReturn
    BY <2>2 DEF SysTick, TickForever, TickCount, TickReturn, tcb, dispatcher, EndInv
  <2> QED
    BY <1>10, <2>1, <2>2 DEF TickStep
<1>11. CASE UNCHANGED vars
  BY <1>11 DEF vars, tcb, dispatcher, EndInv
<1> QED
  BY <1>2, <1>3, <1>4, <1>5, <1>6, <1>7, <1>8, <1>9, <1>10, <1>11, <1>12
     DEF Next, TaskStep, HandlerStep, DispatchStep

\* An ended task never runs on, unless an interrupt handler starts it again
\* before it has left the processor (task_mange.c:54-101, dispatch.S:39).
THEOREM EndedTasksStay ==
  ASSUME TasksStart
  PROVE  Spec => []ExitedNeverRuns
<1>1. Init => EndInv
  BY DEF Init, EndInv
<1>2. Inv /\ EndInv => ExitedNeverRuns
  <2> SUFFICES ASSUME Inv, EndInv, Running, thread = "exited" PROVE FALSE
    BY DEF ExitedNeverRuns
  <2>1. cur_task \in Task /\ cur_task = sche_task
    BY DEF Running, Inv, TypeOK, DispatchInv, Main
  <2>2. state[cur_task] = "TS_READY"
    BY <2>1, TopHeadsItsQueue DEF Running, Inv, SchedulerUpToDate
  <2> QED
    BY <2>2 DEF Running, EndInv
<1>3. Inv /\ EndInv /\ [Next]_vars => EndInv'
  BY NextEnd
<1> QED
  BY <1>1, <1>2, <1>3, Invariance, PTL DEF Spec

-----------------------------------------------------------------------------
(***************************************************************************)
(* Every ready task is looked at.                                          *)
(***************************************************************************)

\* The tasks that exist have a priority that the scheduler looks at.
PriorityInv == \A t \in Task : state[t] # "TS_NONEXIST" => itskpri[t] \in Scanned

\* Tasks are created with such a priority.
ScannedOnly == \A pri \in ItsPri : pri < CNF_MAX_TSKPRI

LEMMA NextPriority == ScannedOnly /\ Inv /\ PriorityInv /\ [Next]_vars => PriorityInv'
<1> SUFFICES ASSUME ScannedOnly, Inv, PriorityInv, [Next]_vars PROVE PriorityInv'
  OBVIOUS
<1>1. ASSUME NEW pri \in Int, pri < CNF_MAX_TSKPRI, tk_cre_tsk(pri) PROVE PriorityInv'
  <2>1. pri \in Scanned
    BY <1>1, KernelAssumption DEF tk_cre_tsk, Scanned
  <2> QED
    BY <1>1, <2>1 DEF tk_cre_tsk, Inv, TypeOK, PriorityInv
<1>2. CASE main
  BY <1>1, <1>2, KernelAssumption DEF main, tk_sta_tsk, Inv, TypeOK, PriorityInv
<1>3. CASE TaskCreates
  BY <1>1, <1>3, KernelAssumption DEF TaskCreates, ScannedOnly
<1>4. CASE TaskStarts \/ HandlerStarts
  BY <1>4 DEF TaskStarts, HandlerStarts, tk_sta_tsk, Inv, TypeOK, PriorityInv
<1>5. CASE tk_ext_tsk \/ tk_dly_tsk \/ tk_slp_tsk
  <2>1. cur_task \in Task /\ state[cur_task] = "TS_READY"
    BY <1>5, CallerIsTop, TopHeadsItsQueue DEF tk_ext_tsk, tk_dly_tsk, tk_slp_tsk, Inv
  <2> QED
    BY <1>5, <2>1 DEF tk_ext_tsk, tk_dly_tsk, tk_slp_tsk, enter_wait, Inv, TypeOK, PriorityInv
<1>6. CASE TaskWakes \/ HandlerWakes
  BY <1>6 DEF TaskWakes, HandlerWakes, tk_wup_tsk, release, Inv, TypeOK, PriorityInv
<1>7. CASE DispatchStep
  BY <1>7 DEF DispatchStep, PendSV, Dispatch, LeaveIdle, tcb, PriorityInv
<1>8. CASE SysTick \/ TickForever \/ TickCount \/ TickReturn
  BY <1>8 DEF SysTick, TickForever, TickCount, TickReturn, tcb, PriorityInv
<1>9. CASE TickExpire
  <2>1. scan \in Task /\ state[scan] = "TS_WAIT"
    BY <1>9 DEF TickExpire, release, tqueue_remove_entry, Inv, TypeOK, QueuesMatchState, Lists
  <2> QED
    BY <1>9, <2>1 DEF TickExpire, release, Inv, TypeOK, PriorityInv
<1>10. CASE UNCHANGED vars
  BY <1>10 DEF vars, tcb, PriorityInv
<1> QED
  BY <1>2, <1>3, <1>4, <1>5, <1>6, <1>7, <1>8, <1>9, <1>10 DEF Next, TaskStep, HandlerStep, TickStep

\* With priorities below CNF_MAX_TSKPRI, when the scheduler finds nothing to
\* run there is nothing (scheduler.c:17-26).
THEOREM IdleMeansNothingReady ==
  ASSUME ScannedOnly
  PROVE  Spec => []NothingReadyWhenIdle
<1>1. Init => PriorityInv
  BY DEF Init, PriorityInv
<1>2. Inv /\ PriorityInv => NothingReadyWhenIdle
  <2> SUFFICES ASSUME Inv, PriorityInv, ~tick, sche_task = NULL, NEW t \in Task,
                      state[t] = "TS_READY"
               PROVE  FALSE
    BY DEF NothingReadyWhenIdle
  <2>1. itskpri[t] \in Scanned /\ itskpri[t] \in Pri
    BY DEF PriorityInv, Inv, TypeOK
  <2>2. t \in {u \in Task : state[u] = "TS_READY" /\ itskpri[u] = itskpri[t]}
    OBVIOUS
  <2>3. PICK i \in 1 .. Len(ready_queue[itskpri[t]]) : ready_queue[itskpri[t]][i] = t
    BY <2>1, <2>2 DEF Inv, QueuesMatchState, Lists
  <2>4. ready_queue[itskpri[t]] # << >>
    BY <2>3
  <2>5. ASSUME NEW p \in Scanned, NULL = Head(ready_queue[p]), ready_queue[p] # << >>
        PROVE  FALSE
    <3>1. p \in Pri
      BY KernelAssumption DEF Scanned, Pri
    <3> QED
      BY <2>5, <3>1, TailIs, KernelAssumption DEF Inv, TypeOK
  <2> QED
    BY <2>1, <2>4, <2>5 DEF Inv, SchedulerUpToDate, IsTop
<1>3. Inv /\ PriorityInv /\ [Next]_vars => PriorityInv'
  BY NextPriority
<1> QED
  BY <1>1, <1>2, <1>3, Invariance, PTL DEF Spec

-----------------------------------------------------------------------------
(***************************************************************************)
(* The order of tasks of one priority.                                     *)
(***************************************************************************)
Queued(s, u) == \E i \in 1 .. Len(s) : s[i] = u

\* A task added at the end comes before nobody who is queued.
LEMMA AppendKeepsOrder ==
  ASSUME NEW s \in Seq(Task), NEW c \in Task, NEW t, NEW u,
         ~Queued(s, c), Queued(s, u), Before(Append(s, c), t, u)
  PROVE  Before(s, t, u)
<1> DEFINE r == Append(s, c)
<1>1. /\ Len(r) = Len(s) + 1 /\ Len(s) \in Nat
      /\ \A i \in 1 .. Len(s) : r[i] = s[i]
      /\ r[Len(s) + 1] = c
  BY AppendIs
<1>2. PICK i \in 1 .. Len(r), j \in 1 .. Len(r) : i < j /\ r[i] = t /\ r[j] = u
  BY DEF Before
<1> HIDE DEF r
<1>3. j # Len(s) + 1
  BY <1>1, <1>2 DEF Queued
<1>4. j \in 1 .. Len(s) /\ i \in 1 .. Len(s)
  BY <1>1, <1>2, <1>3
<1>5. s[i] = t /\ s[j] = u
  BY <1>1, <1>2, <1>4
<1> QED
  BY <1>2, <1>4, <1>5 DEF Before

\* Removing the top leaves the order of the others.
LEMMA TailKeepsOrder ==
  ASSUME NEW s \in Seq(Task), s # << >>, NEW t, NEW u, Before(Tail(s), t, u)
  PROVE  Before(s, t, u)
<1> DEFINE r == Tail(s)
<1>1. /\ Len(r) = Len(s) - 1 /\ Len(s) \in Nat
      /\ \A i \in 1 .. Len(r) : r[i] = s[i + 1]
  BY TailIs
<1>2. PICK i \in 1 .. Len(r), j \in 1 .. Len(r) : i < j /\ r[i] = t /\ r[j] = u
  BY DEF Before
<1> HIDE DEF r
<1>3. i + 1 \in 1 .. Len(s) /\ j + 1 \in 1 .. Len(s) /\ i + 1 < j + 1
  BY <1>1, <1>2
<1>4. s[i + 1] = t /\ s[j + 1] = u
  BY <1>1, <1>2
<1> QED
  BY <1>3, <1>4 DEF Before

\* What FifoAmongEquals says of a step.
OrderKept ==
  \A p \in Pri, t, u \in Task :
    Queued(ready_queue[p], u) /\ Before(ready_queue'[p], t, u) => Before(ready_queue[p], t, u)

LEMMA JoinKeepsOrder ==
  ASSUME Inv, NEW c \in Task, state[c] # "TS_READY",
         ready_queue' = [ready_queue EXCEPT ![itskpri[c]] = Append(@, c)]
  PROVE  OrderKept
<1> SUFFICES ASSUME NEW p \in Pri, NEW t \in Task, NEW u \in Task,
                    Queued(ready_queue[p], u), Before(ready_queue'[p], t, u)
             PROVE  Before(ready_queue[p], t, u)
  BY DEF OrderKept
<1>1. ready_queue[p] \in Seq(Task) /\ itskpri[c] \in Pri
  BY DEF Inv, TypeOK
<1>2. ~Queued(ready_queue[p], c)
  BY DEF Inv, QueuesMatchState, Lists, Queued
<1>3. CASE p = itskpri[c]
  <2>1. ready_queue'[p] = Append(ready_queue[p], c)
    BY <1>1, <1>3 DEF Inv, TypeOK
  <2> QED
    BY <1>1, <1>2, <2>1, AppendKeepsOrder
<1>4. CASE p # itskpri[c]
  BY <1>1, <1>4 DEF Inv, TypeOK
<1> QED
  BY <1>3, <1>4

LEMMA LeaveKeepsOrder ==
  ASSUME Inv, NEW q \in Pri,
         ready_queue' = [ready_queue EXCEPT ![q] = tqueue_remove_top(@)]
  PROVE  OrderKept
<1> SUFFICES ASSUME NEW p \in Pri, NEW t \in Task, NEW u \in Task,
                    Queued(ready_queue[p], u), Before(ready_queue'[p], t, u)
             PROVE  Before(ready_queue[p], t, u)
  BY DEF OrderKept
<1>1. ready_queue[p] \in Seq(Task)
  BY DEF Inv, TypeOK
<1>2. CASE p = q /\ ready_queue[p] # << >>
  <2>1. ready_queue'[p] = Tail(ready_queue[p])
    BY <1>2 DEF Inv, TypeOK, tqueue_remove_top
  <2> QED
    BY <1>1, <1>2, <2>1, TailKeepsOrder
<1>3. CASE p # q \/ ready_queue[p] = << >>
  <2>1. ready_queue'[p] = ready_queue[p]
    BY <1>3 DEF Inv, TypeOK, tqueue_remove_top
  <2> QED
    BY <2>1
<1> QED
  BY <1>2, <1>3

LEMMA StayKeepsOrder ==
  ASSUME ready_queue' = ready_queue
  PROVE  OrderKept
  BY DEF OrderKept

LEMMA NextOrder == Inv /\ Next => OrderKept
<1> SUFFICES ASSUME Inv, Next PROVE OrderKept
  OBVIOUS
<1>1. ASSUME NEW t \in Task, tk_sta_tsk(t) PROVE OrderKept
  BY <1>1, JoinKeepsOrder DEF tk_sta_tsk, tqueue_add_entry
<1>2. ASSUME NEW t \in Task, release(t) PROVE OrderKept
  <2>1. state[t] = "TS_WAIT"
    BY <1>2 DEF release, tqueue_remove_entry, Inv, QueuesMatchState, Lists
  <2> QED
    BY <1>2, <2>1, JoinKeepsOrder DEF release, tqueue_add_entry
<1>3. ASSUME InTask, NEW fct, NEW tim, enter_wait(fct, tim) PROVE OrderKept
  <2>1. itskpri[cur_task] \in Pri
    BY <1>3, CallerIsTop DEF Inv, TypeOK
  <2> QED
    BY <1>3, <2>1, LeaveKeepsOrder DEF enter_wait
<1>4. CASE main
  <2>1. 1 \in Task
    BY KernelAssumption DEF Task
  <2> QED
    BY <1>1, <1>4, <2>1, StayKeepsOrder DEF main, tk_cre_tsk, queues
<1>5. CASE TaskCreates
  BY <1>5, StayKeepsOrder DEF TaskCreates, tk_cre_tsk, queues
<1>6. CASE TaskStarts \/ HandlerStarts
  BY <1>1, <1>6 DEF TaskStarts, HandlerStarts
<1>7. CASE tk_ext_tsk
  <2>1. itskpri[cur_task] \in Pri
    BY <1>7, CallerIsTop DEF tk_ext_tsk, Inv, TypeOK
  <2> QED
    BY <1>7, <2>1, LeaveKeepsOrder DEF tk_ext_tsk
<1>8. CASE tk_dly_tsk \/ tk_slp_tsk
  BY <1>3, <1>8, StayKeepsOrder DEF tk_dly_tsk, tk_slp_tsk, queues
<1>9. CASE TaskWakes \/ HandlerWakes
  BY <1>2, <1>9, StayKeepsOrder DEF TaskWakes, HandlerWakes, tk_wup_tsk, queues
<1>10. CASE DispatchStep
  BY <1>10, StayKeepsOrder DEF DispatchStep, PendSV, Dispatch, LeaveIdle, queues
<1>11. CASE SysTick \/ TickForever \/ TickCount \/ TickReturn
  BY <1>11, StayKeepsOrder DEF SysTick, TickForever, TickCount, TickReturn, queues
<1>12. CASE TickExpire
  BY <1>2, <1>12 DEF TickExpire, Inv, TypeOK
<1> QED
  BY <1>4, <1>5, <1>6, <1>7, <1>8, <1>9, <1>10, <1>11, <1>12
     DEF Next, TaskStep, HandlerStep, TickStep

\* Tasks of one priority run first come, first served: nobody is overtaken
\* (task_queue.c:9-24, knldef.h:105-109).
THEOREM EqualsInOrder == Spec => FifoAmongEquals
<1> DEFINE Kept == \A p \in Pri, t, u \in Task :
                     /\ \E i \in 1 .. Len(ready_queue[p]) : ready_queue[p][i] = u
                     /\ Before(ready_queue'[p], t, u)
                     => Before(ready_queue[p], t, u)
<1>1. Inv /\ [Next]_vars => [Kept]_vars
  BY NextOrder DEF OrderKept, Queued
<1> QED
  BY <1>1, Invariance, PTL DEF Spec, FifoAmongEquals

-----------------------------------------------------------------------------
(***************************************************************************)
(* Waits for objects, which other modules begin and end: what the kernel's *)
(* own steps may do with them.                                             *)
(***************************************************************************)
OwnWait == {"TWFCT_NON", "TWFCT_DLY", "TWFCT_SLP"}

\* t waits for an object.
WaitsForObject(t) == state[t] = "TS_WAIT" /\ waifct[t] \notin OwnWait

\* The only step of the kernel that ends such a wait is a timeout, with
\* E_TMOUT; and none begins one.
LEMMA NextObjectWaits ==
  ASSUME Inv, OwnFrame, Next, NEW t \in Task
  PROVE  /\ WaitsForObject(t) =>
              \/ state'[t] = "TS_WAIT" /\ waifct'[t] = waifct[t]
              \/ state'[t] = "TS_READY" /\ err'[t] = "E_TMOUT"
         /\ WaitsForObject(t)' => WaitsForObject(t) /\ waifct'[t] = waifct[t]
<1> DEFINE Goal == /\ WaitsForObject(t) =>
                        \/ state'[t] = "TS_WAIT" /\ waifct'[t] = waifct[t]
                        \/ state'[t] = "TS_READY" /\ err'[t] = "E_TMOUT"
                   /\ WaitsForObject(t)' => WaitsForObject(t) /\ waifct'[t] = waifct[t]
<1>1. ASSUME state' = state, waifct' = waifct PROVE Goal
  BY <1>1 DEF WaitsForObject
<1>2. ASSUME NEW u \in Task, tk_sta_tsk(u) PROVE Goal
  BY <1>2 DEF tk_sta_tsk, WaitsForObject, Inv, TypeOK
<1>3. ASSUME NEW u \in Task, tk_wup_tsk(u) PROVE Goal
  BY <1>3 DEF tk_wup_tsk, release, WaitsForObject, OwnWait, Inv, TypeOK
<1>4. ASSUME cur_task \in Task, state[cur_task] = "TS_READY", NEW fct \in {"TWFCT_DLY", "TWFCT_SLP"},
             NEW tim, enter_wait(fct, tim)
      PROVE  Goal
  BY <1>4 DEF enter_wait, WaitsForObject, OwnWait, Inv, TypeOK
<1>5. CASE main
  <2>1. 1 \in Task
    BY KernelAssumption DEF Task
  <2> QED
    BY <1>2, <1>5, <2>1 DEF main, tk_cre_tsk, WaitsForObject, Inv, TypeOK
<1>6. CASE TaskCreates
  BY <1>6 DEF TaskCreates, tk_cre_tsk, WaitsForObject, Inv, TypeOK
<1>7. CASE TaskStarts \/ HandlerStarts
  BY <1>2, <1>7 DEF TaskStarts, HandlerStarts
<1>8. CASE tk_ext_tsk
  <2>1. cur_task \in Task /\ state[cur_task] = "TS_READY"
    BY <1>8, CallerIsTop, TopHeadsItsQueue DEF tk_ext_tsk, Inv
  <2> QED
    BY <1>8, <2>1 DEF tk_ext_tsk, WaitsForObject, Inv, TypeOK
<1>9. CASE tk_dly_tsk \/ tk_slp_tsk
  <2>1. cur_task \in Task /\ state[cur_task] = "TS_READY"
    BY <1>9, CallerIsTop, TopHeadsItsQueue DEF tk_dly_tsk, tk_slp_tsk, Inv
  <2> QED
    BY <1>1, <1>4, <1>9, <2>1 DEF tk_dly_tsk, tk_slp_tsk
<1>10. CASE TaskWakes \/ HandlerWakes
  BY <1>3, <1>10 DEF TaskWakes, HandlerWakes
<1>11. CASE DispatchStep
  BY <1>1, <1>11 DEF DispatchStep, PendSV, Dispatch, LeaveIdle, tcb
<1>12. CASE SysTick \/ TickForever \/ TickCount \/ TickReturn
  BY <1>1, <1>12 DEF SysTick, TickForever, TickCount, TickReturn, tcb
<1>13. CASE TickExpire
  <2>1. scan \in Task
    BY <1>13 DEF TickExpire, Inv, TypeOK
  <2>2. state[scan] = "TS_WAIT"
    BY <1>13, <2>1 DEF TickExpire, release, tqueue_remove_entry, Inv, QueuesMatchState, Lists
  <2>3. err' = [err EXCEPT ![scan] = TimeoutErr(waifct[scan])]
    BY <1>13, <2>1, <2>2 DEF TickExpire, OwnFrame
  <2> QED
    BY <1>13, <2>1, <2>2, <2>3 DEF TickExpire, release, TimeoutErr, WaitsForObject, OwnWait, Inv, TypeOK
<1> QED
  BY <1>5, <1>6, <1>7, <1>8, <1>9, <1>10, <1>11, <1>12, <1>13
     DEF Next, TaskStep, HandlerStep, TickStep
=============================================================================
