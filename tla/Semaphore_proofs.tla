-------------------------- MODULE Semaphore_proofs --------------------------
(***************************************************************************)
(* Proofs about Semaphore, for every number of tasks and semaphores: the   *)
(* kernel's invariant under the waits for semaphores, the units and their  *)
(* ledger, the order of the grants, and that nobody waits for a unit that  *)
(* is there, where units are used one at a time.                           *)
(***************************************************************************)
EXTENDS Semaphore, Kernel_proofs, WellFoundedInduction

allvars == << vars, semvars >>

\* The sum of f over S.
Sum(f, S) == MapThenSumSet(LAMBDA t : f[t], S)

\* What is known of the semaphores: the ledger agrees with the counts, and a
\* semaphore that does not exist has no units.
SemInv ==
  /\ SemTypeOK
  /\ UnitsConserved
  /\ \A s \in Sem : ~Exists(s) => semcb[s].semcnt = 0

SInv == Inv /\ OwnFrame /\ SemInv

-----------------------------------------------------------------------------
(***************************************************************************)
(* Sums over at most one task.                                             *)
(***************************************************************************)
LEMMA SumNone ==
  ASSUME NEW f, NEW S, S = {}
  PROVE  Sum(f, S) = 0
<1> DEFINE Is(g) == g = [s \in SUBSET {} |->
                           IF s = {} THEN 0
                           ELSE f[CHOOSE x \in s : TRUE] + g[s \ {CHOOSE x \in s : TRUE}]]
<1>1. Is([s \in SUBSET {} |-> 0])
  OBVIOUS
<1>2. Is(CHOOSE g : Is(g))
  BY <1>1
<1>3. (CHOOSE g : Is(g))[{}] = 0
  BY <1>2
<1>4. Sum(f, {}) = (CHOOSE g : Is(g))[{}]
  BY DEF Sum, MapThenSumSet, MapThenFoldSet
<1> QED
  BY <1>3, <1>4

LEMMA SumOne ==
  ASSUME NEW f, NEW a, NEW S, S = {a}, f[a] \in Int
  PROVE  Sum(f, S) = f[a]
<1> DEFINE Is(g) == g = [s \in SUBSET {a} |->
                           IF s = {} THEN 0
                           ELSE f[CHOOSE x \in s : TRUE] + g[s \ {CHOOSE x \in s : TRUE}]]
<1>1. Is([s \in SUBSET {a} |-> IF s = {} THEN 0 ELSE f[a]])
  <2> DEFINE h == [s \in SUBSET {a} |-> IF s = {} THEN 0 ELSE f[a]]
  <2>1. ASSUME NEW s \in SUBSET {a}, s # {}
        PROVE  (CHOOSE x \in s : TRUE) = a /\ s \ {a} = {}
    BY <2>1
  <2>2. h[{}] = 0
    OBVIOUS
  <2> HIDE DEF h
  <2>3. ASSUME NEW s \in SUBSET {a}
        PROVE  (IF s = {} THEN 0 ELSE f[a]) =
               (IF s = {} THEN 0
                ELSE f[CHOOSE x \in s : TRUE] + h[s \ {CHOOSE x \in s : TRUE}])
    BY <2>1, <2>2
  <2>4. Is(h)
    BY <2>3 DEF h
  <2> QED
    BY <2>4 DEF h
<1>2. Is(CHOOSE g : Is(g))
  BY <1>1
<1>3. (CHOOSE g : Is(g))[{a}] = f[a]
  <2> DEFINE g == CHOOSE g : Is(g)
  <2>1. Is(g)
    BY <1>2
  <2> HIDE DEF g
  <2>2. g[{}] = 0
    BY <2>1
  <2>3. (CHOOSE x \in {a} : TRUE) = a /\ {a} \ {a} = {}
    OBVIOUS
  <2>4. g[{a}] = f[a] + g[{}]
    BY <2>1, <2>3
  <2> QED
    BY <2>2, <2>4 DEF g
<1>4. Sum(f, {a}) = (CHOOSE g : Is(g))[{a}]
  BY DEF Sum, MapThenSumSet, MapThenFoldSet
<1> QED
  BY <1>3, <1>4

\* Enter, with the sum by its name.
LEMMA EnterIs ==
  ASSUME NEW s, NEW units, Enter(s, units), NEW r \in Sem
  PROVE  ledger'[r] = ledger[r] + (IF r = s THEN units ELSE 0) - Sum(waisem, Granted(r))
  BY DEF Enter, Sum

-----------------------------------------------------------------------------
(***************************************************************************)
(* The steps.                                                              *)
(***************************************************************************)

\* A step that ends no wait for a semaphore grants nothing.
LEMMA NothingGranted ==
  ASSUME NEW s, \A t \in Task : state[t] = "TS_WAIT" => state'[t] # "TS_READY"
  PROVE  Granted(s) = {}
  BY DEF Granted, WaitsFor

\* The kernel's own steps grant nothing: a timeout is not a grant.
LEMMA KernelGrantsNothing ==
  ASSUME Inv, OwnFrame, Next, NEW s
  PROVE  Granted(s) = {}
<1> SUFFICES ASSUME NEW t \in Task, WaitsFor(t, s), state'[t] = "TS_READY", err'[t] = "E_OK"
             PROVE  FALSE
  BY DEF Granted
<1>1. WaitsForObject(t)
  BY DEF WaitsFor, WaitsForObject, OwnWait
<1> QED
  BY <1>1, NextObjectWaits

\* The ledger keeps its type and, where nothing is granted, follows the units.
LEMMA EnterNothing ==
  ASSUME SemTypeOK, NEW s, NEW units \in Int, Enter(s, units),
         \A r \in Sem : Granted(r) = {}
  PROVE  /\ ledger' \in [Sem -> Int]
         /\ \A r \in Sem : ledger'[r] = ledger[r] + (IF r = s THEN units ELSE 0)
<1>1. ASSUME NEW r \in Sem
      PROVE  ledger'[r] = ledger[r] + (IF r = s THEN units ELSE 0) /\ ledger'[r] \in Int
  <2>1. ledger[r] \in Int
    BY DEF SemTypeOK
  <2>2. Sum(waisem, Granted(r)) = 0
    BY SumNone
  <2>3. ledger'[r] = ledger[r] + (IF r = s THEN units ELSE 0) - Sum(waisem, Granted(r))
    BY EnterIs
  <2> QED
    BY <2>1, <2>2, <2>3
<1>2. ledger' = [r \in Sem |-> ledger'[r]]
  BY DEF Enter
<1> QED
  BY <1>1, <1>2

LEMMA KernelStepInv == SInv /\ KernelStep => SInv'
<1> SUFFICES ASSUME SInv, KernelStep PROVE SInv'
  OBVIOUS
<1>1. Inv' /\ OwnFrame'
  BY NextInv, NextOwnFrame DEF SInv, KernelStep
<1>2. /\ ledger' \in [Sem -> Int]
      /\ \A r \in Sem : ledger'[r] = ledger[r] + (IF r = NULL THEN 0 ELSE 0)
  BY EnterNothing, KernelGrantsNothing DEF SInv, SemInv, KernelStep
<1>3. \A r \in Sem : ledger'[r] = ledger[r]
  BY <1>2 DEF SInv, SemInv, SemTypeOK
<1> QED
  BY <1>1, <1>2, <1>3 DEF SInv, SemInv, SemTypeOK, UnitsConserved, Exists, KernelStep

LEMMA CreatesInv == SInv /\ TaskCreatesSem => SInv'
<1> SUFFICES ASSUME SInv, InTask, UNCHANGED << dispatcher, timer >>,
                    NEW pk \in CSem, tk_cre_sem(pk)
             PROVE  SInv'
  BY DEF TaskCreatesSem
<1>1. PICK s \in Sem :
        /\ ~Exists(s)
        /\ semcb' = [semcb EXCEPT ![s] =
             [state |-> "KS_EXIST", semcnt |-> pk.isemcnt, maxsem |-> pk.maxsem]]
        /\ UNCHANGED << tcb, queues, sche_task, pend_sv, waiobj, waisem >>
        /\ Enter(s, pk.isemcnt)
  BY DEF tk_cre_sem
<1>2. Inv'
  BY <1>1, NextInv DEF SInv, vars
<1>3. OwnFrame'
  BY <1>1, NextOwnFrame DEF SInv, vars
<1>4. pk.isemcnt \in Nat /\ pk.maxsem \in Nat /\ pk.isemcnt <= pk.maxsem
  BY SemaphoreAssumption
<1>5. \A r : Granted(r) = {}
  BY <1>1, NothingGranted DEF tcb
<1>6. /\ ledger' \in [Sem -> Int]
      /\ \A r \in Sem : ledger'[r] = ledger[r] + (IF r = s THEN pk.isemcnt ELSE 0)
  BY <1>1, <1>4, <1>5, EnterNothing DEF SInv, SemInv
<1>7. /\ semcb' \in [Sem -> [state : {"KS_NONEXIST", "KS_EXIST"}, semcnt : Nat, maxsem : Nat]]
      /\ semcb'[s].state = "KS_EXIST" /\ semcb'[s].semcnt = pk.isemcnt /\ semcb'[s].maxsem = pk.maxsem
      /\ \A r \in Sem : r # s => semcb'[r] = semcb[r]
  BY <1>1, <1>4 DEF SInv, SemInv, SemTypeOK
<1>8. SemTypeOK'
  BY <1>1, <1>4, <1>6, <1>7 DEF SInv, SemInv, SemTypeOK
<1>9. UnitsConserved'
  <2>1. ledger[s] = 0
    BY <1>1 DEF SInv, SemInv, UnitsConserved
  <2> QED
    BY <1>4, <1>6, <1>7, <2>1 DEF SInv, SemInv, SemTypeOK, UnitsConserved
<1>10. \A r \in Sem : semcb'[r].state # "KS_EXIST" => semcb'[r].semcnt = 0
  BY <1>7 DEF SInv, SemInv, Exists
<1> QED
  BY <1>2, <1>3, <1>8, <1>9, <1>10 DEF SInv, SemInv, Exists

LEMMA WaitsInv == SInv /\ TaskWaits => SInv'
<1> SUFFICES ASSUME SInv, InTask, UNCHANGED << dispatcher, timer >>,
                    NEW s \in Sem, NEW cnt \in Cnt, NEW tmout \in Tmo, tk_wai_sem(s, cnt, tmout)
             PROVE  SInv'
  BY DEF TaskWaits
<1>1. cnt \in Nat /\ cnt > 0 /\ semcb[s].semcnt \in Nat /\ tmout \in Int /\ cur_task \in Task
  BY SemaphoreAssumption, KernelAssumption, CallerIsTop DEF SInv, SemInv, SemTypeOK
<1>2. CASE /\ semcb[s].semcnt >= cnt
           /\ semcb' = [semcb EXCEPT ![s].semcnt = @ - cnt]
           /\ err' = [err EXCEPT ![cur_task] = "E_OK"]
           /\ UNCHANGED << state, itskpri, wupcnt, waifct, waitim, waierr,
                           queues, sche_task, pend_sv, waiobj, waisem >>
           /\ Enter(s, -cnt)
  <2>1. Inv'
    BY <1>1, <1>2, ResultInv DEF SInv, Inv, TypeOK
  <2>2. OwnFrame'
    BY <1>1, <1>2, ResultOwnFrame DEF SInv
  <2>3. \A r : Granted(r) = {}
    BY <1>2, NothingGranted
  <2>4. -cnt \in Int
    BY <1>1
  <2>5. /\ ledger' \in [Sem -> Int]
        /\ \A r \in Sem : ledger'[r] = ledger[r] + (IF r = s THEN -cnt ELSE 0)
    BY <1>2, <2>3, <2>4, EnterNothing DEF SInv, SemInv
  <2>6. semcb[s].semcnt - cnt \in Nat /\ semcb[s].semcnt - cnt <= semcb[s].maxsem
    BY <1>1, <1>2 DEF SInv, SemInv, SemTypeOK
  <2>7. /\ semcb' \in [Sem -> [state : {"KS_NONEXIST", "KS_EXIST"}, semcnt : Nat, maxsem : Nat]]
        /\ semcb'[s].semcnt = semcb[s].semcnt - cnt
        /\ \A r \in Sem : semcb'[r].state = semcb[r].state /\ semcb'[r].maxsem = semcb[r].maxsem
        /\ \A r \in Sem : r # s => semcb'[r] = semcb[r]
    BY <1>2, <2>6 DEF SInv, SemInv, SemTypeOK
  <2>8. SemTypeOK'
    BY <1>2, <2>5, <2>6, <2>7 DEF SInv, SemInv, SemTypeOK
  <2>9. UnitsConserved'
    BY <1>1, <2>5, <2>7 DEF SInv, SemInv, SemTypeOK, UnitsConserved
  <2>10. \A r \in Sem : semcb'[r].state # "KS_EXIST" => semcb'[r].semcnt = 0
    BY <2>7 DEF SInv, SemInv, Exists, tk_wai_sem
  <2> QED
    BY <2>1, <2>2, <2>8, <2>9, <2>10 DEF SInv, SemInv, Exists
<1>3. CASE /\ enter_wait("TWFCT_SEM", WaitTim(tmout))
           /\ waiobj' = [waiobj EXCEPT ![cur_task] = s]
           /\ waisem' = [waisem EXCEPT ![cur_task] = cnt]
           /\ UNCHANGED << semcb, ledger >>
  <2>1. WaitTim(tmout) \in 0 .. UW_MAX
    <3>1. tmout + TIMER_PERIOD \in Int
      BY <1>1, KernelAssumption
    <3> QED
      BY <1>1, <3>1, UWType DEF WaitTim
  <2>2. Inv'
    BY <1>3, <2>1, EnterWaitInv DEF SInv, WaiFct
  <2>3. OwnFrame'
    BY <1>1, <1>3, EnterWaitOwnFrame DEF SInv
  <2>4. SemInv'
    BY <1>1, <1>3 DEF SInv, SemInv, SemTypeOK, UnitsConserved, Exists
  <2> QED
    BY <2>2, <2>3, <2>4 DEF SInv
<1> QED
  BY <1>2, <1>3 DEF tk_wai_sem

\* The waiter that a signal serves, and what is left.
Served(t, s, units, frame) ==
  /\ FirstWaiter(t, s)
  /\ Suffices(units, waisem[t])
  /\ semcb' = [semcb EXCEPT ![s].semcnt = Rest(units, waisem[t])]
  /\ release(t)
  /\ waierr' = [waierr EXCEPT ![t] = frame]
  /\ err' = err
  /\ scheduler

\* A signal grants to the waiter it serves and to no other.
LEMMA ServedIsGranted ==
  ASSUME Inv, OwnFrame, NEW s, NEW t \in Task, NEW units, NEW frame, Served(t, s, units, frame),
         NEW r
  PROVE  Granted(r) = IF r = s THEN {t} ELSE {}
<1>1. /\ state[t] = "TS_WAIT" /\ waifct[t] = "TWFCT_SEM" /\ waiobj[t] = s
      /\ err'[t] = "E_OK" /\ state' = [state EXCEPT ![t] = "TS_READY"]
  BY DEF Served, FirstWaiter, WaitsFor, release, OwnFrame
<1>2. state'[t] = "TS_READY" /\ \A u \in Task \ {t} : state'[u] = state[u]
  BY <1>1 DEF Inv, TypeOK
<1> QED
  BY <1>1, <1>2 DEF Granted, WaitsFor

LEMMA SignalInv ==
  ASSUME SInv, ~tick, NEW s \in Sem, NEW cnt \in Cnt, NEW frame \in Task \cup {NULL},
         tk_sig_sem(s, cnt, frame), UNCHANGED << dispatcher, timer >>
  PROVE  SInv'
<1> DEFINE units == semcb[s].semcnt + cnt
<1>1. cnt \in Nat /\ semcb[s].semcnt \in Nat /\ units \in Nat /\ units <= semcb[s].maxsem
  BY SemaphoreAssumption DEF SInv, SemInv, SemTypeOK, tk_sig_sem, Fits
<1>2. Exists(s) /\ Enter(s, cnt) /\ UNCHANGED << waiobj, waisem >> /\ Serve(s, units, frame)
  BY DEF tk_sig_sem
<1> HIDE DEF units
\* Whatever left is, the count is what the ledger says it is.
<1>3. ASSUME NEW left \in Nat, left <= units,
             semcb' = [semcb EXCEPT ![s].semcnt = left],
             ledger' \in [Sem -> Int], ledger'[s] = left,
             \A r \in Sem : r # s => ledger'[r] = ledger[r]
      PROVE  SemInv'
  <2>1. left <= semcb[s].maxsem
    BY <1>1, <1>3 DEF SInv, SemInv, SemTypeOK
  <2>2. /\ semcb' \in [Sem -> [state : {"KS_NONEXIST", "KS_EXIST"}, semcnt : Nat, maxsem : Nat]]
        /\ semcb'[s].semcnt = left
        /\ \A r \in Sem : semcb'[r].state = semcb[r].state /\ semcb'[r].maxsem = semcb[r].maxsem
        /\ \A r \in Sem : r # s => semcb'[r] = semcb[r]
    BY <1>3 DEF SInv, SemInv, SemTypeOK
  <2>3. SemTypeOK'
    BY <1>2, <1>3, <2>1, <2>2 DEF SInv, SemInv, SemTypeOK
  <2>4. UnitsConserved'
    BY <1>3, <2>2 DEF SInv, SemInv, UnitsConserved
  <2>5. \A r \in Sem : semcb'[r].state # "KS_EXIST" => semcb'[r].semcnt = 0
    BY <1>2, <2>2 DEF SInv, SemInv, Exists
  <2> QED
    BY <2>3, <2>4, <2>5 DEF SemInv, Exists
<1>4. ASSUME NEW t \in Task, Served(t, s, units, frame)
      PROVE  SInv'
  <2>1. Inv'
    BY <1>4, ReleaseInv DEF Served, SInv, Inv, TypeOK
  <2>2. OwnFrame'
    BY <1>4, ReleaseOwnFrame DEF Served, SInv, Inv, TypeOK
  <2>3. waisem[t] \in Nat /\ waisem[t] <= units
    BY <1>4, SemaphoreAssumption DEF Served, Suffices, SInv, SemInv, SemTypeOK
  <2>4. ASSUME NEW r \in Sem
        PROVE  ledger'[r] = IF r = s THEN ledger[r] + cnt - waisem[t] ELSE ledger[r]
    <3>1. ledger'[r] = ledger[r] + (IF r = s THEN cnt ELSE 0) - Sum(waisem, Granted(r))
      BY <1>2, EnterIs
    <3>2. Granted(r) = IF r = s THEN {t} ELSE {}
      BY <1>4, ServedIsGranted DEF SInv
    <3>3. ledger[r] \in Int
      BY DEF SInv, SemInv, SemTypeOK
    <3>4. ASSUME r = s PROVE Sum(waisem, Granted(r)) = waisem[t]
      <4>1. Granted(r) = {t}
        BY <3>2, <3>4
      <4>2. waisem[t] \in Int
        BY <2>3
      <4> QED
        BY <4>1, <4>2, SumOne, Zenon
    <3>5. r # s => Sum(waisem, Granted(r)) = 0
      BY <3>2, SumNone
    <3> DEFINE sum == Sum(waisem, Granted(r))
    <3>6. r = s => ledger'[r] = ledger[r] + cnt - sum /\ sum = waisem[t]
      BY <3>1, <3>4, Zenon
    <3>7. r # s => ledger'[r] = ledger[r] + 0 - sum /\ sum = 0
      BY <3>1, <3>5, Zenon
    <3> HIDE DEF sum
    <3>8. r # s => ledger'[r] = ledger[r]
      BY <3>3, <3>7
    <3> QED
      BY <3>6, <3>8
  <2>5. units - waisem[t] \in Nat /\ units - waisem[t] <= units
    BY <1>1, <2>3
  <2>6. ledger'[s] = units - waisem[t]
    BY <1>1, <2>3, <2>4 DEF units, SInv, SemInv, UnitsConserved
  <2>7. ledger' \in [Sem -> Int]
    <3>1. ledger' = [r \in Sem |-> ledger'[r]]
      BY <1>2 DEF Enter
    <3>2. \A r \in Sem : ledger'[r] \in Int
      BY <1>1, <2>3, <2>4 DEF SInv, SemInv, SemTypeOK
    <3> QED
      BY <3>1, <3>2
  <2>8. semcb' = [semcb EXCEPT ![s].semcnt = units - waisem[t]]
    BY <1>4 DEF Served, Rest
  <2>9. SemInv'
    BY <1>3, <2>4, <2>5, <2>6, <2>7, <2>8
  <2> QED
    BY <2>1, <2>2, <2>9 DEF SInv
<1>5. CASE /\ semcb' = [semcb EXCEPT ![s].semcnt = units]
           /\ UNCHANGED << tcb, queues, sche_task, pend_sv >>
  <2>1. Inv' /\ OwnFrame'
    BY <1>5, NextInv, NextOwnFrame DEF SInv, vars
  <2>2. \A r : Granted(r) = {}
    BY <1>5, NothingGranted DEF tcb
  <2>3. /\ ledger' \in [Sem -> Int]
        /\ \A r \in Sem : ledger'[r] = ledger[r] + (IF r = s THEN cnt ELSE 0)
    BY <1>1, <1>2, <2>2, EnterNothing DEF SInv, SemInv
  <2>4. ledger'[s] = units /\ \A r \in Sem : r # s => ledger'[r] = ledger[r]
    BY <1>1, <2>3 DEF units, SInv, SemInv, SemTypeOK, UnitsConserved
  <2>5. units \in Nat /\ units <= units
    BY <1>1
  <2>6. SemInv'
    BY <1>3, <1>5, <2>3, <2>4, <2>5
  <2> QED
    BY <2>1, <2>6 DEF SInv
<1> QED
  BY <1>2, <1>4, <1>5 DEF Serve, Served

LEMMA SemNextInv == SInv /\ [SemNext]_allvars => SInv'
<1>1. ASSUME SInv, UNCHANGED allvars PROVE SInv'
  <2>1. UNCHANGED vars
    BY <1>1 DEF allvars
  <2>2. Inv' /\ OwnFrame'
    BY <1>1, <2>1, NextInv, NextOwnFrame DEF SInv
  <2>3. SemInv'
    BY <1>1 DEF allvars, semvars, SInv, SemInv, SemTypeOK, UnitsConserved, Exists
  <2> QED
    BY <2>2, <2>3 DEF SInv
<1>2. ASSUME SInv, TaskSignals PROVE SInv'
  BY <1>2, SignalInv, CallerIsTop DEF TaskSignals, InTask, Running, SInv
<1>3. ASSUME SInv, HandlerSignals PROVE SInv'
  BY <1>3, SignalInv DEF HandlerSignals, InHandler
<1> QED
  BY <1>1, <1>2, <1>3, KernelStepInv, CreatesInv, WaitsInv DEF SemNext

LEMMA SemInitInv == SemInit => SInv
<1> SUFFICES ASSUME SemInit PROVE SInv
  OBVIOUS
<1>1. Inv /\ OwnFrame
  BY InitInv DEF SemInit, Init, OwnFrame
<1>2. SemInv
  BY DEF SemInit, SemInv, SemTypeOK, UnitsConserved, Exists
<1> QED
  BY <1>1, <1>2 DEF SInv

THEOREM SemInvariance == SemSpec => []SInv
  BY SemInitInv, SemNextInv, PTL DEF SemSpec, allvars

-----------------------------------------------------------------------------
(***************************************************************************)
(* The theorems.                                                           *)
(***************************************************************************)

\* The semaphores keep their types and limits (knldef.h:138-142).
THEOREM SemTyping == SemSpec => []SemTypeOK
  BY SemInvariance, PTL DEF SInv, SemInv

\* Units are neither lost nor made, however signals, waits and timeouts
\* interleave (semaphore.c:42-47, 82-108).
THEOREM UnitsAreConserved == SemSpec => []UnitsConserved
  BY SemInvariance, PTL DEF SInv, SemInv

\* Waits for semaphores keep the queues right too (semaphore.c:56-68, 88-98).
THEOREM SemQueuesMatch == SemSpec => []QueuesMatchState
  BY SemInvariance, PTL DEF SInv, Inv

\* ... and what runs is what should run (semaphore.c:68, 98).
THEOREM SemTopRuns == SemSpec => []RunsTheTop
  BY SemInvariance, InvRunsTop, PTL DEF SInv

\* A timeout of a wait for units is reported to the call that waits
\* (semaphore.c:61, systimer.c:25-29).
THEOREM SemTimeoutsHit == SemSpec => TimeoutHitsTheWaiter
<1>1. ASSUME SInv, SemNext PROVE Hits \/ UNCHANGED vars
  <2>1. ASSUME \A t \in Task : err'[t] = err[t] \/ err'[t] = "E_OK" PROVE Hits
    BY <2>1 DEF Hits
  <2>2. CASE KernelStep
    BY <1>1, <2>2, NextHits DEF KernelStep, SInv
  <2>3. CASE TaskCreatesSem
    BY <2>1, <2>3 DEF TaskCreatesSem, tk_cre_sem, tcb
  <2>4. CASE TaskWaits
    BY <1>1, <2>1, <2>4 DEF TaskWaits, tk_wai_sem, enter_wait, SInv, Inv, TypeOK
  <2>5. CASE TaskSignals \/ HandlerSignals
    BY <2>1, <2>5 DEF TaskSignals, HandlerSignals, tk_sig_sem, Serve, tcb
  <2> QED
    BY <1>1, <2>2, <2>3, <2>4, <2>5 DEF SemNext
<1>2. SInv /\ [SemNext]_allvars => [Hits]_vars
  BY <1>1 DEF allvars
<1> QED
  BY <1>2, SemInvariance, PTL DEF SemSpec, allvars, TimeoutHitsTheWaiter, Hits

\* Waiters are served in the order in which they came (semaphore.c:84-102).
THEOREM GrantsAreInOrder == SemSpec => GrantsInOrder
<1> DEFINE InOrder == \A s \in Sem, t, u \in Task :
                        t \in Granted(s) /\ WaitsFor(u, s) => ~Before(wait_queue, u, t)
<1>1. ASSUME SInv, SemNext PROVE InOrder
  <2> SUFFICES ASSUME NEW s \in Sem, NEW t \in Task, NEW u \in Task,
                      t \in Granted(s), WaitsFor(u, s), Before(wait_queue, u, t)
               PROVE  FALSE
    OBVIOUS
  <2>1. CASE KernelStep
    BY <1>1, <2>1, KernelGrantsNothing DEF KernelStep, SInv
  <2>2. CASE TaskCreatesSem
    BY <2>2, NothingGranted DEF TaskCreatesSem, tk_cre_sem, tcb
  <2>3. CASE TaskWaits
    <3>1. \A x \in Task : state[x] = "TS_WAIT" => state'[x] # "TS_READY"
      BY <1>1, <2>3 DEF TaskWaits, tk_wai_sem, enter_wait, SInv, Inv, TypeOK
    <3> QED
      BY <3>1, NothingGranted
  <2>4. ASSUME NEW r, NEW cnt, NEW frame, tk_sig_sem(r, cnt, frame) PROVE FALSE
    <3>1. PICK x \in Task : Served(x, r, semcb[r].semcnt + cnt, frame)
      BY <2>4, NothingGranted DEF tk_sig_sem, Serve, Served, tcb
    <3>2. t = x /\ s = r
      BY <1>1, <3>1, ServedIsGranted DEF SInv
    <3>3. PICK i \in 1 .. Len(wait_queue) :
            /\ wait_queue[i] = t
            /\ \A j \in 1 .. i - 1 : ~WaitsFor(wait_queue[j], s)
      BY <3>1, <3>2 DEF Served, FirstWaiter
    <3>4. PICK j, k \in 1 .. Len(wait_queue) : j < k /\ wait_queue[j] = u /\ wait_queue[k] = t
      BY DEF Before
    <3>5. k = i
      BY <1>1, <3>3, <3>4 DEF SInv, Inv, QueuesMatchState, Lists
    <3>6. j \in 1 .. i - 1
      BY <3>3, <3>4, <3>5
    <3> QED
      BY <3>3, <3>4, <3>6
  <2>5. CASE TaskSignals \/ HandlerSignals
    BY <2>4, <2>5 DEF TaskSignals, HandlerSignals
  <2> QED
    BY <1>1, <2>1, <2>2, <2>3, <2>5 DEF SemNext
<1>2. SInv /\ [SemNext]_allvars => [InOrder]_allvars
  BY <1>1
<1> QED
  BY <1>2, SemInvariance, PTL DEF SemSpec, allvars, GrantsInOrder

-----------------------------------------------------------------------------
(***************************************************************************)
(* Units used one at a time.                                               *)
(***************************************************************************)

\* Of the tasks that wait for s, one is the first.
LEMMA SomebodyIsFirst ==
  ASSUME TypeOK, QueuesMatchState, NEW s, NEW t \in Task, WaitsFor(t, s)
  PROVE  \E u \in Task : FirstWaiter(u, s)
<1> DEFINE T == {i \in 1 .. Len(wait_queue) : WaitsFor(wait_queue[i], s)}
<1>1. wait_queue \in Seq(Task) /\ Len(wait_queue) \in Nat
  BY DEF TypeOK
<1>2. T \subseteq Nat /\ T # {}
  <2>1. \E i \in 1 .. Len(wait_queue) : wait_queue[i] = t
    BY DEF QueuesMatchState, Lists, WaitsFor
  <2> QED
    BY <1>1, <2>1
<1>3. PICK i \in T : \A j \in T : ~(<< j, i >> \in OpToRel(<, Nat))
  BY <1>2, NatLessThanWellFounded, WFMin, Zenon
<1>4. i \in 1 .. Len(wait_queue) /\ WaitsFor(wait_queue[i], s)
  OBVIOUS
<1>5. ASSUME NEW j \in 1 .. i - 1 PROVE ~WaitsFor(wait_queue[j], s)
  <2>1. j \in 1 .. Len(wait_queue) /\ j \in Nat /\ i \in Nat /\ j < i
    BY <1>1, <1>4
  <2> QED
    BY <1>3, <2>1 DEF OpToRel
<1>6. wait_queue[i] \in Task
  BY <1>1, <1>4
<1> QED
  BY <1>4, <1>5, <1>6 DEF FirstWaiter

\* Every call is for one unit, as the calls of the device drivers are.
UnitCalls == Cnt = {1}

\* Who waits for s waits for one unit, and there is none.
Empty(s) == Exists(s) /\ semcb[s].semcnt = 0
WaitersFindEmpty ==
  \A t \in Task : state[t] = "TS_WAIT" /\ waifct[t] = "TWFCT_SEM" =>
    waiobj[t] \in Sem /\ Empty(waiobj[t]) /\ waisem[t] = 1

LEMMA NextWaitersFindEmpty ==
  ASSUME UnitCalls, SInv, WaitersFindEmpty, SemNext
  PROVE  WaitersFindEmpty'
\* For steps that begin no wait and leave the units of awaited semaphores.
<1>1. ASSUME UNCHANGED << waiobj, waisem >>,
             \A t \in Task : state'[t] = "TS_WAIT" /\ waifct'[t] = "TWFCT_SEM" =>
                /\ state[t] = "TS_WAIT" /\ waifct[t] = "TWFCT_SEM"
                /\ Empty(waiobj[t]) => Empty(waiobj[t])'
      PROVE  WaitersFindEmpty'
  BY <1>1 DEF WaitersFindEmpty
<1>2. CASE KernelStep
  <2>1. \A t \in Task : state'[t] = "TS_WAIT" /\ waifct'[t] = "TWFCT_SEM" =>
                        state[t] = "TS_WAIT" /\ waifct[t] = "TWFCT_SEM"
    BY <1>2, NextObjectWaits DEF KernelStep, SInv, WaitsForObject, OwnWait
  <2> QED
    BY <1>1, <1>2, <2>1 DEF KernelStep, Empty, Exists
<1>3. CASE TaskCreatesSem
  <2>1. PICK s \in Sem, pk \in CSem :
          /\ ~Exists(s)
          /\ semcb' = [semcb EXCEPT ![s] =
               [state |-> "KS_EXIST", semcnt |-> pk.isemcnt, maxsem |-> pk.maxsem]]
          /\ UNCHANGED << tcb, waiobj, waisem >>
    BY <1>3 DEF TaskCreatesSem, tk_cre_sem
  <2>2. \A r \in Sem : Exists(r) => semcb'[r] = semcb[r]
    BY <2>1 DEF SInv, SemInv, SemTypeOK
  <2>3. ASSUME NEW t \in Task, state'[t] = "TS_WAIT", waifct'[t] = "TWFCT_SEM"
        PROVE  waiobj'[t] \in Sem /\ Empty(waiobj[t])' /\ waisem'[t] = 1
    <3>1. state[t] = "TS_WAIT" /\ waifct[t] = "TWFCT_SEM" /\ waiobj'[t] = waiobj[t] /\ waisem'[t] = waisem[t]
      BY <2>1, <2>3 DEF tcb
    <3>2. waiobj[t] \in Sem /\ Exists(waiobj[t]) /\ semcb[waiobj[t]].semcnt = 0 /\ waisem[t] = 1
      BY <3>1 DEF WaitersFindEmpty, Empty
    <3> QED
      BY <2>2, <3>1, <3>2 DEF Empty, Exists
  <2> QED
    BY <2>3 DEF WaitersFindEmpty
<1>4. ASSUME NEW s \in Sem, NEW cnt \in Cnt, NEW tmout, InTask, tk_wai_sem(s, cnt, tmout)
      PROVE  WaitersFindEmpty'
  <2>1. cnt = 1 /\ cur_task \in Task /\ semcb[s].semcnt \in Nat
    BY <1>4, CallerIsTop DEF UnitCalls, SInv, SemInv, SemTypeOK
  <2>2. CASE semcb[s].semcnt >= cnt
    <3>1. /\ semcb[s].semcnt # 0
          /\ UNCHANGED << state, waifct, waiobj, waisem >>
          /\ \A r \in Sem : r # s => semcb'[r] = semcb[r]
      BY <1>4, <2>1, <2>2 DEF tk_wai_sem, SInv, SemInv, SemTypeOK
    <3> QED
      BY <3>1 DEF WaitersFindEmpty, Empty, Exists
  <2>3. CASE ~(semcb[s].semcnt >= cnt)
    <3>1. /\ semcb[s].semcnt = 0 /\ Exists(s) /\ semcb' = semcb
          /\ waiobj' = [waiobj EXCEPT ![cur_task] = s]
          /\ waisem' = [waisem EXCEPT ![cur_task] = 1]
          /\ \A t \in Task \ {cur_task} : state'[t] = state[t] /\ waifct'[t] = waifct[t]
      BY <1>4, <2>1, <2>3 DEF tk_wai_sem, enter_wait, SInv, Inv, TypeOK
    <3>2. /\ waiobj'[cur_task] = s /\ waisem'[cur_task] = 1
          /\ \A t \in Task \ {cur_task} : waiobj'[t] = waiobj[t] /\ waisem'[t] = waisem[t]
      BY <2>1, <3>1 DEF SInv, SemInv, SemTypeOK
    <3> QED
      BY <3>1, <3>2 DEF WaitersFindEmpty, Empty, Exists
  <2> QED
    BY <2>2, <2>3
<1>5. ASSUME NEW s \in Sem, NEW cnt \in Cnt, NEW frame, tk_sig_sem(s, cnt, frame)
      PROVE  WaitersFindEmpty'
  <2>1. cnt = 1 /\ semcb[s].semcnt \in Nat
    BY <1>5 DEF UnitCalls, SInv, SemInv, SemTypeOK
  <2>2. ASSUME NEW x \in Task, Served(x, s, semcb[s].semcnt + cnt, frame)
        PROVE  WaitersFindEmpty'
    <3>1. waiobj[x] = s /\ state[x] = "TS_WAIT" /\ waifct[x] = "TWFCT_SEM"
      BY <2>2 DEF Served, FirstWaiter, WaitsFor
    <3>2. semcb[s].semcnt = 0 /\ Exists(s) /\ waisem[x] = 1
      BY <3>1 DEF WaitersFindEmpty, Empty
    <3>3. semcb' = [semcb EXCEPT ![s].semcnt = 0]
      BY <2>1, <2>2, <3>2 DEF Served, Rest
    <3>4. \A r \in Sem : Empty(r) => Empty(r)'
      BY <3>3 DEF Empty, Exists, SInv, SemInv, SemTypeOK
    <3>5. /\ UNCHANGED << waiobj, waisem >>
          /\ \A t \in Task : state'[t] = "TS_WAIT" /\ waifct'[t] = "TWFCT_SEM" =>
                             state[t] = "TS_WAIT" /\ waifct[t] = "TWFCT_SEM"
      BY <1>5, <2>2 DEF tk_sig_sem, Served, release, SInv, Inv, TypeOK
    <3> QED
      BY <3>4, <3>5 DEF WaitersFindEmpty, Empty, Exists
  <2>3. CASE /\ \A t \in Task : FirstWaiter(t, s) => ~Suffices(semcb[s].semcnt + cnt, waisem[t])
             /\ semcb' = [semcb EXCEPT ![s].semcnt = semcb[s].semcnt + cnt]
             /\ UNCHANGED << tcb, queues, sche_task, pend_sv >>
    <3>1. ASSUME NEW t \in Task, WaitsFor(t, s) PROVE FALSE
      <4>1. PICK u \in Task : FirstWaiter(u, s)
        BY <3>1, SomebodyIsFirst DEF SInv, Inv
      <4>2. waisem[u] = 1
        BY <4>1 DEF FirstWaiter, WaitsFor, WaitersFindEmpty
      <4>3. semcb[s].semcnt + cnt >= 1
        BY <2>1
      <4> QED
        BY <2>3, <4>1, <4>2, <4>3 DEF Suffices
    <3>2. UNCHANGED << state, waifct, waiobj, waisem >>
      BY <1>5, <2>3 DEF tk_sig_sem, tcb
    <3>3. \A r \in Sem : r # s => semcb'[r] = semcb[r]
      BY <2>3 DEF SInv, SemInv, SemTypeOK
    <3> QED
      BY <3>1, <3>2, <3>3 DEF WaitersFindEmpty, Empty, Exists, WaitsFor
  <2> QED
    BY <1>5, <2>2, <2>3 DEF tk_sig_sem, Serve, Served
<1> QED
  BY <1>2, <1>3, <1>4, <1>5 DEF SemNext, TaskWaits, TaskSignals, HandlerSignals

\* With units used one at a time, as the locks of the device drivers are,
\* nobody waits for a unit that is there (semaphore.c:49, 88).
THEOREM NoUnitIdles ==
  ASSUME UnitCalls
  PROVE  SemSpec => []NoIdleUnits
<1>1. SemInit => WaitersFindEmpty
  BY DEF SemInit, Init, WaitersFindEmpty
<1>2. SInv /\ WaitersFindEmpty /\ [SemNext]_allvars => WaitersFindEmpty'
  <2>1. SInv /\ WaitersFindEmpty /\ UNCHANGED allvars => WaitersFindEmpty'
    BY DEF allvars, vars, tcb, semvars, WaitersFindEmpty, Empty, Exists
  <2> QED
    BY <2>1, NextWaitersFindEmpty
<1>3. SInv /\ WaitersFindEmpty => NoIdleUnits
  BY DEF NoIdleUnits, FirstWaiter, WaitsFor, WaitersFindEmpty, Empty
<1> QED
  BY <1>1, <1>2, <1>3, SemInvariance, PTL DEF SemSpec, allvars
=============================================================================
