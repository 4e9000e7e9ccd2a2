-------------------------- MODULE TaskQueue_proofs --------------------------
(***************************************************************************)
(* Proofs about the pointers of kernel/task_queue.c, for any number of     *)
(* queues and TCBs: they spell the queues, and read by the loops that      *)
(* follow them they behave as first-in first-out queues.  Then about the   *)
(* timer handler that walks along them (TimerScan): it uses them as        *)
(* TaskQueue allows, it ends no wait early and it misses none, for any     *)
(* period and any limits of the waits.                                     *)
(***************************************************************************)
EXTENDS TimerScan, SeqLemmas, FiniteSetTheorems

Inv == TypeOK /\ Distinct /\ Linked

\* The elements of one queue are distinct TCBs and none of them is NULL.
LEMMA Elements ==
  ASSUME TypeOK, Distinct, NEW q \in Queue
  PROVE  /\ content[q] \in Seq(TCB)
         /\ Len(content[q]) \in Nat
         /\ \A i \in 1 .. Len(content[q]) : content[q][i] \in TCB /\ content[q][i] # NULL
         /\ \A i, j \in 1 .. Len(content[q]) : content[q][i] = content[q][j] => i = j
<1>1. content[q] \in Seq(TCB)
  BY DEF TypeOK
<1>2. \A i \in 1 .. Len(content[q]) : content[q][i] \in TCB
  BY <1>1
<1> QED
  BY <1>1, <1>2, NullIsNoTCB DEF Distinct

\* A queue whose TCBs' links and whose head a step leaves alone is as it was.
LEMMA Untouched ==
  ASSUME TypeOK, Distinct, Linked, NEW r \in Queue,
         content'[r] = content[r], head'[r] = head[r],
         \A i \in 1 .. Len(content[r]) :
           /\ next'[content[r][i]] = next[content[r][i]]
           /\ pre'[content[r][i]] = pre[content[r][i]]
  PROVE  Spells(r, content[r])'
<1> DEFINE s == content[r]
<1>1. Spells(r, s) /\ Len(s) \in Nat /\ s \in Seq(TCB)
  BY Elements DEF Linked
<1>2. s # << >> => 1 \in 1 .. Len(s) /\ Len(s) \in 1 .. Len(s)
  BY <1>1
<1>3. \A i \in 1 .. Len(s) - 1 : i \in 1 .. Len(s) /\ i + 1 \in 1 .. Len(s)
  BY <1>1
<1> HIDE DEF s
<1>4. /\ s = << >> => head'[r] = NULL
      /\ s # << >> =>
           /\ head'[r] = s[1] /\ pre'[s[1]] = s[Len(s)] /\ next'[s[Len(s)]] = NULL
           /\ \A i \in 1 .. Len(s) - 1 : next'[s[i]] = s[i + 1] /\ pre'[s[i + 1]] = s[i]
  BY <1>1, <1>2, <1>3 DEF Spells, s
<1> QED
  BY <1>4 DEF Spells, s

-----------------------------------------------------------------------------
(***************************************************************************)
(* tqueue_add_entry.                                                       *)
(***************************************************************************)
LEMMA AddSpells ==
  ASSUME Inv, NEW q \in Queue, NEW t \in TCB, Add(q, t)
  PROVE  Spells(q, content[q])'
<1> DEFINE s == content[q]
           n == Len(s)
           r == Append(s, t)
<1>1. /\ Spells(q, s) /\ s \in Seq(TCB) /\ n \in Nat
      /\ \A i \in 1 .. n : s[i] \in TCB /\ s[i] # NULL /\ s[i] # t
      /\ \A i, j \in 1 .. n : s[i] = s[j] => i = j
  BY Elements DEF Inv, Linked, Add, InQueue
<1>2. content'[q] = r
  BY DEF Add, Inv, TypeOK
<1>3. r # << >> /\ Len(r) = n + 1 /\ r[n + 1] = t /\ \A i \in 1 .. n : r[i] = s[i]
  BY <1>1, AppendIs
<1>4. SUFFICES /\ head'[q] = r[1] /\ pre'[r[1]] = r[n + 1] /\ next'[r[n + 1]] = NULL
               /\ \A i \in 1 .. n : next'[r[i]] = r[i + 1] /\ pre'[r[i + 1]] = r[i]
  <2>1. (n + 1) - 1 = n
    BY <1>1
  <2>2. Spells(q, content[q])' <=>
          /\ r = << >> => head'[q] = NULL
          /\ r # << >> =>
               /\ head'[q] = r[1] /\ pre'[r[1]] = r[Len(r)] /\ next'[r[Len(r)]] = NULL
               /\ \A i \in 1 .. Len(r) - 1 : next'[r[i]] = r[i + 1] /\ pre'[r[i + 1]] = r[i]
    BY <1>2, Zenon DEF Spells
  <2> HIDE DEF r
  <2> QED
    BY <1>3, <2>1, <2>2
<1>5. CASE s = << >>
  <2>1. n = 0 /\ head[q] = NULL
    BY <1>1, <1>5 DEF Spells
  <2>2. head'[q] = t /\ pre'[t] = t /\ next'[t] = NULL
    BY <2>1 DEF Add, tqueue_add_entry, Inv, TypeOK
  <2> QED
    BY <2>1, <2>2, <1>3
<1>6. CASE s # << >>
  <2>1. /\ n >= 1 /\ 1 \in 1 .. n /\ n \in 1 .. n
        /\ head[q] = s[1] /\ head[q] # NULL /\ pre[s[1]] = s[n] /\ next[s[n]] = NULL
    BY <1>1, <1>6 DEF Spells
  <2>2. /\ head' = head
        /\ next' = [next EXCEPT ![s[n]] = t, ![t] = NULL]
        /\ pre' = [pre EXCEPT ![t] = s[n], ![s[1]] = t]
    BY <2>1 DEF Add, tqueue_add_entry
  <2>3. s[1] \in TCB /\ s[n] \in TCB /\ s[1] # t /\ s[n] # t
    BY <1>1, <2>1
  <2>4. \A u \in TCB : next'[u] = IF u = t THEN NULL ELSE IF u = s[n] THEN t ELSE next[u]
    BY <2>2, <2>3 DEF Inv, TypeOK
  <2>5. \A u \in TCB : pre'[u] = IF u = s[1] THEN t ELSE IF u = t THEN s[n] ELSE pre[u]
    BY <2>2, <2>3 DEF Inv, TypeOK
  <2>6. r[1] = s[1]
    BY <1>3, <2>1
  <2>7. head'[q] = r[1] /\ pre'[r[1]] = r[n + 1] /\ next'[r[n + 1]] = NULL
    BY <1>3, <2>1, <2>2, <2>3, <2>4, <2>5, <2>6
  <2>8. ASSUME NEW i \in 1 .. n
        PROVE  next'[r[i]] = r[i + 1] /\ pre'[r[i + 1]] = r[i]
    <3>1. CASE i = n
      BY <1>3, <2>1, <2>3, <2>4, <2>5, <3>1
    <3>2. CASE i # n
      <4>1. i \in 1 .. n - 1 /\ i + 1 \in 1 .. n /\ i + 1 # 1
        BY <1>1, <3>2
      <4>2. next[s[i]] = s[i + 1] /\ pre[s[i + 1]] = s[i]
        BY <1>1, <1>6, <4>1 DEF Spells
      <4>3. s[i] # s[n] /\ s[i + 1] # s[1]
        BY <1>1, <2>1, <3>2, <4>1
      <4>4. next'[s[i]] = s[i + 1]
        BY <1>1, <2>4, <4>2, <4>3
      <4>5. pre'[s[i + 1]] = s[i]
        BY <1>1, <2>5, <4>1, <4>2, <4>3
      <4> QED
        BY <1>3, <4>1, <4>4, <4>5
    <3> QED
      BY <3>1, <3>2
  <2> QED
    BY <2>7, <2>8
<1> QED
  BY <1>5, <1>6

LEMMA AddInv ==
  ASSUME Inv, NEW q \in Queue, NEW t \in TCB, Add(q, t)
  PROVE  Inv'
<1>1. /\ \A i \in 1 .. Len(content[q]) : content[q][i] \in TCB /\ content[q][i] # t
      /\ content[q] \in Seq(TCB) /\ Spells(q, content[q])
  BY Elements DEF Inv, Linked, Add, InQueue
<1>2. /\ content'[q] = Append(content[q], t) /\ content'[q] \in Seq(TCB)
      /\ Len(content'[q]) = Len(content[q]) + 1 /\ content'[q][Len(content[q]) + 1] = t
      /\ \A i \in 1 .. Len(content[q]) : content'[q][i] = content[q][i]
      /\ \A r \in Queue \ {q} : content'[r] = content[r]
  BY <1>1, AppendIs DEF Add, Inv, TypeOK
<1>3. TypeOK'
  <2>1. /\ head \in [Queue -> Pointer] /\ pre \in [TCB -> Pointer]
        /\ next \in [TCB -> Pointer]
    BY DEF Inv, TypeOK
  <2>2. content' \in [Queue -> Seq(TCB)]
    <3>1. content \in [Queue -> Seq(TCB)]
      BY DEF Inv, TypeOK
    <3>2. content' = [content EXCEPT ![q] = content'[q]]
      BY <1>2, <3>1 DEF Add
    <3> QED
      BY <1>2, <3>1, <3>2
  <2>3. CASE head[q] = NULL
    <3>1. /\ head' = [head EXCEPT ![q] = t]
          /\ pre' = [pre EXCEPT ![t] = t]
          /\ next' = [next EXCEPT ![t] = NULL]
      BY <2>3 DEF Add, tqueue_add_entry
    <3> QED
      BY <2>1, <2>2, <3>1 DEF Pointer, TypeOK
  <2>4. CASE head[q] # NULL
    <3>1. head[q] \in TCB /\ pre[head[q]] \in Pointer
      BY <2>1, <2>4 DEF Pointer
    <3>2. /\ head' = head
          /\ next' = [next EXCEPT ![pre[head[q]]] = t, ![t] = NULL]
          /\ pre' = [pre EXCEPT ![t] = pre[head[q]], ![head[q]] = t]
      BY <2>4 DEF Add, tqueue_add_entry
    <3> QED
      BY <2>1, <2>2, <3>1, <3>2 DEF Pointer, TypeOK
  <2> QED
    BY <2>3, <2>4
<1>4. Distinct'
  <2>1. SUFFICES ASSUME NEW r1 \in Queue, NEW r2 \in Queue,
                        NEW i \in 1 .. Len(content'[r1]), NEW j \in 1 .. Len(content'[r2]),
                        content'[r1][i] = content'[r2][j]
                 PROVE  r1 = r2 /\ i = j
    BY DEF Distinct
  <2>2. ASSUME NEW r \in Queue, NEW k \in 1 .. Len(content'[r])
        PROVE  \/ r = q /\ k = Len(content[q]) + 1 /\ content'[r][k] = t
               \/ /\ k \in 1 .. Len(content[r]) /\ content'[r][k] = content[r][k]
                  /\ content'[r][k] # t
    <3>1. CASE r = q
      <4>1. Len(content[q]) \in Nat /\ k \in 1 .. Len(content[q]) + 1
        BY <1>1, <1>2, <3>1
      <4>2. k \in 1 .. Len(content[q]) \/ k = Len(content[q]) + 1
        BY <4>1
      <4>3. (content'[q][k] = content[q][k] /\ content[q][k] # t) \/ k = Len(content[q]) + 1
        BY <1>1, <1>2, <4>2
      <4> QED
        BY <1>2, <3>1, <4>2, <4>3
    <3>2. CASE r # q
      BY <1>2, <3>2 DEF Add, InQueue
    <3> QED
      BY <3>1, <3>2
  <2> QED
    BY <2>1, <2>2 DEF Inv, Distinct
<1>5. Linked'
  <2>1. SUFFICES ASSUME NEW r \in Queue PROVE Spells(r, content[r])'
    BY DEF Linked
  <2>2. CASE r = q
    BY <2>2, AddSpells
  <2>3. CASE r # q
    <3>1. content'[r] = content[r] /\ head'[r] = head[r]
      <4>1. head' = head \/ head' = [head EXCEPT ![q] = t]
        BY DEF Add, tqueue_add_entry
      <4>2. head \in [Queue -> Pointer]
        BY DEF Inv, TypeOK
      <4> QED
        BY <1>2, <2>3, <4>1, <4>2
    <3>2. ASSUME NEW i \in 1 .. Len(content[r])
          PROVE  /\ next'[content[r][i]] = next[content[r][i]]
                 /\ pre'[content[r][i]] = pre[content[r][i]]
      <4> DEFINE u == content[r][i]
      <4>1. u \in TCB /\ u # t
        <5>1. u \in TCB
          BY Elements DEF Inv
        <5>2. u # t
          BY DEF Add, InQueue
        <5> QED
          BY <5>1, <5>2
      <4>2. \A j \in 1 .. Len(content[q]) : u # content[q][j]
        BY <2>3 DEF Inv, Distinct
      <4>a. SUFFICES next'[u] = next[u] /\ pre'[u] = pre[u]
        OBVIOUS
      <4>b. next \in [TCB -> Pointer] /\ pre \in [TCB -> Pointer]
        BY DEF Inv, TypeOK
      <4> HIDE DEF u
      <4>3. CASE head[q] = NULL
        BY <4>1, <4>3, <4>b DEF Add, tqueue_add_entry
      <4>4. CASE head[q] # NULL
        <5>1. /\ content[q] # << >> /\ 1 \in 1 .. Len(content[q])
              /\ Len(content[q]) \in 1 .. Len(content[q])
          BY <1>1, <4>4 DEF Spells
        <5>2. head[q] # u /\ pre[head[q]] # u
          BY <1>1, <4>2, <5>1 DEF Spells
        <5>3. /\ next' = [next EXCEPT ![pre[head[q]]] = t, ![t] = NULL]
              /\ pre' = [pre EXCEPT ![t] = pre[head[q]], ![head[q]] = t]
          BY <4>4 DEF Add, tqueue_add_entry
        <5> QED
          BY <4>1, <4>b, <5>2, <5>3
      <4> QED
        BY <4>3, <4>4
    <3> QED
      BY <3>1, <3>2, Untouched DEF Inv
  <2> QED
    BY <2>2, <2>3
<1> QED
  BY <1>3, <1>4, <1>5 DEF Inv

-----------------------------------------------------------------------------
(***************************************************************************)
(* The two removals.  Gone(q, k) says what they do to the history: the     *)
(* TCB at place k of q is gone and those behind it have moved up.          *)
(***************************************************************************)
Gone(q, k) ==
  /\ content'[q] \in Seq(TCB)
  /\ Len(content'[q]) = Len(content[q]) - 1
  /\ \A j \in 1 .. Len(content[q]) - 1 :
       content'[q][j] = IF j < k THEN content[q][j] ELSE content[q][j + 1]
  /\ \A r \in Queue \ {q} : content'[r] = content[r]

\* What is to be shown of the pointers after a step that leaves m TCBs in q.
LEMMA SpellsAfter ==
  ASSUME NEW q \in Queue, content'[q] \in Seq(TCB), NEW m \in Nat, Len(content'[q]) = m,
         m = 0 => head'[q] = NULL,
         m > 0 =>
           /\ head'[q] = content'[q][1]
           /\ pre'[content'[q][1]] = content'[q][m]
           /\ next'[content'[q][m]] = NULL
           /\ \A i \in 1 .. m - 1 :
                /\ next'[content'[q][i]] = content'[q][i + 1]
                /\ pre'[content'[q][i + 1]] = content'[q][i]
  PROVE  Spells(q, content[q])'
<1>1. content'[q] = << >> <=> m = 0
  OBVIOUS
<1>2. content'[q] # << >> => m > 0
  BY <1>1
<1> QED
  BY <1>1, <1>2 DEF Spells

\* Removing the first TCB, by either function.
LEMMA TopRemoved ==
  ASSUME Inv, NEW q \in Queue, content[q] # << >>, Gone(q, 1), tqueue_remove_top(q)
  PROVE  Spells(q, content[q])'
<1> DEFINE s == content[q]
           n == Len(s)
           r == content'[q]
<1>1. /\ Spells(q, s) /\ s \in Seq(TCB) /\ n \in Nat
      /\ \A i \in 1 .. n : s[i] \in TCB /\ s[i] # NULL
      /\ \A i, j \in 1 .. n : s[i] = s[j] => i = j
  BY Elements DEF Inv, Linked
<1>2. /\ n >= 1 /\ 1 \in 1 .. n /\ n \in 1 .. n /\ n - 1 \in Nat
      /\ head[q] = s[1] /\ s[1] # NULL /\ pre[s[1]] = s[n] /\ next[s[n]] = NULL
      /\ \A i \in 1 .. n - 1 : next[s[i]] = s[i + 1] /\ pre[s[i + 1]] = s[i]
  BY <1>1 DEF Spells
<1>3. r \in Seq(TCB) /\ Len(r) = n - 1
  BY DEF Gone
<1>4. \A j \in 1 .. n - 1 : r[j] = s[j + 1]
  <2> SUFFICES ASSUME NEW j \in 1 .. n - 1 PROVE r[j] = s[j + 1]
    OBVIOUS
  <2>1. ~(j < 1)
    OBVIOUS
  <2>2. r[j] = IF j < 1 THEN s[j] ELSE s[j + 1]
    BY DEF Gone
  <2> QED
    BY <2>1, <2>2
<1>5. /\ head' = [head EXCEPT ![q] = next[s[1]]]
      /\ next' = next
      /\ pre' = IF next[s[1]] = NULL THEN pre ELSE [pre EXCEPT ![next[s[1]]] = pre[s[1]]]
  BY <1>2 DEF tqueue_remove_top
<1>a. SUFFICES /\ n - 1 = 0 => head'[q] = NULL
               /\ n - 1 > 0 =>
                    /\ head'[q] = r[1] /\ pre'[r[1]] = r[n - 1] /\ next'[r[n - 1]] = NULL
                    /\ \A i \in 1 .. (n - 1) - 1 :
                         next'[r[i]] = r[i + 1] /\ pre'[r[i + 1]] = r[i]
  BY <1>2, <1>3, SpellsAfter
<1> HIDE DEF s, r
<1>6. CASE n = 1
  BY <1>2, <1>5, <1>6 DEF Inv, TypeOK
<1>7. CASE n > 1
  <2>1. 1 \in 1 .. n - 1 /\ 2 \in 1 .. n
    BY <1>2, <1>7
  <2>2. next[s[1]] = s[2] /\ s[2] \in TCB /\ s[2] # NULL
    BY <1>1, <1>2, <2>1
  <2>3. head'[q] = s[2] /\ pre' = [pre EXCEPT ![s[2]] = s[n]]
    BY <1>2, <1>5, <2>2 DEF Inv, TypeOK
  <2>4. \A u \in TCB : pre'[u] = IF u = s[2] THEN s[n] ELSE pre[u]
    BY <2>2, <2>3 DEF Inv, TypeOK
  <2>5. r[1] = s[2] /\ r[n - 1] = s[n]
    <3>1. n - 1 \in 1 .. n - 1 /\ (n - 1) + 1 = n
      BY <1>2, <1>7
    <3> QED
      BY <1>4, <2>1, <3>1
  <2>6. head'[q] = r[1] /\ pre'[r[1]] = r[n - 1] /\ next'[r[n - 1]] = NULL
    BY <1>2, <1>5, <2>2, <2>3, <2>4, <2>5
  <2>7. ASSUME NEW i \in 1 .. (n - 1) - 1
        PROVE  next'[r[i]] = r[i + 1] /\ pre'[r[i + 1]] = r[i]
    <3>1. /\ i \in 1 .. n - 1 /\ i + 1 \in 1 .. n - 1 /\ (i + 1) + 1 \in 1 .. n
          /\ (i + 1) + 1 # 2
      BY <1>2
    <3>2. r[i] = s[i + 1] /\ r[i + 1] = s[(i + 1) + 1]
      BY <1>4, <3>1
    <3>3. next[s[i + 1]] = s[(i + 1) + 1] /\ pre[s[(i + 1) + 1]] = s[i + 1]
      BY <1>2, <3>1
    <3>4. s[(i + 1) + 1] # s[2] /\ s[(i + 1) + 1] \in TCB
      BY <1>1, <2>1, <3>1
    <3> QED
      BY <1>5, <2>4, <3>2, <3>3, <3>4
  <2> QED
    BY <1>1, <1>7, <2>6, <2>7
<1> QED
  BY <1>1, <1>2, <1>6, <1>7

\* Removing a TCB that is not the first.
LEMMA EntryRemoved ==
  ASSUME Inv, NEW q \in Queue, NEW k \in 2 .. Len(content[q]), Gone(q, k),
         tqueue_remove_entry(q, content[q][k])
  PROVE  Spells(q, content[q])'
<1> DEFINE s == content[q]
           n == Len(s)
           r == content'[q]
<1>1. /\ Spells(q, s) /\ s \in Seq(TCB) /\ n \in Nat
      /\ \A i \in 1 .. n : s[i] \in TCB /\ s[i] # NULL
      /\ \A i, j \in 1 .. n : s[i] = s[j] => i = j
  BY Elements DEF Inv, Linked
<1>2. /\ n >= 2 /\ 1 \in 1 .. n /\ n \in 1 .. n /\ n - 1 \in 1 .. n - 1 /\ n - 1 \in Nat
      /\ k \in 1 .. n /\ k - 1 \in 1 .. n - 1 /\ (k - 1) + 1 = k /\ k \in Int
      /\ head[q] = s[1] /\ pre[s[1]] = s[n] /\ next[s[n]] = NULL
      /\ \A i \in 1 .. n - 1 : next[s[i]] = s[i + 1] /\ pre[s[i + 1]] = s[i]
  <2>1. /\ n >= 2 /\ 1 \in 1 .. n /\ n \in 1 .. n /\ n - 1 \in 1 .. n - 1 /\ n - 1 \in Nat
        /\ k \in 1 .. n /\ k - 1 \in 1 .. n - 1 /\ (k - 1) + 1 = k /\ k \in Int
    BY <1>1
  <2>2. s # << >>
    BY <2>1
  <2> QED
    BY <1>1, <2>1, <2>2 DEF Spells
<1>3. r \in Seq(TCB) /\ Len(r) = n - 1
      /\ \A j \in 1 .. n - 1 : r[j] = IF j < k THEN s[j] ELSE s[j + 1]
  BY DEF Gone
<1>4. pre[s[k]] = s[k - 1] /\ s[k - 1] \in TCB /\ s[k] # s[1]
  BY <1>1, <1>2
<1>5. /\ head' = head
      /\ next' = [next EXCEPT ![s[k - 1]] = next[s[k]]]
      /\ pre' = IF next[s[k]] # NULL THEN [pre EXCEPT ![next[s[k]]] = s[k - 1]]
                ELSE [pre EXCEPT ![s[1]] = s[k - 1]]
  BY <1>2, <1>4 DEF tqueue_remove_entry
<1>a. SUFFICES /\ n - 1 = 0 => head'[q] = NULL
               /\ n - 1 > 0 =>
                    /\ head'[q] = r[1] /\ pre'[r[1]] = r[n - 1] /\ next'[r[n - 1]] = NULL
                    /\ \A i \in 1 .. (n - 1) - 1 :
                         next'[r[i]] = r[i + 1] /\ pre'[r[i + 1]] = r[i]
  BY <1>2, <1>3, SpellsAfter
<1>b. n \in Nat /\ n >= 2 /\ k \in Int
  BY <1>1, <1>2
<1>c. n - 1 # 0
  BY <1>b
<1> HIDE DEF s, r
<1>d. ASSUME NEW i \in 1 .. n - 1
      PROVE  next[s[i]] = s[i + 1] /\ pre[s[i + 1]] = s[i]
  BY <1>2
<1>6. r[1] = s[1] /\ 1 < k
  BY <1>2, <1>3
<1>7. \A u \in TCB : next'[u] = IF u = s[k - 1] THEN next[s[k]] ELSE next[u]
  BY <1>4, <1>5 DEF Inv, TypeOK
<1>8. CASE k = n
  <2>1. \A u \in TCB : pre'[u] = IF u = s[1] THEN s[n - 1] ELSE pre[u]
    BY <1>1, <1>2, <1>5, <1>8 DEF Inv, TypeOK
  <2>2. \A j \in 1 .. n - 1 : r[j] = s[j]
    BY <1>2, <1>3, <1>8
  <2>3. head'[q] = r[1] /\ pre'[r[1]] = r[n - 1] /\ next'[r[n - 1]] = NULL
    BY <1>1, <1>2, <1>4, <1>5, <1>6, <1>7, <1>8, <2>1, <2>2
  <2>4. ASSUME NEW i \in 1 .. (n - 1) - 1
        PROVE  next'[r[i]] = r[i + 1] /\ pre'[r[i + 1]] = r[i]
    <3>1. /\ i \in 1 .. n /\ i \in 1 .. n - 1 /\ i + 1 \in 1 .. n - 1 /\ i + 1 \in 1 .. n
          /\ i # k - 1 /\ i + 1 # 1
      BY <1>b, <1>8
    <3>2. k - 1 \in 1 .. n
      BY <1>2
    <3>3. s[i] # s[k - 1] /\ s[i + 1] # s[1] /\ s[i] \in TCB /\ s[i + 1] \in TCB
      BY <1>1, <1>2, <3>1, <3>2
    <3>4. next'[s[i]] = next[s[i]] /\ pre'[s[i + 1]] = pre[s[i + 1]]
      BY <1>7, <2>1, <3>3
    <3>5. r[i] = s[i] /\ r[i + 1] = s[i + 1]
      BY <2>2, <3>1
    <3> QED
      BY <1>d, <3>1, <3>4, <3>5
  <2> QED
    BY <1>c, <2>3, <2>4, Zenon
<1>9. CASE k # n
  <2>1. k \in 1 .. n - 1 /\ k + 1 \in 1 .. n /\ k + 1 # 1 /\ k - 1 \in 1 .. n
    BY <1>2, <1>9
  <2>2. next[s[k]] = s[k + 1] /\ s[k + 1] \in TCB /\ s[k + 1] # NULL /\ s[k + 1] # s[1]
    BY <1>1, <1>2, <2>1
  <2>3. \A u \in TCB : pre'[u] = IF u = s[k + 1] THEN s[k - 1] ELSE pre[u]
    BY <1>5, <2>2 DEF Inv, TypeOK
  <2>4. r[n - 1] = s[n]
    <3>1. ~(n - 1 < k) /\ (n - 1) + 1 = n
      BY <1>2, <1>9
    <3> QED
      BY <1>2, <1>3, <3>1
  <2>5. s[n] # s[k - 1] /\ s[n] \in TCB /\ s[1] \in TCB
    BY <1>1, <1>2, <1>9, <2>1
  <2>6. head'[q] = r[1] /\ pre'[r[1]] = r[n - 1] /\ next'[r[n - 1]] = NULL
    BY <1>2, <1>5, <1>6, <1>7, <2>2, <2>3, <2>4, <2>5
  <2>7. ASSUME NEW i \in 1 .. (n - 1) - 1
        PROVE  next'[r[i]] = r[i + 1] /\ pre'[r[i + 1]] = r[i]
    <3>1. /\ i \in 1 .. n /\ i \in 1 .. n - 1 /\ i + 1 \in 1 .. n - 1 /\ i + 1 \in 1 .. n
          /\ (i + 1) + 1 \in 1 .. n /\ i \in Int
      BY <1>b
    <3>2. CASE i < k - 1
      <4>1. i < k /\ i + 1 < k /\ i # k - 1 /\ i + 1 # k + 1
        BY <1>b, <3>1, <3>2
      <4>2. r[i] = s[i] /\ r[i + 1] = s[i + 1]
        BY <1>3, <3>1, <4>1
      <4>3. s[i] # s[k - 1] /\ s[i + 1] # s[k + 1] /\ s[i] \in TCB /\ s[i + 1] \in TCB
        BY <1>1, <2>1, <3>1, <4>1
      <4>4. next'[s[i]] = next[s[i]] /\ pre'[s[i + 1]] = pre[s[i + 1]]
        BY <1>7, <2>3, <4>3
      <4> QED
        BY <1>d, <3>1, <4>2, <4>4
    <3>3. CASE i = k - 1
      <4>1. i < k /\ ~(i + 1 < k) /\ i + 1 = k
        BY <1>b, <3>1, <3>3
      <4>2. r[i] = s[k - 1] /\ r[i + 1] = s[k + 1]
        BY <1>3, <3>1, <3>3, <4>1
      <4> QED
        BY <1>4, <1>7, <2>2, <2>3, <4>2
    <3>4. CASE i > k - 1
      <4>0. i \in Int /\ k \in Int
        BY <1>b, <3>1
      <4>1. ~(i < k) /\ ~(i + 1 < k) /\ i + 1 # k - 1 /\ (i + 1) + 1 # k + 1
        BY <3>4, <4>0
      <4>2. r[i] = s[i + 1] /\ r[i + 1] = s[(i + 1) + 1]
        <5>1. r[i] = s[i + 1]
          BY <1>3, <3>1, <4>1
        <5>2. r[i + 1] = s[(i + 1) + 1]
          BY <1>3, <3>1, <4>1
        <5> QED
          BY <5>1, <5>2
      <4>3. /\ s[i + 1] # s[k - 1] /\ s[(i + 1) + 1] # s[k + 1]
            /\ s[i + 1] \in TCB /\ s[(i + 1) + 1] \in TCB
        BY <1>1, <2>1, <3>1, <4>1
      <4>4. /\ next'[s[i + 1]] = next[s[i + 1]]
            /\ pre'[s[(i + 1) + 1]] = pre[s[(i + 1) + 1]]
        BY <1>7, <2>3, <4>3
      <4> QED
        BY <1>d, <3>1, <4>2, <4>4
    <3>5. k \in Int
      BY <1>b
    <3> QED
      BY <3>1, <3>2, <3>3, <3>4, <3>5
  <2> QED
    BY <1>c, <2>6, <2>7, Zenon
<1> QED
  BY <1>8, <1>9

\* A removal changes no link of a TCB that is not in its queue.
Local(q) ==
  /\ \A r \in Queue \ {q} : head'[r] = head[r]
  /\ \A u \in TCB :
       (\A j \in 1 .. Len(content[q]) : u # content[q][j]) =>
         next'[u] = next[u] /\ pre'[u] = pre[u]

PointersType ==
  /\ head' \in [Queue -> Pointer]
  /\ pre' \in [TCB -> Pointer]
  /\ next' \in [TCB -> Pointer]
  /\ content' \in [Queue -> Seq(TCB)]

\* What is common to the removals: the other queues stay as they are.
LEMMA RemovalInv ==
  ASSUME Inv, NEW q \in Queue, NEW k \in 1 .. Len(content[q]), Gone(q, k), Local(q),
         PointersType, Spells(q, content[q])'
  PROVE  Inv'
<1>1. TypeOK'
  BY DEF TypeOK, PointersType
<1>2. Distinct'
  <2> DEFINE Old(r, i) == IF r = q /\ i >= k THEN i + 1 ELSE i
  <2>1. ASSUME NEW r \in Queue, NEW i \in 1 .. Len(content'[r])
        PROVE  /\ Old(r, i) \in 1 .. Len(content[r])
               /\ content'[r][i] = content[r][Old(r, i)]
    <3>1. Len(content[q]) \in Nat /\ k \in Int /\ i \in Int
      BY Elements DEF Inv
    <3>2. CASE r # q
      BY <3>2 DEF Gone
    <3>3. CASE r = q /\ i >= k
      <4>1. i \in 1 .. Len(content[q]) - 1 /\ ~(i < k) /\ i + 1 \in 1 .. Len(content[q])
        BY <3>1, <3>3 DEF Gone
      <4> QED
        BY <3>3, <4>1 DEF Gone
    <3>4. CASE r = q /\ i < k
      <4>1. i \in 1 .. Len(content[q]) - 1 /\ ~(i >= k) /\ i \in 1 .. Len(content[q])
        BY <3>1, <3>4 DEF Gone
      <4> QED
        BY <3>4, <4>1 DEF Gone
    <3> QED
      BY <3>1, <3>2, <3>3, <3>4
  <2>2. SUFFICES ASSUME NEW r1 \in Queue, NEW r2 \in Queue,
                        NEW i \in 1 .. Len(content'[r1]), NEW j \in 1 .. Len(content'[r2]),
                        content'[r1][i] = content'[r2][j]
                 PROVE  r1 = r2 /\ i = j
    BY DEF Distinct
  <2>3. r1 = r2 /\ Old(r1, i) = Old(r2, j)
    <3>1. content[r1][Old(r1, i)] = content[r2][Old(r2, j)]
      BY <2>1, <2>2
    <3>2. Old(r1, i) \in 1 .. Len(content[r1]) /\ Old(r2, j) \in 1 .. Len(content[r2])
      BY <2>1
    <3> HIDE DEF Old
    <3> QED
      BY <3>1, <3>2 DEF Inv, Distinct
  <2>4. i \in Int /\ j \in Int /\ k \in Int
    OBVIOUS
  <2> QED
    BY <2>3, <2>4
<1>3. Linked'
  <2>1. SUFFICES ASSUME NEW r \in Queue, r # q
                 PROVE  Spells(r, content[r])'
    BY DEF Linked
  <2>2. content'[r] = content[r] /\ head'[r] = head[r]
    BY <2>1 DEF Gone, Local
  <2>3. ASSUME NEW i \in 1 .. Len(content[r])
        PROVE  /\ next'[content[r][i]] = next[content[r][i]]
               /\ pre'[content[r][i]] = pre[content[r][i]]
    <3>1. content[r][i] \in TCB
      BY Elements DEF Inv
    <3>2. \A j \in 1 .. Len(content[q]) : content[r][i] # content[q][j]
      BY <2>1 DEF Inv, Distinct
    <3> QED
      BY <3>1, <3>2 DEF Local
  <2> QED
    BY <2>2, <2>3, Untouched DEF Inv
<1> QED
  BY <1>1, <1>2, <1>3 DEF Inv

\* tqueue_remove_top on a queue that is not empty.
LEMMA TopInv ==
  ASSUME Inv, NEW q \in Queue, content[q] # << >>, Gone(q, 1),
         content' \in [Queue -> Seq(TCB)], tqueue_remove_top(q)
  PROVE  Inv'
<1> DEFINE s == content[q]
<1>1. /\ Spells(q, s) /\ s \in Seq(TCB) /\ Len(s) \in Nat
      /\ \A i \in 1 .. Len(s) : s[i] \in TCB /\ s[i] # NULL
  BY Elements DEF Inv, Linked
<1>2. /\ 1 \in 1 .. Len(s) /\ Len(s) \in 1 .. Len(s)
      /\ head[q] = s[1] /\ s[1] \in TCB /\ s[1] # NULL
  BY <1>1 DEF Spells
<1>3. /\ head' = [head EXCEPT ![q] = next[s[1]]]
      /\ next' = next
      /\ pre' = IF next[s[1]] = NULL THEN pre ELSE [pre EXCEPT ![next[s[1]]] = pre[s[1]]]
  BY <1>2 DEF tqueue_remove_top
<1>4. next[s[1]] \in Pointer /\ pre[s[1]] \in Pointer
  BY <1>2 DEF Inv, TypeOK
<1>5. PointersType
  BY <1>3, <1>4 DEF PointersType, Inv, TypeOK
<1>6. next[s[1]] # NULL => 2 \in 1 .. Len(s) /\ next[s[1]] = s[2]
  <2>1. CASE Len(s) = 1
    BY <1>1, <1>2, <2>1 DEF Spells
  <2>2. CASE Len(s) # 1
    <3>1. Len(s) \in Nat /\ Len(s) >= 1
      BY <1>1, <1>2
    <3>2. \A n \in Nat : n >= 1 /\ n # 1 => 1 \in 1 .. n - 1 /\ 2 \in 1 .. n
      OBVIOUS
    <3>3. 1 \in 1 .. Len(s) - 1 /\ 2 \in 1 .. Len(s)
      BY <2>2, <3>1, <3>2, Zenon
    <3> QED
      BY <1>1, <3>3 DEF Spells
  <2> QED
    BY <2>1, <2>2
<1>7. Local(q)
  <2>1. \A r \in Queue \ {q} : head'[r] = head[r]
    BY <1>3 DEF Inv, TypeOK
  <2>2. ASSUME NEW u \in TCB, \A j \in 1 .. Len(s) : u # s[j]
        PROVE  next'[u] = next[u] /\ pre'[u] = pre[u]
    <3>1. next[s[1]] # NULL => u # next[s[1]]
      BY <1>6, <2>2
    <3> QED
      BY <1>3, <3>1 DEF Inv, TypeOK
  <2> QED
    BY <2>1, <2>2 DEF Local
<1>8. Spells(q, content[q])'
  BY TopRemoved
<1> QED
  BY <1>2, <1>5, <1>7, <1>8, RemovalInv

\* tqueue_remove_entry on a TCB that is not the first.
LEMMA EntryInv ==
  ASSUME Inv, NEW q \in Queue, NEW k \in 2 .. Len(content[q]), Gone(q, k),
         content' \in [Queue -> Seq(TCB)], tqueue_remove_entry(q, content[q][k])
  PROVE  Inv'
<1> DEFINE s == content[q]
           n == Len(s)
<1>1. /\ Spells(q, s) /\ s \in Seq(TCB) /\ n \in Nat
      /\ \A i \in 1 .. n : s[i] \in TCB /\ s[i] # NULL
      /\ \A i, j \in 1 .. n : s[i] = s[j] => i = j
  BY Elements DEF Inv, Linked
<1>2. /\ 1 \in 1 .. n /\ n \in 1 .. n /\ k \in 1 .. n /\ k - 1 \in 1 .. n - 1 /\ k - 1 \in 1 .. n
      /\ (k - 1) + 1 = k /\ k # 1
  BY <1>1
<1>3. s # << >>
  BY <1>2
<1>4. /\ head[q] = s[1] /\ pre[s[1]] = s[n] /\ next[s[n]] = NULL
      /\ \A i \in 1 .. n - 1 : next[s[i]] = s[i + 1] /\ pre[s[i + 1]] = s[i]
  BY <1>1, <1>3 DEF Spells
<1>5. pre[s[k]] = s[k - 1] /\ s[k - 1] \in TCB /\ s[k] # s[1] /\ s[1] \in TCB /\ s[k] \in TCB
  BY <1>1, <1>2, <1>4
<1>6. /\ head' = head
      /\ next' = [next EXCEPT ![s[k - 1]] = next[s[k]]]
      /\ pre' = IF next[s[k]] # NULL THEN [pre EXCEPT ![next[s[k]]] = s[k - 1]]
                ELSE [pre EXCEPT ![s[1]] = s[k - 1]]
  BY <1>4, <1>5 DEF tqueue_remove_entry
<1>7. PointersType
  BY <1>5, <1>6 DEF PointersType, Inv, TypeOK, Pointer
<1>8. next[s[k]] # NULL => \E j \in 1 .. n : next[s[k]] = s[j]
  <2>1. CASE k = n
    BY <1>4, <2>1
  <2>2. CASE k # n
    <3>1. k \in 1 .. n - 1 /\ k + 1 \in 1 .. n
      BY <1>1, <2>2
    <3> QED
      BY <1>4, <3>1
  <2> QED
    BY <2>1, <2>2
<1>9. Local(q)
  <2>1. ASSUME NEW u \in TCB, \A j \in 1 .. n : u # s[j]
        PROVE  next'[u] = next[u] /\ pre'[u] = pre[u]
    <3>1. u # s[k - 1] /\ u # s[1] /\ (next[s[k]] # NULL => u # next[s[k]])
      BY <1>2, <1>8, <2>1
    <3> QED
      BY <1>6, <3>1 DEF Inv, TypeOK
  <2> QED
    BY <1>6, <2>1 DEF Local
<1>10. Spells(q, content[q])'
  BY EntryRemoved
<1> QED
  BY <1>2, <1>7, <1>9, <1>10, RemovalInv

LEMMA RemoveTopInv ==
  ASSUME Inv, NEW q \in Queue, RemoveTop(q)
  PROVE  Inv'
<1>1. Spells(q, content[q]) /\ content[q] \in Seq(TCB)
  BY DEF Inv, Linked, TypeOK
<1>2. CASE content[q] = << >>
  <2>1. head[q] = NULL
    BY <1>1, <1>2 DEF Spells
  <2>2. UNCHANGED vars
    BY <1>2, <2>1 DEF RemoveTop, tqueue_remove_top, Inv, TypeOK, vars
  <2> QED
    BY <2>2 DEF vars, Inv, TypeOK, Distinct, Linked, Spells
<1>3. CASE content[q] # << >>
  <2>1. content' = [content EXCEPT ![q] = Tail(content[q])] /\ tqueue_remove_top(q)
    BY <1>3 DEF RemoveTop
  <2>2. /\ Tail(content[q]) \in Seq(TCB) /\ Len(Tail(content[q])) = Len(content[q]) - 1
        /\ \A i \in 1 .. Len(content[q]) - 1 : Tail(content[q])[i] = content[q][i + 1]
    BY <1>1, <1>3, TailIs
  <2>3. content' \in [Queue -> Seq(TCB)] /\ content'[q] = Tail(content[q])
    BY <2>1, <2>2 DEF Inv, TypeOK
  <2>4. Gone(q, 1)
    <3>1. \A r \in Queue \ {q} : content'[r] = content[r]
      BY <2>1 DEF Inv, TypeOK
    <3>2. \A j \in 1 .. Len(content[q]) - 1 : ~(j < 1)
      OBVIOUS
    <3> QED
      BY <2>2, <2>3, <3>1, <3>2 DEF Gone
  <2> QED
    BY <1>3, <2>1, <2>3, <2>4, TopInv
<1> QED
  BY <1>2, <1>3

LEMMA RemoveEntryInv ==
  ASSUME Inv, NEW q \in Queue, NEW t \in TCB, RemoveEntry(q, t)
  PROVE  Inv'
<1>1. PICK i \in 1 .. Len(content[q]) :
        /\ content[q][i] = t
        /\ tqueue_remove_entry(q, t)
        /\ content' = [content EXCEPT ![q] = RemoveAt(content[q], i)]
  BY DEF RemoveEntry
<1>2. /\ content[q] \in Seq(TCB) /\ Spells(q, content[q])
      /\ \A j, k \in 1 .. Len(content[q]) : content[q][j] = content[q][k] => j = k
  BY Elements DEF Inv, Linked
<1>3. /\ RemoveAt(content[q], i) \in Seq(TCB)
      /\ Len(RemoveAt(content[q], i)) = Len(content[q]) - 1
      /\ \A j \in 1 .. Len(content[q]) - 1 :
           RemoveAt(content[q], i)[j] = IF j < i THEN content[q][j] ELSE content[q][j + 1]
  BY <1>2, RemoveAtIs
<1>4. content' \in [Queue -> Seq(TCB)] /\ content'[q] = RemoveAt(content[q], i)
  BY <1>1, <1>3 DEF Inv, TypeOK
<1>5. Gone(q, i)
  <2>1. \A r \in Queue \ {q} : content'[r] = content[r]
    BY <1>1 DEF Inv, TypeOK
  <2> QED
    BY <1>3, <1>4, <2>1 DEF Gone
<1>6. content[q] # << >> /\ 1 \in 1 .. Len(content[q])
  BY <1>1, <1>2
<1>7. head[q] = content[q][1]
  BY <1>2, <1>6 DEF Spells
<1>8. CASE i = 1
  <2>1. tqueue_remove_top(q)
    BY <1>1, <1>7, <1>8 DEF tqueue_remove_entry
  <2> QED
    BY <1>4, <1>5, <1>6, <1>8, <2>1, TopInv
<1>9. CASE i # 1
  <2>1. i \in 2 .. Len(content[q])
    BY <1>9
  <2> QED
    BY <1>1, <1>4, <1>5, <2>1, EntryInv
<1> QED
  BY <1>8, <1>9

-----------------------------------------------------------------------------
(***************************************************************************)
(* The theorems.                                                           *)
(***************************************************************************)
LEMMA InitInv == Init => Inv
  BY DEF Init, Inv, TypeOK, Pointer, Distinct, Linked, Spells

LEMMA NextInv == Inv /\ [Next]_vars => Inv'
<1> SUFFICES ASSUME Inv, [Next]_vars PROVE Inv'
  OBVIOUS
<1>1. ASSUME NEW q \in Queue, RemoveTop(q) PROVE Inv'
  BY <1>1, RemoveTopInv
<1>2. ASSUME NEW q \in Queue, NEW t \in TCB, Add(q, t) PROVE Inv'
  BY <1>2, AddInv
<1>3. ASSUME NEW q \in Queue, NEW t \in TCB, RemoveEntry(q, t) PROVE Inv'
  BY <1>3, RemoveEntryInv
<1>4. CASE UNCHANGED vars
  BY <1>4 DEF vars, Inv, TypeOK, Distinct, Linked, Spells
<1> QED
  BY <1>1, <1>2, <1>3, <1>4 DEF Next

\* The pointers of every queue spell its TCBs in the order of their arrival,
\* forwards and backwards, after any additions and removals
\* (task_queue.c:9-54).
THEOREM AlwaysLinked == Spec => []Linked
  BY InitInv, NextInv, PTL DEF Spec, Inv

\* No TCB is ever in two places (task_queue.c:9-54).
THEOREM AlwaysDistinct == Spec => []Distinct
  BY InitInv, NextInv, PTL DEF Spec, Inv

-----------------------------------------------------------------------------
(***************************************************************************)
(* The abstract queues.                                                    *)
(***************************************************************************)

\* No queue is longer than the table of TCBs.
LEMMA QueueFits ==
  ASSUME TypeOK, Distinct, NEW q \in Queue
  PROVE  Cardinality(TCB) \in Nat /\ Len(content[q]) <= Cardinality(TCB)
<1> DEFINE s == content[q]
           m == Len(s)
           N == Cardinality(TCB)
<1>1. s \in Seq(TCB) /\ m \in Nat /\ \A i, j \in 1 .. m : s[i] = s[j] => i = j
  BY Elements
<1>2. N \in Nat
  BY TCBsAreFinite, FS_CardinalityType
<1>3. IsFiniteSet(1 .. m) /\ Cardinality(1 .. m) = m
  BY <1>1, FS_Interval
<1>4. s \in [1 .. m -> TCB]
  BY <1>1
<1> HIDE DEF s, m, N
<1>5. ~(N < m)
  <2> SUFFICES ASSUME Cardinality(TCB) < Cardinality(1 .. m) PROVE FALSE
    BY <1>3 DEF N
  <2>1. \E i, j \in 1 .. m : i # j /\ s[i] = s[j]
    BY <1>3, <1>4, TCBsAreFinite, FS_PigeonHole
  <2> QED
    BY <1>1, <2>1
<1>6. m <= N
  BY <1>1, <1>2, <1>5
<1> QED
  BY <1>2, <1>6 DEF s, m, N

\* The loop over the next pointers, as Walk has it.
Loop(f, q) ==
  [n \in 1 .. Cardinality(TCB) |->
     IF n = 1 THEN head[q] ELSE IF f[n - 1] = NULL THEN NULL ELSE next[f[n - 1]]]

\* It meets the TCBs that the pointers spell, one after the other, then NULL.
Spelled(q) ==
  [n \in 1 .. Cardinality(TCB) |-> IF n <= Len(content[q]) THEN content[q][n] ELSE NULL]

LEMMA LoopSpells ==
  ASSUME Inv, NEW q \in Queue
  PROVE  Loop(Spelled(q), q) = Spelled(q)
<1> DEFINE s == content[q]
           m == Len(s)
           N == Cardinality(TCB)
           g == Spelled(q)
<1>1. /\ s \in Seq(TCB) /\ m \in Nat /\ N \in Nat /\ m <= N /\ Spells(q, s)
      /\ \A i \in 1 .. m : s[i] # NULL
  BY Elements, QueueFits DEF Inv, Linked
<1>2. /\ s = << >> => head[q] = NULL
      /\ s # << >> => head[q] = s[1] /\ next[s[m]] = NULL
      /\ \A i \in 1 .. m - 1 : next[s[i]] = s[i + 1]
  <2>1. \A i \in 1 .. m - 1 : s # << >>
    BY <1>1
  <2> QED
    BY <1>1, <2>1 DEF Spells
<1>3. s = << >> <=> m = 0
  BY <1>1
<1>4. \A n \in 1 .. N : g[n] = IF n <= m THEN s[n] ELSE NULL
  BY DEF Spelled
<1> HIDE DEF s, m, N, g
<1>5. ASSUME NEW n \in 1 .. N
      PROVE  g[n] = IF n = 1 THEN head[q] ELSE IF g[n - 1] = NULL THEN NULL ELSE next[g[n - 1]]
  <2>1. CASE n = 1
    <3>1. CASE m = 0
      BY <1>1, <1>2, <1>3, <1>4, <2>1, <3>1
    <3>2. CASE m # 0
      BY <1>1, <1>2, <1>3, <1>4, <2>1, <3>2
    <3> QED
      BY <3>1, <3>2
  <2>2. CASE n # 1
    <3>1. n - 1 \in 1 .. N /\ g[n - 1] = IF n - 1 <= m THEN s[n - 1] ELSE NULL
      BY <1>1, <1>4, <2>2
    <3>2. CASE n - 1 < m
      <4>1. n - 1 \in 1 .. m - 1 /\ n - 1 \in 1 .. m /\ (n - 1) + 1 = n /\ n <= m /\ n - 1 <= m
        BY <1>1, <2>2, <3>2
      <4>2. g[n - 1] = s[n - 1] /\ s[n - 1] # NULL /\ next[s[n - 1]] = s[n] /\ g[n] = s[n]
        BY <1>1, <1>2, <1>4, <3>1, <4>1
      <4> QED
        BY <2>2, <4>2
    <3>3. CASE n - 1 = m
      <4>1. m \in 1 .. m /\ ~(n <= m) /\ n - 1 <= m /\ m # 0
        BY <1>1, <2>2, <3>3
      <4>2. g[n - 1] = s[m] /\ s[m] # NULL /\ next[s[m]] = NULL /\ g[n] = NULL
        BY <1>1, <1>2, <1>3, <1>4, <3>1, <3>3, <4>1
      <4> QED
        BY <2>2, <4>2
    <3>4. CASE n - 1 > m
      <4>1. ~(n <= m) /\ ~(n - 1 <= m)
        BY <1>1, <3>4
      <4> QED
        BY <1>4, <2>2, <3>1, <4>1
    <3> QED
      BY <1>1, <3>2, <3>3, <3>4
  <2> QED
    BY <2>1, <2>2
<1>6. g = [n \in 1 .. N |-> g[n]]
  BY DEF g, Spelled, N
<1>7. Loop(g, q) = [n \in 1 .. N |-> g[n]]
  <2>1. Loop(g, q) = [n \in 1 .. N |->
          IF n = 1 THEN head[q] ELSE IF g[n - 1] = NULL THEN NULL ELSE next[g[n - 1]]]
    BY DEF Loop, N
  <2> QED
    BY <1>5, <2>1, Zenon
<1> QED
  BY <1>6, <1>7 DEF g

\* There is one such function: the first place where two differ would have
\* the same TCB before it in both.
LEMMA LoopIsUnique ==
  ASSUME NEW q \in Queue, NEW f, NEW g, f = Loop(f, q), g = Loop(g, q)
  PROVE  f = g
<1> DEFINE N == Cardinality(TCB)
           T == {n \in 1 .. N : f[n] # g[n]}
<1>1. N \in Nat
  BY TCBsAreFinite, FS_CardinalityType
<1>2. f = [n \in 1 .. N |-> f[n]] /\ g = [n \in 1 .. N |-> g[n]]
  BY DEF Loop
<1>3. \A n \in 1 .. N :
        /\ f[n] = IF n = 1 THEN head[q] ELSE IF f[n - 1] = NULL THEN NULL ELSE next[f[n - 1]]
        /\ g[n] = IF n = 1 THEN head[q] ELSE IF g[n - 1] = NULL THEN NULL ELSE next[g[n - 1]]
  BY DEF Loop
<1>4. T = {}
  <2> SUFFICES ASSUME T # {} PROVE FALSE
    OBVIOUS
  <2>1. T \subseteq Nat
    BY <1>1
  <2>2. PICK n \in T : \A k \in T : ~(<< k, n >> \in OpToRel(<, Nat))
    BY <2>1, NatLessThanWellFounded, WFMin, Zenon
  <2>3. n \in 1 .. N /\ f[n] # g[n] /\ \A k \in 1 .. N : k < n => f[k] = g[k]
    BY <1>1, <2>1, <2>2 DEF OpToRel
  <2> HIDE DEF N, T
  <2>4. n # 1 => n - 1 \in 1 .. N /\ n - 1 < n
    BY <1>1, <2>3
  <2>5. n # 1 => f[n - 1] = g[n - 1]
    BY <2>3, <2>4
  <2> QED
    BY <1>3, <2>3, <2>5
<1>5. \A n \in 1 .. N : f[n] = g[n]
  BY <1>4
<1> HIDE DEF N
<1> QED
  BY <1>2, <1>5, Zenon

\* Read by the loop over the next pointers, a queue is what was added to it and
\* not removed, in that order.
LEMMA WalkReads ==
  ASSUME Inv, NEW q \in Queue
  PROVE  Walk(q) = content[q]
<1> DEFINE s == content[q]
           m == Len(s)
           N == Cardinality(TCB)
           f == CHOOSE g : g = Loop(g, q)
           n == Cardinality({k \in DOMAIN f : f[k] # NULL})
<1>1. f = Spelled(q)
  <2>1. Spelled(q) = Loop(Spelled(q), q)
    BY LoopSpells
  <2>2. f = Loop(f, q)
    BY <2>1
  <2> HIDE DEF f
  <2> QED
    BY <2>1, <2>2, LoopIsUnique
<1>2. Walk(q) = SubSeq([k \in DOMAIN f |-> f[k]], 1, n)
  BY Zenon DEF Walk, Loop
<1>3. /\ s \in Seq(TCB) /\ m \in Nat /\ N \in Nat /\ m <= N
      /\ \A i \in 1 .. m : s[i] # NULL
  BY Elements, QueueFits DEF Inv
<1>4. /\ DOMAIN f = 1 .. N /\ f = [k \in DOMAIN f |-> f[k]]
      /\ \A k \in 1 .. N : f[k] = IF k <= m THEN s[k] ELSE NULL
  BY <1>1 DEF Spelled
<1>5. n = m
  <2>1. {k \in DOMAIN f : f[k] # NULL} = 1 .. m
    <3> HIDE DEF s, m, N, f
    <3> QED
      BY <1>3, <1>4
  <2>2. Cardinality(1 .. m) = m
    BY <1>3, FS_Interval
  <2> QED
    BY <2>1, <2>2
<1> DEFINE u == [k \in DOMAIN f |-> f[k]]
           r == SubSeq(u, 1, m)
<1>6. /\ u \in Seq(Pointer) /\ Len(u) = N
      /\ \A i \in 1 .. m : u[i] = s[i]
  <2>1. u = f /\ DOMAIN f = 1 .. N
    BY <1>4
  <2>2. \A k \in 1 .. N : f[k] \in Pointer
    BY <1>3, <1>4 DEF Pointer
  <2> HIDE DEF f, s, m, N
  <2>3. u \in [1 .. N -> Pointer]
    BY <2>1, <2>2
  <2>4. u \in Seq(Pointer) /\ Len(u) = N
    BY <1>3, <2>3, <2>1
  <2> QED
    BY <1>3, <1>4, <2>1, <2>4
<1>7. r \in Seq(Pointer) /\ Len(r) = m /\ \A i \in 1 .. m : r[i] = s[i]
  <2> HIDE DEF u, s, m, N
  <2> QED
    BY <1>3, <1>6
<1>8. r = s
  <2>1. s = [i \in 1 .. m |-> s[i]]
    BY <1>3
  <2> HIDE DEF s, m, r
  <2>2. r = [i \in 1 .. m |-> r[i]]
    BY <1>7
  <2> QED
    BY <1>7, <2>1, <2>2, Zenon
<1>9. Walk(q) = SubSeq(u, 1, n)
  BY <1>2
<1> HIDE DEF u, n
<1> QED
  BY <1>5, <1>8, <1>9

LEMMA WalksAre == Inv => [q \in Queue |-> Walk(q)] = content
<1> SUFFICES ASSUME Inv PROVE [q \in Queue |-> Walk(q)] = content
  OBVIOUS
<1>1. content = [q \in Queue |-> content[q]]
  BY DEF Inv, TypeOK
<1>2. \A q \in Queue : Walk(q) = content[q]
  BY WalkReads
<1> QED
  BY <1>1, <1>2, Zenon

LEMMA WalksAfter == Inv' => ([q \in Queue |-> Walk(q)] = content)'
BY WalksAre, PTL

\* A removal from an empty queue changes nothing; every other step is the one
\* that the abstract queues have for it.
LEMMA StepIsFifo ==
  ASSUME Inv, Inv', [Next]_vars
  PROVE  Fifo!Next \/ UNCHANGED [q \in Queue |-> Walk(q)]
<1>1. [q \in Queue |-> Walk(q)] = content /\ [q \in Queue |-> Walk(q)]' = content'
  BY WalksAre, WalksAfter
<1>2. ASSUME NEW q \in Queue, RemoveTop(q)
      PROVE  Fifo!Next \/ content' = content
  <2>1. content' = [content EXCEPT ![q] = IF @ = << >> THEN @ ELSE Tail(@)]
    BY <1>2 DEF RemoveTop
  <2>2. CASE content[q] = << >>
    BY <2>1, <2>2 DEF Inv, TypeOK
  <2>3. CASE content[q] # << >>
    <3>1. content' = [content EXCEPT ![q] = Tail(@)]
      BY <2>1, <2>3
    <3>2. Fifo!RemoveTop(q)
      BY <1>1, <2>3, <3>1 DEF Fifo!RemoveTop
    <3> QED
      BY <3>2 DEF Fifo!Next
  <2> QED
    BY <2>2, <2>3
<1>3. ASSUME NEW q \in Queue, NEW t \in TCB, Add(q, t)
      PROVE  Fifo!Next
  <2>1. Fifo!Add(q, t)
    BY <1>1, <1>3 DEF Add, InQueue, Fifo!Add, Fifo!Queued
  <2> QED
    BY <2>1 DEF Fifo!Next
<1>4. ASSUME NEW q \in Queue, NEW t \in TCB, RemoveEntry(q, t)
      PROVE  Fifo!Next
  <2>1. Fifo!RemoveEntry(q, t)
    <3>1. PICK i \in 1 .. Len(content[q]) :
            content[q][i] = t /\ content' = [content EXCEPT ![q] = RemoveAt(content[q], i)]
      BY <1>4 DEF RemoveEntry
    <3>2. \A r \in Queue : Walk(r) = content[r]
      BY WalkReads
    <3>3. RemoveAt(content[q], i) = Fifo!RemoveAt(content[q], i)
      BY DEF RemoveAt, Fifo!RemoveAt
    <3> QED
      BY <1>1, <3>1, <3>2, <3>3 DEF Fifo!RemoveEntry
  <2> QED
    BY <2>1 DEF Fifo!Next
<1>5. CASE UNCHANGED vars
  BY <1>1, <1>5 DEF vars
<1> QED
  BY <1>1, <1>2, <1>3, <1>4, <1>5 DEF Next

LEMMA InitIsFifo ==
  ASSUME Init
  PROVE  Fifo!Init
<1>1. Inv
  BY InitInv
<1> QED
  BY <1>1, WalksAre DEF Init, Fifo!Init

\* The pointers, read by the loops that follow them, behave as first-in
\* first-out queues (task_queue.c:9-54, knldef.h:105-123).
THEOREM QueuesAreFifo == Spec => WalkIsFifo
<1>1. Inv /\ Inv' /\ [Next]_vars => Fifo!Next \/ UNCHANGED [q \in Queue |-> Walk(q)]
  BY StepIsFifo
<1> QED
  BY <1>1, InitIsFifo, InitInv, NextInv, PTL DEF Spec, WalkIsFifo, Fifo!Spec

-----------------------------------------------------------------------------
(***************************************************************************)
(* The handler's walk.  Cursor is the TCB it will look at next, and        *)
(* Elapsed counts the ticks a waiting TCB has been charged for: not yet    *)
(* the one that is going on, if the handler still has the TCB ahead of it. *)
(***************************************************************************)
W == content[wait_queue]

Waits(t) == InQueue(wait_queue, t)

Cursor == IF turn = "relink" THEN nxt ELSE tcb

Ahead(t) == \E i, j \in 1 .. Len(W) : i <= j /\ W[i] = Cursor /\ W[j] = t

Elapsed(t) == passed[t] - IF Ahead(t) THEN 1 ELSE 0

ScanTypeOK ==
  /\ waitim \in [TCB -> 0 .. UW_MAX]
  /\ turn \in {"off", "loop", "relink"}
  /\ asked \in [TCB -> Int]
  /\ passed \in [TCB -> Nat]

\* The handler stands on a TCB that waits or past the last one, and the one it
\* has unlinked is in no queue.
CursorInv ==
  /\ turn = "off" => tcb = NULL
  /\ turn = "relink" => tcb \in TCB /\ \A q \in Queue : ~InQueue(q, tcb)
  /\ Cursor # NULL => \E i \in 1 .. Len(W) : W[i] = Cursor

\* What is left of a wait and what it was charged make what was asked for and
\* one period more.
Charged(t) ==
  /\ ~Waits(t) => passed[t] = 0
  /\ Waits(t) /\ Counted(asked[t]) =>
       /\ waitim[t] > 0 /\ Elapsed(t) \in Nat
       /\ waitim[t] + Elapsed(t) * TIMER_PERIOD = asked[t] + TIMER_PERIOD

ScanInv == Inv /\ ScanTypeOK /\ CursorInv /\ \A t \in TCB : Charged(t)

LEMMA UWIs == ASSUME NEW n \in 0 .. UW_MAX PROVE UW(n) = n
<1>1. UW_MAX \in Nat
  BY TimerScanAssumption
<1> QED
  BY <1>1 DEF UW

LEMMA FevrIs == UW(TMO_FEVR) = UW_MAX
<1>1. UW_MAX \in Nat
  BY TimerScanAssumption
<1>2. (-1) % (UW_MAX + 1) = UW_MAX
  <2> DEFINE m == UW_MAX + 1
             r == (-1) % m
             d == (-1) \div m
  <2>1. m \in Nat \ {0}
    BY <1>1
  <2> HIDE DEF m
  <2>2. r \in 0 .. m - 1 /\ d \in Int /\ -1 = m * d + r
    BY <2>1
  <2>3. d = -1
    BY <2>1, <2>2
  <2>4. r = m - 1
    BY <2>1, <2>2, <2>3
  <2> QED
    BY <2>4, <1>1 DEF m
<1> QED
  BY <1>2 DEF UW, TMO_FEVR

LEMMA WaitTimType == ASSUME NEW lim \in Int PROVE WaitTim(lim) \in 0 .. UW_MAX
<1>1. UW_MAX + 1 \in Nat \ {0} /\ TIMER_PERIOD \in Nat
  BY TimerScanAssumption
<1>2. lim % (UW_MAX + 1) \in 0 .. (UW_MAX + 1) - 1
  BY <1>1
<1>3. (lim + TIMER_PERIOD) % (UW_MAX + 1) \in 0 .. (UW_MAX + 1) - 1
  BY <1>1
<1> QED
  BY <1>1, <1>2, <1>3, TimerScanAssumption DEF WaitTim, UW

\* A wait that is counted never looks like one without a limit.
LEMMA NotForever ==
  ASSUME ScanInv, NEW t \in TCB, Waits(t), Counted(asked[t])
  PROVE  waitim[t] # UW(TMO_FEVR)
<1> DEFINE e == Elapsed(t) * TIMER_PERIOD
<1>1. /\ Elapsed(t) \in Nat /\ waitim[t] + e = asked[t] + TIMER_PERIOD
      /\ asked[t] + TIMER_PERIOD < UW_MAX
  BY DEF ScanInv, Charged, Counted
<1>2. e \in Nat
  BY <1>1, TimerScanAssumption
<1>3. waitim[t] \in Int /\ asked[t] \in Int /\ TIMER_PERIOD \in Int /\ UW_MAX \in Int
  BY TimerScanAssumption DEF ScanInv, ScanTypeOK
<1> HIDE DEF e
<1> QED
  BY <1>1, <1>2, <1>3, FevrIs

-----------------------------------------------------------------------------
(***************************************************************************)
(* Where a step of the loop leaves the cursor.                             *)
(***************************************************************************)

\* A step that keeps a TCB's place before, under or after the cursor, and its
\* times, keeps what it was charged.
LEMMA SameCharge ==
  ASSUME NEW t \in TCB, Charged(t), Waits(t)' <=> Waits(t), Ahead(t)' <=> Ahead(t),
         waitim'[t] = waitim[t], asked'[t] = asked[t], passed'[t] = passed[t]
  PROVE  Charged(t)'
BY DEF Charged, Counted, Elapsed

\* The wait queue as the loop meets it.
LEMMA QueueIs ==
  ASSUME Inv
  PROVE  /\ wait_queue \in Queue /\ W \in Seq(TCB) /\ Len(W) \in Nat
         /\ \A i \in 1 .. Len(W) : W[i] \in TCB /\ W[i] # NULL
         /\ \A i, j \in 1 .. Len(W) : W[i] = W[j] => i = j
         /\ W = << >> => head[wait_queue] = NULL
         /\ W # << >> => head[wait_queue] = W[1]
         /\ \A i \in 1 .. Len(W) : next[W[i]] = IF i = Len(W) THEN NULL ELSE W[i + 1]
<1>1. wait_queue \in Queue
  BY TimerScanAssumption
<1>2. /\ W \in Seq(TCB) /\ Len(W) \in Nat
      /\ \A i \in 1 .. Len(W) : W[i] \in TCB /\ W[i] # NULL
      /\ \A i, j \in 1 .. Len(W) : W[i] = W[j] => i = j
  BY <1>1, Elements DEF Inv, W
<1>3. Spells(wait_queue, W)
  BY <1>1 DEF Inv, Linked, W
<1>4. ASSUME NEW i \in 1 .. Len(W)
      PROVE  next[W[i]] = IF i = Len(W) THEN NULL ELSE W[i + 1]
  <2>1. W # << >>
    BY <1>2
  <2>2. i # Len(W) => i \in 1 .. Len(W) - 1
    BY <1>2
  <2> QED
    BY <1>3, <2>1, <2>2 DEF Spells
<1> QED
  BY <1>1, <1>2, <1>3, <1>4 DEF Spells

\* From a TCB of the wait queue to its next: that TCB is not ahead any more.
LEMMA CursorMoves ==
  ASSUME Inv, Inv', W' = W, Cursor # NULL, CursorInv, next[Cursor] = Cursor'
  PROVE  /\ \A t \in TCB : Ahead(t)' <=> Ahead(t) /\ t # Cursor
         /\ Ahead(Cursor)
         /\ Cursor' # NULL => \E i \in 1 .. Len(W') : W'[i] = Cursor'
<1>1. PICK k \in 1 .. Len(W) : W[k] = Cursor
  BY DEF CursorInv
<1> DEFINE s == W
           n == Len(s)
<1>2. /\ n \in Nat /\ k \in 1 .. n
      /\ \A i \in 1 .. n : s[i] \in TCB /\ s[i] # NULL
      /\ \A i, j \in 1 .. n : s[i] = s[j] => i = j
      /\ Cursor' = IF k = n THEN NULL ELSE s[k + 1]
  BY <1>1, QueueIs
<1> HIDE DEF s
<1>3. ASSUME NEW t \in TCB
      PROVE  Ahead(t) <=> \E j \in 1 .. n : k <= j /\ s[j] = t
  BY <1>1, <1>2 DEF Ahead, s
<1>4. ASSUME NEW t \in TCB
      PROVE  Ahead(t)' <=> \E j \in 1 .. n : k + 1 <= j /\ s[j] = t
  <2>0. Ahead(t)' <=> \E i, j \in 1 .. n : i <= j /\ s[i] = Cursor' /\ s[j] = t
    BY DEF Ahead, s
  <2>1. CASE k = n
    BY <1>2, <2>0, <2>1
  <2>2. CASE k # n
    <3>1. k + 1 \in 1 .. n /\ Cursor' = s[k + 1]
      BY <1>2, <2>2
    <3> QED
      BY <1>2, <2>0, <3>1
  <2> QED
    BY <2>1, <2>2
<1>5. ASSUME NEW t \in TCB
      PROVE  Ahead(t)' <=> Ahead(t) /\ t # Cursor
  <2>1. \A j \in 1 .. n : s[j] = Cursor <=> j = k
    BY <1>1, <1>2 DEF s
  <2>2. \A j \in 1 .. n : k + 1 <= j <=> k <= j /\ j # k
    BY <1>2
  <2> QED
    BY <1>3, <1>4, <2>1, <2>2
<1>6. Ahead(Cursor)
  <2>1. Cursor \in TCB /\ k <= k
    BY <1>1, <1>2 DEF s
  <2> QED
    BY <1>1, <1>3, <2>1 DEF s
<1>7. Cursor' # NULL => \E i \in 1 .. Len(W') : W'[i] = Cursor'
  <2>1. Cursor' # NULL => k + 1 \in 1 .. n /\ Cursor' = s[k + 1]
    BY <1>2
  <2> QED
    BY <2>1 DEF s
<1> QED
  BY <1>5, <1>6, <1>7

\* Taking the TCB under the cursor out leaves the cursor on the one behind it.
LEMMA CursorTaken ==
  ASSUME Inv, Inv', NEW k \in 1 .. Len(W), NEW c \in TCB, W[k] = c, Cursor = c, W' = RemoveAt(W, k),
         Cursor' = next[Cursor]
  PROVE  /\ \A t \in TCB : t # c => (Waits(t)' <=> Waits(t)) /\ (Ahead(t)' <=> Ahead(t))
         /\ Waits(c) /\ Ahead(c) /\ ~Waits(c)'
         /\ Cursor' # NULL => \E i \in 1 .. Len(W') : W'[i] = Cursor'
<1> DEFINE s == W
           r == W'
           n == Len(s)
<1>1. /\ s \in Seq(TCB) /\ n \in Nat
      /\ \A i \in 1 .. n : s[i] \in TCB /\ s[i] # NULL
      /\ \A i, j \in 1 .. n : s[i] = s[j] => i = j
      /\ Cursor' = IF k = n THEN NULL ELSE s[k + 1]
  BY QueueIs
<1>2. /\ Len(r) = n - 1
      /\ \A j \in 1 .. n - 1 : r[j] = IF j < k THEN s[j] ELSE s[j + 1]
  BY <1>1, RemoveAtIs
<1>3. /\ \A t : Waits(t) <=> \E j \in 1 .. n : s[j] = t
      /\ \A t : Waits(t)' <=> \E j \in 1 .. n - 1 : r[j] = t
  BY <1>2 DEF Waits, InQueue, W
<1>4. /\ \A t : Ahead(t) <=> \E i, j \in 1 .. n : i <= j /\ s[i] = Cursor /\ s[j] = t
      /\ \A t : Ahead(t)' <=> \E i, j \in 1 .. n - 1 : i <= j /\ r[i] = Cursor' /\ r[j] = t
  BY <1>2 DEF Ahead
<1>5. s[k] = c /\ Cursor = c /\ k \in 1 .. n
  OBVIOUS
<1> HIDE DEF s, r
<1> DEFINE Old(j) == IF j < k THEN j ELSE j + 1
<1>6. ASSUME NEW j \in 1 .. n - 1
      PROVE  Old(j) \in 1 .. n /\ Old(j) # k /\ r[j] = s[Old(j)]
  BY <1>1, <1>2, <1>5
<1>7. ASSUME NEW j \in 1 .. n, j # k
      PROVE  \E i \in 1 .. n - 1 : Old(i) = j
  <2>1. CASE j < k
    <3>1. j \in 1 .. n - 1 /\ Old(j) = j
      BY <1>1, <1>5, <2>1
    <3> QED
      BY <3>1
  <2>2. CASE j > k
    <3>1. j - 1 \in 1 .. n - 1 /\ Old(j - 1) = j
      BY <1>1, <1>5, <2>2
    <3> QED
      BY <3>1
  <2>3. j < k \/ j > k
    BY <1>1, <1>5, <1>7
  <2> QED
    BY <2>1, <2>2, <2>3, Zenon
<1>8. ASSUME NEW t \in TCB, t # c
      PROVE  Waits(t)' <=> Waits(t)
  <2> HIDE DEF Old
  <2>1. ASSUME NEW j \in 1 .. n, s[j] = t
        PROVE  \E i \in 1 .. n - 1 : r[i] = t
    BY <1>5, <1>6, <1>7, <1>8, <2>1
  <2>2. ASSUME NEW i \in 1 .. n - 1, r[i] = t
        PROVE  \E j \in 1 .. n : s[j] = t
    BY <1>6, <2>2
  <2> QED
    BY <1>3, <2>1, <2>2
<1>9. Waits(c) /\ ~Waits(c)'
  <2> HIDE DEF Old
  <2>1. Waits(c)
    BY <1>3, <1>5
  <2>2. ASSUME NEW i \in 1 .. n - 1, r[i] = c
        PROVE  FALSE
    BY <1>1, <1>5, <1>6, <2>2
  <2> QED
    BY <1>3, <2>1, <2>2
<1>10. Ahead(c)
  BY <1>4, <1>5
<1>11. \A t : Ahead(t) <=> \E j \in 1 .. n : k <= j /\ s[j] = t
  BY <1>1, <1>4, <1>5
<1>12. CASE k = n
  <2>1. Cursor' = NULL
    BY <1>1, <1>12
  <2>2. \A i \in 1 .. n - 1 : r[i] # NULL
    <3> HIDE DEF Old
    <3> QED
      BY <1>1, <1>6
  <2>3. \A t : ~Ahead(t)'
    BY <1>4, <2>1, <2>2
  <2>4. \A t : Ahead(t) => t = c
    BY <1>5, <1>11, <1>12
  <2> QED
    BY <1>8, <1>9, <1>10, <2>1, <2>3, <2>4
<1>13. CASE k # n
  <2>1. Cursor' = s[k + 1] /\ k + 1 \in 1 .. n /\ k \in 1 .. n - 1
    BY <1>1, <1>5, <1>13
  <2>2. r[k] = Cursor'
    BY <1>2, <1>5, <2>1
  <2>3. \A i \in 1 .. n - 1 : r[i] = Cursor' => i = k
    <3> SUFFICES ASSUME NEW i \in 1 .. n - 1, r[i] = Cursor' PROVE i = k
      OBVIOUS
    <3>1. Old(i) = k + 1
      <4> HIDE DEF Old
      <4> QED
        BY <1>1, <1>6, <2>1
    <3> QED
      BY <1>5, <3>1
  <2>4. \A t : Ahead(t)' <=> \E j \in 1 .. n - 1 : k <= j /\ r[j] = t
    BY <1>4, <2>1, <2>2, <2>3
  <2>5. ASSUME NEW t \in TCB, t # c
        PROVE  Ahead(t)' <=> Ahead(t)
    <3>1. ASSUME NEW j \in 1 .. n - 1, k <= j, r[j] = t
          PROVE  j + 1 \in 1 .. n /\ k <= j + 1 /\ s[j + 1] = t
      BY <1>1, <1>2, <1>5, <3>1
    <3>2. ASSUME NEW j \in 1 .. n, k <= j, s[j] = t
          PROVE  j - 1 \in 1 .. n - 1 /\ k <= j - 1 /\ r[j - 1] = t
      <4>1. j # k
        BY <1>5, <2>5, <3>2
      <4>2. j - 1 \in 1 .. n - 1 /\ k <= j - 1 /\ ~(j - 1 < k) /\ (j - 1) + 1 = j
        BY <1>1, <1>5, <3>2, <4>1
      <4> QED
        BY <1>2, <3>2, <4>2
    <3> QED
      BY <1>11, <2>4, <3>1, <3>2
  <2>6. \E i \in 1 .. Len(r) : r[i] = Cursor'
    BY <1>2, <2>1, <2>2
  <2> QED
    BY <1>8, <1>9, <1>10, <2>5, <2>6 DEF r
<1> QED
  BY <1>12, <1>13

-----------------------------------------------------------------------------
(***************************************************************************)
(* The steps between ticks.                                                *)
(***************************************************************************)

\* Whatever the handler does to the queues is a use that TaskQueue allows.
LEMMA StepIsQueues ==
  ASSUME ScanInv, [ScanNext]_scanvars
  PROVE  [Next]_vars
<1>1. wait_queue \in Queue /\ ready_queues \subseteq Queue
  BY TimerScanAssumption DEF ready_queues
<1>2. ASSUME NEW t \in TCB, Release(t) PROVE Next
  BY <1>1, <1>2 DEF Release, Next
<1>3. ASSUME NEW t \in TCB, NEW lim \in Limit, BeginWait(t, lim) PROVE Next
  BY <1>1, <1>3 DEF BeginWait, Next
<1>4. CASE ReadyStep
  <2>1. PICK q \in ready_queues : RemoveTop(q) \/ \E t \in TCB : Add(q, t) \/ RemoveEntry(q, t)
    BY <1>4 DEF ReadyStep
  <2> QED
    BY <1>1, <2>1 DEF Next
<1>5. CASE Tick \/ Skip \/ Count \/ Return
  BY <1>5 DEF Tick, Skip, Count, Return
<1>6. CASE Expire
  <2>1. tcb \in TCB
    BY <1>6, QueueIs DEF Expire, InLoop, ScanInv, CursorInv, Cursor
  <2> QED
    BY <1>1, <1>6, <2>1 DEF Expire, Next
<1>7. CASE Relink
  <2>1. tcb \in TCB /\ \E q \in ready_queues : Add(q, tcb)
    BY <1>7 DEF Relink, ScanInv, CursorInv
  <2> QED
    BY <1>1, <2>1 DEF Next
<1>8. CASE UNCHANGED scanvars
  BY <1>8 DEF scanvars
<1> QED
  BY <1>2, <1>3, <1>4, <1>5, <1>6, <1>7, <1>8 DEF ScanNext, systimer_handler

LEMMA StepInv ==
  ASSUME ScanInv, [ScanNext]_scanvars
  PROVE  Inv'
BY StepIsQueues, NextInv DEF ScanInv

\* A step that leaves the wait queue, the cursor and the times alone.
LEMMA QuietStep ==
  ASSUME ScanInv, Inv', W' = W, turn' = turn, tcb' = tcb, nxt' = nxt, UNCHANGED times,
         turn # "relink"
  PROVE  ScanInv'
<1>1. ScanTypeOK' /\ CursorInv'
  BY DEF ScanInv, ScanTypeOK, CursorInv, Cursor, times
<1>2. ASSUME NEW t \in TCB PROVE Charged(t)'
  <2>1. (Waits(t)' <=> Waits(t)) /\ (Ahead(t)' <=> Ahead(t))
    BY DEF Waits, InQueue, Ahead, Cursor, W
  <2> QED
    BY <2>1, SameCharge DEF ScanInv, times
<1> QED
  BY <1>1, <1>2 DEF ScanInv

\* Nobody is ahead of a handler that does not run.
LEMMA NobodyAhead ==
  ASSUME ScanInv, turn = "off", NEW t
  PROVE  ~Ahead(t) /\ Cursor = NULL
BY QueueIs DEF ScanInv, CursorInv, Cursor, Ahead

LEMMA ReadyStepInv ==
  ASSUME ScanInv, Inv', ReadyStep
  PROVE  ScanInv'
<1>1. PICK q \in ready_queues : RemoveTop(q) \/ \E t \in TCB : Add(q, t) \/ RemoveEntry(q, t)
  BY DEF ReadyStep
<1>2. \E c : content' = [content EXCEPT ![q] = c]
  BY <1>1 DEF RemoveTop, Add, RemoveEntry
<1>3. W' = W
  BY <1>2, TimerScanAssumption DEF W, ready_queues, ScanInv, Inv, TypeOK
<1> QED
  BY <1>3, QuietStep DEF ReadyStep, handler

LEMMA BeginWaitInv ==
  ASSUME ScanInv, Inv', NEW t \in TCB, NEW lim \in Limit, BeginWait(t, lim)
  PROVE  ScanInv'
<1>1. /\ turn = "off" /\ turn' = turn /\ tcb' = tcb /\ nxt' = nxt /\ tcb = NULL
      /\ wait_queue \in Queue /\ lim \in Int
  BY TimerScanAssumption DEF BeginWait, handler, ScanInv, CursorInv
<1>2. W \in Seq(TCB) /\ W' = Append(W, t) /\ ~Waits(t)
  BY <1>1, QueueIs DEF BeginWait, Add, W, Waits, ScanInv, Inv, TypeOK
<1>3. /\ Len(W') = Len(W) + 1 /\ W'[Len(W) + 1] = t /\ Len(W) \in Nat
      /\ \A i \in 1 .. Len(W) : W'[i] = W[i]
  BY <1>2, AppendIs
<1>4. /\ waitim' = [waitim EXCEPT ![t] = WaitTim(lim)]
      /\ asked' = [asked EXCEPT ![t] = lim] /\ passed' = passed
  BY DEF BeginWait
<1>5. ScanTypeOK'
  BY <1>1, <1>4, WaitTimType DEF ScanTypeOK, ScanInv
<1>6. CursorInv' /\ turn' = "off"
  BY <1>1 DEF CursorInv, Cursor
<1>7. \A u \in TCB : ~Ahead(u) /\ ~Ahead(u)'
  <2>1. Cursor' = NULL /\ \A i \in 1 .. Len(W') : W'[i] # NULL
    <3>1. \A i \in 1 .. Len(W') : i \in 1 .. Len(W) \/ i = Len(W) + 1
      BY <1>3
    <3> QED
      BY <1>1, <1>2, <1>3, <3>1, NullIsNoTCB, QueueIs DEF Cursor, ScanInv
  <2> QED
    BY <1>1, <2>1, NobodyAhead DEF Ahead
<1>8. \A u \in TCB : u # t => (Waits(u)' <=> Waits(u))
  <2>1. \A i : i \in 1 .. Len(W') <=> i \in 1 .. Len(W) \/ i = Len(W) + 1
    BY <1>3
  <2>2. \A u : /\ Waits(u) <=> \E i \in 1 .. Len(W) : W[i] = u
               /\ Waits(u)' <=> \E i \in 1 .. Len(W') : W'[i] = u
    BY DEF Waits, InQueue, W
  <2> QED
    BY <1>3, <2>1, <2>2
<1>9. ASSUME NEW u \in TCB PROVE Charged(u)'
  <2>1. CASE u # t
    BY <1>4, <1>7, <1>8, <2>1, SameCharge DEF ScanInv, ScanTypeOK
  <2>2. CASE u = t
    <3>1. passed[t] = 0 /\ passed'[t] = 0
      BY <1>2, <1>4 DEF ScanInv, Charged
    <3>2. waitim'[t] = WaitTim(lim) /\ asked'[t] = lim
      BY <1>4 DEF ScanInv, ScanTypeOK
    <3>3. ASSUME Counted(lim)
          PROVE  WaitTim(lim) = lim + TIMER_PERIOD /\ WaitTim(lim) > 0
      <4>1. /\ lim # TMO_FEVR /\ lim + TIMER_PERIOD \in 0 .. UW_MAX /\ lim + TIMER_PERIOD > 0
        BY <1>1, <3>3, TimerScanAssumption DEF Counted, TMO_FEVR
      <4> QED
        BY <4>1, UWIs DEF WaitTim
    <3>4. Elapsed(t)' = 0
      <4>1. Elapsed(t)' = passed'[t] - 0
        BY <1>7 DEF Elapsed
      <4> QED
        BY <3>1, <4>1
    <3>5. 0 * TIMER_PERIOD = 0
      BY TimerScanAssumption
    <3>6. ASSUME Counted(asked'[t])
          PROVE  /\ waitim'[t] > 0 /\ Elapsed(t)' \in Nat
                 /\ waitim'[t] + Elapsed(t)' * TIMER_PERIOD = asked'[t] + TIMER_PERIOD
      <4>1. waitim'[t] = lim + TIMER_PERIOD /\ waitim'[t] > 0 /\ waitim'[t] \in Int
        BY <1>1, <3>2, <3>3, <3>6, TimerScanAssumption
      <4> QED
        BY <3>2, <3>4, <3>5, <4>1
    <3> QED
      BY <2>2, <3>1, <3>6 DEF Charged, Counted
  <2> QED
    BY <2>1, <2>2
<1> QED
  BY <1>5, <1>6, <1>9 DEF ScanInv

LEMMA ReleaseInv ==
  ASSUME ScanInv, Inv', NEW t \in TCB, Release(t)
  PROVE  ScanInv'
<1>1. /\ turn = "off" /\ turn' = turn /\ tcb' = tcb /\ nxt' = nxt /\ tcb = NULL
      /\ wait_queue \in Queue
  BY TimerScanAssumption DEF Release, handler, ScanInv, CursorInv
<1>2. PICK k \in 1 .. Len(W) : W[k] = t /\ W' = RemoveAt(W, k)
  BY <1>1 DEF Release, RemoveEntry, W, ScanInv, Inv, TypeOK
<1>3. /\ W \in Seq(TCB) /\ Len(W) \in Nat /\ Len(W') = Len(W) - 1
      /\ \A j \in 1 .. Len(W) - 1 : W'[j] = IF j < k THEN W[j] ELSE W[j + 1]
  BY <1>2, QueueIs, RemoveAtIs DEF ScanInv
<1>4. /\ waitim' = waitim
      /\ asked' = [asked EXCEPT ![t] = TMO_FEVR] /\ passed' = [passed EXCEPT ![t] = 0]
  BY DEF Release, Over
<1>5. ScanTypeOK' /\ CursorInv' /\ turn' = "off"
  BY <1>1, <1>4 DEF ScanTypeOK, ScanInv, CursorInv, Cursor, TMO_FEVR
<1>6. \A i \in 1 .. Len(W') : \E j \in 1 .. Len(W) : W'[i] = W[j]
  <2> TAKE i \in 1 .. Len(W')
  <2>1. i \in 1 .. Len(W) /\ i + 1 \in 1 .. Len(W)
    BY <1>3
  <2> QED
    BY <1>3, <2>1
<1>7. \A j \in 1 .. Len(W) : j # k => \E i \in 1 .. Len(W') : W'[i] = W[j]
  <2> SUFFICES ASSUME NEW j \in 1 .. Len(W), j # k
               PROVE  \E i \in 1 .. Len(W') : W'[i] = W[j]
    OBVIOUS
  <2>1. CASE j < k
    BY <1>3, <2>1
  <2>2. CASE ~(j < k)
    <3>1. j - 1 \in 1 .. Len(W') /\ ~(j - 1 < k) /\ (j - 1) + 1 = j
      BY <1>2, <1>3, <2>2
    <3> QED
      BY <1>3, <3>1
  <2> QED
    BY <2>1, <2>2
<1>8. \A u \in TCB : ~Ahead(u) /\ ~Ahead(u)'
  <2>1. Cursor' = NULL /\ \A i \in 1 .. Len(W') : W'[i] # NULL
    BY <1>1, <1>6, QueueIs DEF Cursor, ScanInv
  <2> QED
    BY <1>1, <2>1, NobodyAhead DEF Ahead
<1>9. \A u \in TCB : u # t => (Waits(u)' <=> Waits(u))
  <2>1. \A u : /\ Waits(u) <=> \E i \in 1 .. Len(W) : W[i] = u
               /\ Waits(u)' <=> \E i \in 1 .. Len(W') : W'[i] = u
    BY DEF Waits, InQueue, W
  <2> QED
    BY <1>2, <1>6, <1>7, <2>1
<1>10. ASSUME NEW u \in TCB PROVE Charged(u)'
  <2>1. CASE u # t
    BY <1>4, <1>8, <1>9, <2>1, SameCharge DEF ScanInv, ScanTypeOK
  <2>2. CASE u = t
    BY <1>4, <2>2 DEF Charged, Counted, TMO_FEVR, ScanInv, ScanTypeOK
  <2> QED
    BY <2>1, <2>2
<1> QED
  BY <1>5, <1>10 DEF ScanInv

-----------------------------------------------------------------------------
(***************************************************************************)
(* The steps of the handler.                                               *)
(***************************************************************************)

\* A new tick puts every wait ahead of the handler.
LEMMA TickInv ==
  ASSUME ScanInv, Inv', Tick
  PROVE  ScanInv'
<1>1. /\ turn = "off" /\ turn' = "loop" /\ tcb' = head[wait_queue] /\ UNCHANGED vars
      /\ waitim' = waitim /\ asked' = asked
      /\ passed' = [t \in TCB |->
           passed[t] + IF Waits(t) /\ Counted(asked[t]) THEN 1 ELSE 0]
  BY DEF Tick, Waits
<1>2. W' = W /\ \A t : Waits(t)' <=> Waits(t)
  BY <1>1 DEF vars, W, Waits, InQueue
<1>3. ScanTypeOK'
  BY <1>1 DEF ScanTypeOK, ScanInv
<1>4. Cursor' = IF W = << >> THEN NULL ELSE W[1]
  BY <1>1, QueueIs DEF Cursor, ScanInv
<1>5. CursorInv'
  <2>1. W # << >> => 1 \in 1 .. Len(W)
    BY QueueIs DEF ScanInv
  <2>2. Cursor' # NULL => \E i \in 1 .. Len(W') : W'[i] = Cursor'
    BY <1>2, <1>4, <2>1
  <2> QED
    BY <1>1, <2>2 DEF CursorInv
<1>6. \A t \in TCB : ~Ahead(t) /\ (Waits(t) => Ahead(t)')
  <2> SUFFICES ASSUME NEW t \in TCB PROVE ~Ahead(t) /\ (Waits(t) => Ahead(t)')
    OBVIOUS
  <2>1. ASSUME Waits(t) PROVE Ahead(t)'
    <3>1. PICK j \in 1 .. Len(W) : W[j] = t
      BY <2>1 DEF Waits, InQueue, W
    <3>2. 1 \in 1 .. Len(W) /\ 1 <= j /\ W # << >>
      BY QueueIs DEF ScanInv
    <3> QED
      BY <1>2, <1>4, <3>1, <3>2 DEF Ahead
  <2> QED
    BY <1>1, <2>1, NobodyAhead
<1>7. ASSUME NEW t \in TCB PROVE Charged(t)'
  <2>1. passed[t] \in Nat
    BY DEF ScanInv, ScanTypeOK
  <2>2. CASE Waits(t) /\ Counted(asked[t])
    <3>1. passed'[t] = passed[t] + 1 /\ Elapsed(t)' = passed'[t] - 1 /\ Elapsed(t) = passed[t] - 0
      BY <1>1, <1>6, <2>2 DEF Elapsed
    <3>2. Elapsed(t)' = Elapsed(t)
      BY <2>1, <3>1
    <3> QED
      BY <1>1, <1>2, <2>2, <3>2 DEF Charged, Counted, ScanInv
  <2>3. CASE ~(Waits(t) /\ Counted(asked[t]))
    <3>1. passed'[t] = passed[t]
      BY <1>1, <2>1, <2>3
    <3> QED
      BY <1>1, <1>2, <2>3, <3>1 DEF Charged, Counted, ScanInv
  <2> QED
    BY <2>2, <2>3
<1> QED
  BY <1>3, <1>5, <1>7 DEF ScanInv

\* What the loop stands on.
LEMMA LoopIs ==
  ASSUME ScanInv, InLoop
  PROVE  tcb \in TCB /\ Cursor = tcb /\ Cursor # NULL /\ Waits(tcb)
BY QueueIs DEF ScanInv, CursorInv, Cursor, InLoop, Waits, InQueue, W

LEMMA SkipInv ==
  ASSUME ScanInv, Inv', Skip
  PROVE  ScanInv'
<1>1. /\ tcb \in TCB /\ Cursor = tcb /\ Cursor # NULL /\ Waits(tcb)
      /\ turn = "loop" /\ turn' = "loop" /\ tcb' = next[tcb] /\ UNCHANGED << vars, times >>
      /\ waitim[tcb] = UW(TMO_FEVR)
  BY LoopIs DEF Skip, InLoop, Forever
<1>2. W' = W /\ Cursor' = next[Cursor] /\ \A t : Waits(t)' <=> Waits(t)
  BY <1>1 DEF vars, W, Waits, InQueue, Cursor
<1>3. /\ \A t \in TCB : Ahead(t)' <=> Ahead(t) /\ t # Cursor
      /\ Cursor' # NULL => \E i \in 1 .. Len(W') : W'[i] = Cursor'
  BY <1>1, <1>2, CursorMoves DEF ScanInv
<1>4. ScanTypeOK' /\ CursorInv'
  BY <1>1, <1>3 DEF ScanInv, ScanTypeOK, CursorInv, times
<1>5. ASSUME NEW t \in TCB PROVE Charged(t)'
  <2>1. CASE t = tcb
    BY <1>1, <1>2, <2>1, NotForever DEF Charged, Counted, times
  <2>2. CASE t # tcb
    BY <1>1, <1>2, <1>3, <2>2, SameCharge DEF ScanInv, times
  <2> QED
    BY <2>1, <2>2
<1> QED
  BY <1>4, <1>5 DEF ScanInv

LEMMA CountInv ==
  ASSUME ScanInv, Inv', Count
  PROVE  ScanInv'
<1>1. /\ tcb \in TCB /\ Cursor = tcb /\ Cursor # NULL /\ Waits(tcb)
      /\ turn = "loop" /\ turn' = "loop" /\ tcb' = next[tcb] /\ UNCHANGED vars
      /\ waitim[tcb] > TIMER_PERIOD
      /\ waitim' = [waitim EXCEPT ![tcb] = @ - TIMER_PERIOD]
      /\ asked' = asked /\ passed' = passed
  BY LoopIs DEF Count, InLoop
<1>2. W' = W /\ Cursor' = next[Cursor] /\ \A t : Waits(t)' <=> Waits(t)
  BY <1>1 DEF vars, W, Waits, InQueue, Cursor
<1>3. /\ \A t \in TCB : Ahead(t)' <=> Ahead(t) /\ t # Cursor
      /\ Ahead(Cursor)
      /\ Cursor' # NULL => \E i \in 1 .. Len(W') : W'[i] = Cursor'
  BY <1>1, <1>2, CursorMoves DEF ScanInv
<1>4. /\ waitim'[tcb] = waitim[tcb] - TIMER_PERIOD /\ waitim'[tcb] \in 0 .. UW_MAX
      /\ waitim'[tcb] > 0
      /\ waitim[tcb] \in Int /\ TIMER_PERIOD \in Int
  BY <1>1, TimerScanAssumption DEF ScanInv, ScanTypeOK
<1>5. ScanTypeOK' /\ CursorInv'
  BY <1>1, <1>3, <1>4 DEF ScanInv, ScanTypeOK, CursorInv
<1>6. ASSUME NEW t \in TCB PROVE Charged(t)'
  <2>1. CASE t = tcb
    <3>1. Elapsed(tcb) = passed[tcb] - 1 /\ passed[tcb] \in Nat
      BY <1>1, <1>3 DEF Elapsed, ScanInv, ScanTypeOK
    <3>2. ~Ahead(t)'
      BY <1>1, <1>3, <2>1
    <3>3. Elapsed(t)' = passed[tcb] - 0
      BY <1>1, <2>1, <3>2 DEF Elapsed
    <3>4. Elapsed(t)' = Elapsed(tcb) + 1
      BY <3>1, <3>3
    <3>5. ASSUME Counted(asked[tcb])
          PROVE  /\ Elapsed(t)' \in Nat
                 /\ waitim'[tcb] + Elapsed(t)' * TIMER_PERIOD = asked[tcb] + TIMER_PERIOD
      <4>1. /\ Elapsed(tcb) \in Nat
            /\ waitim[tcb] + Elapsed(tcb) * TIMER_PERIOD = asked[tcb] + TIMER_PERIOD
        BY <1>1, <3>5 DEF ScanInv, Charged
      <4>2. /\ (Elapsed(tcb) + 1) * TIMER_PERIOD = Elapsed(tcb) * TIMER_PERIOD + TIMER_PERIOD
            /\ Elapsed(tcb) * TIMER_PERIOD \in Int
        BY <1>4, <4>1
      <4> DEFINE e == Elapsed(tcb) * TIMER_PERIOD
                 f == Elapsed(t)' * TIMER_PERIOD
      <4>3. f = e + TIMER_PERIOD /\ e \in Int /\ waitim[tcb] + e = asked[tcb] + TIMER_PERIOD
        BY <3>4, <4>1, <4>2
      <4> HIDE DEF e, f
      <4>4. waitim'[tcb] + f = asked[tcb] + TIMER_PERIOD
        BY <1>4, <4>3
      <4> QED
        BY <3>4, <4>1, <4>4 DEF f
    <3> QED
      BY <1>1, <1>2, <1>4, <2>1, <3>5 DEF Charged, Counted
  <2>2. CASE t # tcb
    <3>1. waitim'[t] = waitim[t]
      BY <1>1, <2>2 DEF ScanInv, ScanTypeOK
    <3> QED
      BY <1>1, <1>2, <1>3, <2>2, <3>1, SameCharge DEF ScanInv
  <2> QED
    BY <2>1, <2>2
<1> QED
  BY <1>5, <1>6 DEF ScanInv

LEMMA ExpireInv ==
  ASSUME ScanInv, Inv', Expire
  PROVE  ScanInv'
<1>1. /\ tcb \in TCB /\ Cursor = tcb /\ turn = "loop" /\ turn' = "relink" /\ tcb' = tcb
      /\ nxt' = next[tcb] /\ waitim' = waitim /\ wait_queue \in Queue
      /\ asked' = [asked EXCEPT ![tcb] = TMO_FEVR] /\ passed' = [passed EXCEPT ![tcb] = 0]
  BY LoopIs, TimerScanAssumption DEF Expire, InLoop, Over
<1>2. PICK k \in 1 .. Len(W) :
        /\ W[k] = tcb /\ W' = RemoveAt(W, k)
        /\ content' = [content EXCEPT ![wait_queue] = RemoveAt(W, k)]
  BY <1>1 DEF Expire, RemoveEntry, W, ScanInv, Inv, TypeOK
<1>3. Cursor' = next[Cursor]
  BY <1>1 DEF Cursor
<1>4. /\ \A t \in TCB : t # tcb => (Waits(t)' <=> Waits(t)) /\ (Ahead(t)' <=> Ahead(t))
      /\ ~Waits(tcb)'
      /\ Cursor' # NULL => \E i \in 1 .. Len(W') : W'[i] = Cursor'
  <2>1. PICK c \in TCB : c = tcb
    BY <1>1
  <2>2. /\ \A t \in TCB : t # c => (Waits(t)' <=> Waits(t)) /\ (Ahead(t)' <=> Ahead(t))
        /\ ~Waits(c)'
        /\ Cursor' # NULL => \E i \in 1 .. Len(W') : W'[i] = Cursor'
    BY <1>1, <1>2, <1>3, <2>1, CursorTaken DEF ScanInv
  <2>3. ~Waits(tcb)'
    BY <1>1, <2>1, <2>2 DEF Waits, InQueue
  <2> QED
    BY <2>1, <2>2, <2>3
<1>5. ScanTypeOK'
  BY <1>1 DEF ScanTypeOK, ScanInv, TMO_FEVR
<1>6. \A q \in Queue : ~InQueue(q, tcb)'
  <2> SUFFICES ASSUME NEW q \in Queue PROVE ~InQueue(q, tcb)'
    OBVIOUS
  <2>1. CASE q = wait_queue
    BY <1>4, <2>1 DEF Waits
  <2>2. CASE q # wait_queue
    <3>1. content'[q] = content[q]
      BY <1>2, <2>2 DEF ScanInv, Inv, TypeOK
    <3>2. \A i \in 1 .. Len(content[q]) : content[q][i] # W[k]
      BY <1>1, <2>2 DEF W, ScanInv, Inv, Distinct
    <3> QED
      BY <1>1, <1>2, <3>1, <3>2 DEF InQueue
  <2> QED
    BY <2>1, <2>2
<1>7. CursorInv'
  BY <1>1, <1>4, <1>6 DEF CursorInv
<1>8. ASSUME NEW t \in TCB PROVE Charged(t)'
  <2>1. CASE t # tcb
    BY <1>1, <1>4, <2>1, SameCharge DEF ScanInv, ScanTypeOK
  <2>2. CASE t = tcb
    <3>1. passed'[t] = 0 /\ asked'[t] = TMO_FEVR
      BY <1>1, <2>2 DEF ScanInv, ScanTypeOK
    <3> QED
      BY <3>1 DEF Charged, Counted, TMO_FEVR
  <2> QED
    BY <2>1, <2>2
<1> QED
  BY <1>5, <1>7, <1>8 DEF ScanInv

LEMMA RelinkInv ==
  ASSUME ScanInv, Inv', Relink
  PROVE  ScanInv'
<1>1. /\ turn = "relink" /\ turn' = "loop" /\ tcb' = nxt /\ UNCHANGED times
      /\ \E q \in ready_queues : content' = [content EXCEPT ![q] = Append(@, tcb)]
  BY DEF Relink, Add, Successor
<1>2. W' = W
  BY <1>1, TimerScanAssumption DEF W, ready_queues, ScanInv, Inv, TypeOK
<1>3. Cursor' = Cursor
  BY <1>1 DEF Cursor
<1>4. ScanTypeOK' /\ CursorInv'
  BY <1>1, <1>2, <1>3 DEF ScanInv, ScanTypeOK, CursorInv, times
<1>5. ASSUME NEW t \in TCB PROVE Charged(t)'
  <2>1. (Waits(t)' <=> Waits(t)) /\ (Ahead(t)' <=> Ahead(t))
    BY <1>2, <1>3 DEF Waits, InQueue, Ahead, W
  <2> QED
    BY <1>1, <2>1, SameCharge DEF ScanInv, times
<1> QED
  BY <1>4, <1>5 DEF ScanInv

LEMMA ReturnInv ==
  ASSUME ScanInv, Inv', Return
  PROVE  ScanInv'
<1>1. /\ turn = "loop" /\ turn' = "off" /\ tcb = NULL /\ tcb' = NULL
      /\ UNCHANGED << vars, times >>
  BY DEF Return
<1>2. W' = W /\ Cursor' = Cursor
  BY <1>1 DEF vars, W, Cursor
<1>3. ScanTypeOK' /\ CursorInv'
  BY <1>1, <1>2 DEF ScanInv, ScanTypeOK, CursorInv, Cursor, times
<1>4. ASSUME NEW t \in TCB PROVE Charged(t)'
  <2>1. (Waits(t)' <=> Waits(t)) /\ (Ahead(t)' <=> Ahead(t))
    BY <1>2 DEF Waits, InQueue, Ahead, W
  <2> QED
    BY <1>1, <2>1, SameCharge DEF ScanInv, times
<1> QED
  BY <1>3, <1>4 DEF ScanInv

-----------------------------------------------------------------------------
(***************************************************************************)
(* The theorems about the handler.                                         *)
(***************************************************************************)
LEMMA ScanInitInv == ScanInit => ScanInv
<1> SUFFICES ASSUME ScanInit PROVE ScanInv
  OBVIOUS
<1>1. Inv /\ turn = "off" /\ tcb = NULL
  BY InitInv DEF ScanInit
<1>2. ScanTypeOK
  BY TimerScanAssumption DEF ScanInit, ScanTypeOK, TMO_FEVR
<1>3. CursorInv
  BY <1>1 DEF CursorInv, Cursor
<1>4. ASSUME NEW t \in TCB PROVE Charged(t)
  BY DEF ScanInit, Charged, Counted, TMO_FEVR
<1> QED
  BY <1>1, <1>2, <1>3, <1>4 DEF ScanInv

LEMMA ScanNextInv == ScanInv /\ [ScanNext]_scanvars => ScanInv'
<1> SUFFICES ASSUME ScanInv, [ScanNext]_scanvars PROVE ScanInv'
  OBVIOUS
<1>1. Inv'
  BY StepInv
<1>2. ASSUME NEW t \in TCB, Release(t) PROVE ScanInv'
  BY <1>1, <1>2, ReleaseInv
<1>3. ASSUME NEW t \in TCB, NEW lim \in Limit, BeginWait(t, lim) PROVE ScanInv'
  BY <1>1, <1>3, BeginWaitInv
<1>4. CASE ReadyStep
  BY <1>1, <1>4, ReadyStepInv
<1>5. CASE systimer_handler
  BY <1>1, <1>5, TickInv, SkipInv, CountInv, ExpireInv, RelinkInv, ReturnInv DEF systimer_handler
<1>6. CASE UNCHANGED scanvars
  <2>1. UNCHANGED << vars, handler, times >> /\ W' = W
    BY <1>6 DEF scanvars, vars, W
  <2>2. \A t : (Waits(t)' <=> Waits(t)) /\ (Ahead(t)' <=> Ahead(t))
    BY <2>1 DEF Waits, InQueue, Ahead, Cursor, handler, W
  <2>3. \A t \in TCB : Charged(t)'
    BY <2>1, <2>2, SameCharge DEF ScanInv, times
  <2> QED
    BY <1>1, <2>1, <2>3 DEF ScanInv, ScanTypeOK, CursorInv, Cursor, InQueue, handler, times, vars
<1> QED
  BY <1>2, <1>3, <1>4, <1>5, <1>6 DEF ScanNext

\* The handler's walk, with the uses of the queues between ticks, does nothing
\* with them that TaskQueue does not allow: it unlinks and relinks while it
\* walks, and each of these is an addition of a TCB that is in no queue or a
\* removal from the queue it is in (systimer.c:14-35).
THEOREM HandlerUsesQueues == ScanSpec => Spec
<1>1. ScanInit => Init
  BY DEF ScanInit
<1>2. ScanInv /\ [ScanNext]_scanvars => [Next]_vars
  BY StepIsQueues
<1> QED
  BY <1>1, <1>2, ScanInitInv, ScanNextInv, PTL DEF ScanSpec, Spec

\* Linked, under the handler's walk: the links it walks along and changes spell
\* the queues at every point of the walk (systimer.c:14-35, task_queue.c:9-54).
THEOREM LinkedUnderTheHandler == ScanSpec => []Linked
  BY HandlerUsesQueues, AlwaysLinked, PTL

\* WalkIsFifo, under the handler's walk: a reader of the links meets the TCBs
\* in the order of their arrival whatever the handler has done so far (systimer.c:14-35).
THEOREM QueuesAreFifoUnderTheHandler == ScanSpec => WalkIsFifo
  BY HandlerUsesQueues, QueuesAreFifo, PTL

\* One tick less is one period less.
LEMMA PeriodBefore ==
  ASSUME NEW n \in Int
  PROVE  /\ n * TIMER_PERIOD \in Int /\ (n - 1) * TIMER_PERIOD \in Int
         /\ (n - 1) * TIMER_PERIOD = n * TIMER_PERIOD - TIMER_PERIOD
BY TimerScanAssumption

\* When the handler returns, no wait is left whose time has passed, whichever
\* TCBs it took out of the queue on its way and wherever the others were
\* (systimer.c:14-35).
THEOREM HandlerMissesNobody == ScanSpec => []NobodyOverdue
<1>1. ASSUME ScanInv PROVE NobodyOverdue
  <2> SUFFICES ASSUME turn = "off", NEW t \in TCB, Waits(t), Counted(asked[t])
               PROVE  (passed[t] - 1) * TIMER_PERIOD < asked[t]
    BY DEF NobodyOverdue, Waits
  <2>1. /\ Elapsed(t) = passed[t] /\ passed[t] \in Nat
        /\ waitim[t] > 0 /\ waitim[t] \in Int /\ asked[t] \in Int /\ TIMER_PERIOD \in Int
    <3>1. ~Ahead(t)
      BY <1>1, NobodyAhead
    <3>2. passed[t] \in Nat /\ waitim[t] \in Int /\ asked[t] \in Int /\ waitim[t] > 0
      BY <1>1 DEF ScanInv, ScanTypeOK, Charged
    <3>3. Elapsed(t) = passed[t] - 0
      BY <3>1 DEF Elapsed
    <3> QED
      BY <3>2, <3>3, TimerScanAssumption
  <2> DEFINE e == passed[t] * TIMER_PERIOD
             f == (passed[t] - 1) * TIMER_PERIOD
  <2>2. waitim[t] + e = asked[t] + TIMER_PERIOD
    BY <1>1, <2>1 DEF ScanInv, Charged
  <2>3. e \in Int /\ f \in Int /\ f = e - TIMER_PERIOD
    BY <2>1, PeriodBefore
  <2> HIDE DEF e, f
  <2>4. f < asked[t]
    BY <2>1, <2>2, <2>3
  <2> QED
    BY <2>4 DEF f
<1> QED
  BY <1>1, ScanInitInv, ScanNextInv, PTL DEF ScanSpec

\* No wait ends before as many whole periods as make up its limit: the first
\* of the ticks, that may come at any time, is not counted (task_sync.c:20, 46,
\* systimer.c:18-20).
THEOREM HandlerIsNeverEarly == ScanSpec => NeverEarly
<1> DEFINE OnTime ==
      \A t \in TCB :
        InLoop /\ tcb = t /\ Counted(asked[t]) /\ InQueue(wait_queue, t) /\ ~InQueue(wait_queue, t)'
          => (passed[t] - 1) * TIMER_PERIOD >= asked[t]
<1>1. ASSUME ScanInv, ScanNext PROVE OnTime
  <2> SUFFICES ASSUME NEW t \in TCB, InLoop, tcb = t, Counted(asked[t]),
                      Waits(t), ~InQueue(wait_queue, t)'
               PROVE  (passed[t] - 1) * TIMER_PERIOD >= asked[t]
    BY DEF Waits
  <2>1. turn = "loop" /\ tcb # NULL /\ content' # content
    BY DEF InLoop, Waits, InQueue
  <2>2. Expire
    <3>1. ~ReadyStep /\ \A u \in TCB : ~Release(u) /\ \A lim \in Limit : ~BeginWait(u, lim)
      BY <2>1 DEF ReadyStep, Release, BeginWait
    <3>2. ~Tick /\ ~Skip /\ ~Count /\ ~Relink /\ ~Return
      BY <2>1 DEF Tick, Skip, Count, Relink, Return, vars
    <3> QED
      BY <1>1, <3>1, <3>2 DEF ScanNext, systimer_handler
  <2>3. Ahead(t)
    <3>1. PICK k \in 1 .. Len(W) : W[k] = t
      BY DEF Waits, InQueue, W
    <3>2. Cursor = t /\ k <= k
      BY <1>1, <2>1, QueueIs DEF Cursor, ScanInv
    <3> QED
      BY <3>1, <3>2 DEF Ahead
  <2>4. /\ Elapsed(t) = passed[t] - 1 /\ passed[t] \in Nat
        /\ waitim[t] \in Int /\ asked[t] \in Int /\ TIMER_PERIOD \in Int
        /\ waitim[t] <= TIMER_PERIOD
    BY <1>1, <2>2, <2>3, TimerScanAssumption DEF Elapsed, Expire, ScanInv, ScanTypeOK
  <2> DEFINE f == (passed[t] - 1) * TIMER_PERIOD
  <2>5. waitim[t] + f = asked[t] + TIMER_PERIOD
    BY <1>1, <2>4 DEF ScanInv, Charged
  <2>6. f \in Int
    BY <2>4, PeriodBefore
  <2> HIDE DEF f
  <2>7. f >= asked[t]
    BY <2>4, <2>5, <2>6
  <2> QED
    BY <2>7 DEF f
<1>2. ScanInv /\ [ScanNext]_scanvars => [OnTime]_scanvars
  BY <1>1
<1> QED
  BY <1>2, ScanInitInv, ScanNextInv, PTL DEF ScanSpec, NeverEarly
=============================================================================
