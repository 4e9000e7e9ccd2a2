------------------------ MODULE MessageBuffer_proofs ------------------------
(***************************************************************************)
(* Proofs about MessageBuffer, for every number of tasks and buffers: the  *)
(* kernel's invariant under the waits for buffers, and, where all messages *)
(* have one size and a buffer is a whole number of them with their         *)
(* lengths, that the ring of bytes keeps itself, that nobody waits without *)
(* cause, and that each buffer is a channel (MessageChannel).              *)
(***************************************************************************)
EXTENDS MessageBuffer, Kernel_proofs, WellFoundedInduction, FiniteSetTheorems

allvars == << vars, mbfvars >>

\* The size of the messages, and of a slot: a message with its length.
MsgSz == Len(CHOOSE m \in Msg : TRUE)
SlotSz == MsgSz + 1

\* The addresses at which messages begin, and the sizes of buffers.
IsSlot(a) == \E k \in Nat : a = k * SlotSz

\* The messages are of one size, and a buffer is two slots or more.
WholeMessages ==
  /\ Msg # {}
  /\ \A m \in Msg : Len(m) = MsgSz
  /\ \A pk \in CMbf : IsSlot(pk.bufsz) /\ pk.bufsz >= 2 * SlotSz /\ pk.bufsz <= UW_MAX

\* The bytes behind the length at a.
MsgIn(cb, a) == [i \in 1 .. MsgSz |-> cb.mem[a + i]]

Cb == [state : {"KS_NONEXIST", "KS_EXIST"}, bufsz : Nat, freesz : Int,
       buf_rp : Int, buf_wp : Int, mem : UNION {[0 .. n -> Byte] : n \in Nat}]

\* What is known of the ring of a buffer.  Slots are filled in the order of
\* their addresses, and never emptied: as long as buf_wp has not gone round,
\* those before it hold messages, and then all do.
Holding(cb, a) == cb.mem[a] = MsgSz /\ MsgIn(cb, a) \in Msg

RingInv(cb) ==
  /\ IsSlot(cb.bufsz) /\ cb.bufsz >= 2 * SlotSz /\ cb.bufsz <= UW_MAX
  /\ cb.buf_rp \in 0 .. cb.bufsz - 1 /\ IsSlot(cb.buf_rp)
  /\ cb.buf_wp \in 0 .. cb.bufsz - 1 /\ IsSlot(cb.buf_wp)
  /\ cb.freesz = IF cb.buf_rp <= cb.buf_wp THEN cb.bufsz - (cb.buf_wp - cb.buf_rp)
                 ELSE cb.buf_rp - cb.buf_wp
  /\ cb.freesz >= SlotSz
  /\ cb.mem \in [0 .. cb.bufsz -> Byte] /\ cb.mem[cb.bufsz] = 0
  /\ \A a \in 0 .. cb.bufsz - 1 :
       IsSlot(a) /\ (a < cb.buf_wp \/ cb.buf_rp > cb.buf_wp) => Holding(cb, a)

-----------------------------------------------------------------------------
(***************************************************************************)
(* Slots.                                                                  *)
(***************************************************************************)
LEMMA SizeType ==
  ASSUME WholeMessages
  PROVE  /\ MsgSz \in Nat \ {0} /\ SlotSz \in Nat /\ SlotSz >= 2
         /\ \A m \in Msg : Len(m) = MsgSz /\ m \in Seq(Byte) /\ m = [i \in 1 .. MsgSz |-> m[i]]
<1>1. PICK m \in Msg : Len(m) = MsgSz
  BY DEF WholeMessages
<1>2. \A n \in Msg : n \in Seq(Byte) /\ n # << >>
  BY MessageBufferAssumption
<1>3. Len(m) \in Nat \ {0}
  BY <1>2
<1> QED
  BY <1>1, <1>2, <1>3 DEF WholeMessages, SlotSz

\* Slots do not overlap.
LEMMA SlotsApart ==
  ASSUME WholeMessages, NEW a, NEW b, IsSlot(a), IsSlot(b), a < b
  PROVE  a \in Nat /\ b \in Nat /\ a + SlotSz <= b
<1>1. SlotSz \in Nat
  BY SizeType
<1>2. PICK k \in Nat : a = k * SlotSz
  BY DEF IsSlot
<1>3. PICK l \in Nat : b = l * SlotSz
  BY DEF IsSlot
<1> HIDE DEF SlotSz
<1>4. a \in Nat /\ b \in Nat
  BY <1>1, <1>2, <1>3
<1>5. k < l
  <2>1. SUFFICES ASSUME l <= k PROVE FALSE
    BY <1>2, <1>3
  <2>2. l * SlotSz <= k * SlotSz
    BY <1>1, <2>1
  <2> QED
    BY <1>2, <1>3, <1>4, <2>2
<1>6. (k + 1) * SlotSz <= l * SlotSz
  BY <1>1, <1>5
<1>7. (k + 1) * SlotSz = k * SlotSz + SlotSz
  BY <1>1
<1> QED
  BY <1>2, <1>3, <1>4, <1>6, <1>7

\* 0 is a slot, and a slot follows a slot.
LEMMA SlotsFollow ==
  ASSUME WholeMessages
  PROVE  IsSlot(0) /\ \A a : IsSlot(a) => IsSlot(a + SlotSz)
<1>1. SlotSz \in Nat
  BY SizeType
<1> HIDE DEF SlotSz
<1>2. 0 = 0 * SlotSz
  BY <1>1
<1>3. ASSUME NEW k \in Nat PROVE k * SlotSz + SlotSz = (k + 1) * SlotSz
  BY <1>1
<1>4. \A k \in Nat : k + 1 \in Nat
  OBVIOUS
<1> QED
  BY <1>2, <1>3, <1>4 DEF IsSlot

LEMMA ModIs ==
  ASSUME NEW b \in Nat \ {0}, NEW x \in 0 .. b
  PROVE  x % b = IF x = b THEN 0 ELSE x
  OBVIOUS

\* Where the bytes of a message are, and what follows it.
LEMMA DataIs ==
  ASSUME WholeMessages, NEW cb, cb.bufsz \in Nat, IsSlot(cb.bufsz), NEW a, IsSlot(a), a < cb.bufsz
  PROVE  /\ a \in Nat /\ a + SlotSz <= cb.bufsz
         /\ \A i \in 1 .. MsgSz : DataAt(cb, a, i) = a + i
         /\ DataAt(cb, a, MsgSz + 1) = IF a + SlotSz = cb.bufsz THEN 0 ELSE a + SlotSz
<1> DEFINE b == cb.bufsz
<1>1. a \in Nat /\ b \in Nat \ {0} /\ a + SlotSz <= b /\ SlotSz = MsgSz + 1 /\ MsgSz \in Nat \ {0}
  BY SlotsApart, SizeType DEF SlotSz
<1> HIDE DEF SlotSz, MsgSz, b
<1>2. ASSUME NEW i \in 1 .. MsgSz + 1
      PROVE  DataAt(cb, a, i) = IF a + i = b THEN 0 ELSE a + i
  <2>1. CASE i = 1
    BY <1>1, <2>1 DEF DataAt
  <2>2. CASE i > 1
    <3>1. DataAt(cb, a, i) = ((IF a + 2 >= b THEN 0 ELSE a + 2) + i - 2) % b
      BY <1>1, <2>2 DEF DataAt, b
    <3>2. CASE a + 2 >= b
      <4>1. i = 2 /\ a + 2 = b
        BY <1>1, <2>2, <3>2
      <4>2. DataAt(cb, a, i) = 0 % b
        BY <3>1, <3>2, <4>1
      <4>3. 0 % b = 0
        BY <1>1, ModIs
      <4> QED
        BY <4>1, <4>2, <4>3
    <3>3. CASE a + 2 < b
      <4>1. DataAt(cb, a, i) = (a + 2 + i - 2) % b
        BY <1>1, <3>1, <3>3
      <4>2. a + 2 + i - 2 = a + i /\ a + i \in 0 .. b
        BY <1>1
      <4> QED
        BY <1>1, <4>1, <4>2, ModIs
    <3> QED
      BY <1>1, <3>2, <3>3
  <2> QED
    BY <1>1, <2>1, <2>2
<1>3. \A i \in 1 .. MsgSz : a + i # b
  BY <1>1
<1> QED
  BY <1>1, <1>2, <1>3 DEF b

-----------------------------------------------------------------------------
(***************************************************************************)
(* The operations of the ring.                                             *)
(***************************************************************************)

\* A new buffer.
LEMMA NewRing ==
  ASSUME WholeMessages, NEW pk \in CMbf, NEW cb,
         cb = [state |-> "KS_EXIST", bufsz |-> pk.bufsz, freesz |-> pk.bufsz,
               buf_rp |-> 0, buf_wp |-> 0, mem |-> [a \in 0 .. pk.bufsz |-> 0]]
  PROVE  cb \in Cb /\ RingInv(cb)
<1>1. IsSlot(pk.bufsz) /\ pk.bufsz >= 2 * SlotSz /\ pk.bufsz <= UW_MAX /\ pk.bufsz \in Int
  BY MessageBufferAssumption DEF WholeMessages
<1>2. SlotSz \in Nat /\ SlotSz >= 2 /\ IsSlot(0)
  BY SizeType, SlotsFollow
<1> HIDE DEF SlotSz
<1>3. pk.bufsz \in Nat /\ pk.bufsz >= 4
  BY <1>1, <1>2
<1>4. [a \in 0 .. pk.bufsz |-> 0] \in [0 .. pk.bufsz -> Byte]
  BY DEF Byte
<1>5. cb \in Cb
  BY <1>3, <1>4 DEF Cb
<1>6. \A a \in 0 .. pk.bufsz - 1 : ~(a < 0) /\ ~(0 > 0)
  OBVIOUS
<1> QED
  BY <1>1, <1>2, <1>3, <1>4, <1>5, <1>6 DEF RingInv

\* A message goes into the free slot at buf_wp, and nothing else changes.
LEMMA StoreIs ==
  ASSUME WholeMessages, NEW cb \in Cb, RingInv(cb), NEW m \in Msg, MsgSz \in Byte
  PROVE  LET c == store_msg(cb, m)
         IN  /\ c \in Cb
             /\ c.state = cb.state /\ c.bufsz = cb.bufsz /\ c.buf_rp = cb.buf_rp
             /\ c.freesz = cb.freesz - SlotSz
             /\ c.buf_wp = IF cb.buf_wp + SlotSz = cb.bufsz THEN 0 ELSE cb.buf_wp + SlotSz
             /\ c.mem = [a \in 0 .. cb.bufsz |->
                  IF a - cb.buf_wp \in 1 .. MsgSz THEN m[a - cb.buf_wp]
                  ELSE IF a = cb.buf_wp THEN MsgSz ELSE cb.mem[a]]
             /\ c.mem \in [0 .. cb.bufsz -> Byte]
<1> DEFINE wp == cb.buf_wp
           Written(a) == {i \in 1 .. Len(m) : DataAt(cb, wp, i) = a}
           mem == [a \in 0 .. cb.bufsz |->
                     IF a - wp \in 1 .. MsgSz THEN m[a - wp]
                     ELSE IF a = wp THEN MsgSz ELSE cb.mem[a]]
           c == store_msg(cb, m)
<1>1. /\ Len(m) = MsgSz /\ MsgSz \in Nat \ {0} /\ m \in Seq(Byte)
      /\ SlotSz = MsgSz + 1
  BY SizeType DEF SlotSz
<1>2. cb.bufsz \in Nat /\ cb.freesz \in Int /\ wp \in 0 .. cb.bufsz - 1 /\ IsSlot(wp)
  BY DEF Cb, RingInv
<1>3. /\ wp + SlotSz <= cb.bufsz
      /\ \A i \in 1 .. MsgSz : DataAt(cb, wp, i) = wp + i
      /\ DataAt(cb, wp, MsgSz + 1) = IF wp + SlotSz = cb.bufsz THEN 0 ELSE wp + SlotSz
  BY <1>2, DataIs DEF RingInv
<1> HIDE DEF MsgSz, SlotSz
<1>4. ASSUME NEW a \in 0 .. cb.bufsz
      PROVE  Written(a) = IF a - wp \in 1 .. MsgSz THEN {a - wp} ELSE {}
  BY <1>1, <1>2, <1>3
<1>5. DOMAIN cb.mem = 0 .. cb.bufsz
  BY DEF RingInv
<1>6. c.mem = [a \in DOMAIN cb.mem |->
                 IF Written(a) # {} THEN m[CHOOSE i \in Written(a) : TRUE]
                 ELSE IF a = wp THEN Len(m) ELSE cb.mem[a]]
  BY DEF store_msg, Cb
<1>7. ASSUME NEW a \in 0 .. cb.bufsz
      PROVE  c.mem[a] = mem[a] /\ mem[a] \in Byte
  <2>1. CASE a - wp \in 1 .. MsgSz
    <3>1. Written(a) = {a - wp}
      BY <1>4, <2>1
    <3> HIDE DEF Written
    <3>2. (CHOOSE i \in Written(a) : TRUE) = a - wp
      BY <3>1
    <3>3. Written(a) # {}
      BY <3>1
    <3>4. c.mem[a] = m[a - wp]
      BY <1>5, <1>6, <3>2, <3>3
    <3>5. m[a - wp] \in Byte
      BY <1>1, <2>1
    <3> QED
      BY <2>1, <3>4, <3>5
  <2>2. CASE a - wp \notin 1 .. MsgSz
    <3>1. Written(a) = {}
      BY <1>4, <2>2
    <3> HIDE DEF Written
    <3>2. c.mem[a] = IF a = wp THEN MsgSz ELSE cb.mem[a]
      BY <1>1, <1>5, <1>6, <3>1
    <3>3. cb.mem[a] \in Byte
      BY DEF RingInv
    <3> QED
      BY <2>2, <3>2, <3>3
  <2> QED
    BY <2>1, <2>2
<1>8. c.mem = mem
  <2>1. c.mem = [a \in 0 .. cb.bufsz |-> c.mem[a]]
    BY <1>5, <1>6
  <2> QED
    BY <1>7, <2>1
<1>9. c.mem \in [0 .. cb.bufsz -> Byte]
  BY <1>7, <1>8
<1>10. PICK new, end :
         /\ c = [cb EXCEPT !.mem = new, !.freesz = @ - Taken(Len(m)), !.buf_wp = end]
         /\ end = DataAt(cb, wp, Len(m) + 1)
  BY Zenon DEF store_msg
<1> HIDE DEF c, mem, wp
<1>11. /\ c.state = cb.state /\ c.bufsz = cb.bufsz /\ c.buf_rp = cb.buf_rp
       /\ c.freesz = cb.freesz - (Len(m) + 1)
       /\ c.buf_wp = end /\ c.mem = new
  BY <1>10 DEF Cb, Taken
<1>12. c.mem \in UNION {[0 .. n -> Byte] : n \in Nat}
  BY <1>2, <1>9
<1>13. c.freesz \in Int /\ end \in Int
  BY <1>1, <1>2, <1>3, <1>10, <1>11
<1>14. c \in Cb
  BY <1>10, <1>11, <1>12, <1>13 DEF Cb
<1> QED
  BY <1>1, <1>3, <1>8, <1>9, <1>10, <1>11, <1>14 DEF c, mem, wp

\* With two slots free, one is left and the ring is as it should be.
LEMMA StoreRing ==
  ASSUME WholeMessages, NEW cb \in Cb, RingInv(cb), NEW m \in Msg, MsgSz \in Byte,
         cb.freesz >= 2 * SlotSz, NEW c, c = store_msg(cb, m)
  PROVE  /\ c \in Cb /\ RingInv(c)
         /\ c.state = cb.state /\ c.bufsz = cb.bufsz /\ c.freesz = cb.freesz - SlotSz
         /\ c.buf_rp # c.buf_wp
<1> DEFINE wp == cb.buf_wp
           rp == cb.buf_rp
           b == cb.bufsz
<1>1. /\ c \in Cb
      /\ c.state = cb.state /\ c.bufsz = b /\ c.buf_rp = rp
      /\ c.freesz = cb.freesz - SlotSz
      /\ c.buf_wp = IF wp + SlotSz = b THEN 0 ELSE wp + SlotSz
      /\ c.mem = [a \in 0 .. b |->
           IF a - wp \in 1 .. MsgSz THEN m[a - wp]
           ELSE IF a = wp THEN MsgSz ELSE cb.mem[a]]
      /\ c.mem \in [0 .. b -> Byte]
  BY StoreIs
<1>2. /\ MsgSz \in Nat \ {0} /\ SlotSz = MsgSz + 1 /\ SlotSz \in Nat
      /\ m = [i \in 1 .. MsgSz |-> m[i]]
  BY SizeType DEF SlotSz
<1>3. /\ b \in Nat /\ cb.freesz \in Int /\ IsSlot(b) /\ b >= 2 * SlotSz /\ b <= UW_MAX
      /\ rp \in 0 .. b - 1 /\ IsSlot(rp) /\ wp \in 0 .. b - 1 /\ IsSlot(wp)
      /\ cb.freesz = IF rp <= wp THEN b - (wp - rp) ELSE rp - wp
      /\ cb.mem[b] = 0
  BY DEF Cb, RingInv
<1>4. /\ wp + SlotSz <= b /\ rp + SlotSz <= b
      /\ rp < wp => rp + SlotSz <= wp
      /\ wp < rp => wp + SlotSz <= rp
  <2>1. wp < b /\ rp < b
    BY <1>3
  <2> QED
    BY <1>3, <2>1, SlotsApart
<1>5. IsSlot(c.buf_wp)
  <2>1. IsSlot(0) /\ IsSlot(wp + SlotSz)
    BY <1>3, SlotsFollow
  <2> QED
    BY <1>1, <2>1
<1>6. ASSUME NEW a \in 0 .. b - 1, IsSlot(a)
       PROVE  a + SlotSz <= b /\ (a < wp => a + SlotSz <= wp) /\ (wp < a => wp + SlotSz <= a)
  <2>1. a < b
    BY <1>3
  <2> QED
    BY <1>3, <1>6, <2>1, SlotsApart
<1> HIDE DEF MsgSz, SlotSz, wp, rp, b
<1>7. /\ b \in Nat /\ cb.freesz \in Int /\ rp \in 0 .. b - 1 /\ wp \in 0 .. b - 1
       /\ cb.freesz >= 2 * SlotSz
       /\ cb.freesz = IF rp <= wp THEN b - (wp - rp) ELSE rp - wp
  BY <1>3 DEF rp, wp, b
<1>8. /\ c.freesz = IF c.buf_rp <= c.buf_wp THEN c.bufsz - (c.buf_wp - c.buf_rp)
                    ELSE c.buf_rp - c.buf_wp
      /\ c.freesz >= SlotSz
      /\ c.buf_rp # c.buf_wp
  <2>1. c.bufsz = b /\ c.buf_rp = rp /\ c.freesz = cb.freesz - SlotSz
        /\ c.buf_wp = IF wp + SlotSz = b THEN 0 ELSE wp + SlotSz
    BY <1>1
  <2>2. /\ b \in Int /\ rp \in Int /\ wp \in Int /\ SlotSz \in Int /\ SlotSz >= 1
        /\ 0 <= rp /\ rp < b /\ 0 <= wp /\ wp < b
    BY <1>2, <1>7
  <2>3. CASE wp + SlotSz = b
    <3>1. c.buf_wp = 0
      BY <2>1, <2>3
    <3> QED
      BY <1>4, <1>7, <2>1, <2>2, <2>3, <3>1
  <2>4. CASE wp + SlotSz # b
    <3>1. c.buf_wp = wp + SlotSz
      BY <2>1, <2>4
    <3> QED
      BY <1>4, <1>7, <2>1, <2>2, <2>4, <3>1
  <2> QED
    BY <2>3, <2>4
<1>9. c.buf_wp \in 0 .. b - 1
  <2>1. c.buf_wp = IF wp + SlotSz = b THEN 0 ELSE wp + SlotSz
    BY <1>1
  <2>2. SlotSz \in Nat
    BY <1>2
  <2> QED
    BY <1>4, <1>7, <2>1, <2>2
<1>10. c.mem[b] = 0
  <2>1. b \in 0 .. b /\ b - wp \notin 1 .. MsgSz /\ b # wp
    BY <1>2, <1>4, <1>7
  <2>2. c.mem[b] = cb.mem[b]
    BY <1>1, <2>1
  <2> QED
    BY <1>3, <2>2
<1>11. ASSUME NEW a \in 0 .. b - 1, IsSlot(a), a # wp, Holding(cb, a) PROVE Holding(c, a)
  <2>1. a + SlotSz <= b /\ (a + SlotSz <= wp \/ wp + SlotSz <= a)
    BY <1>6, <1>7, <1>11
  <2>2. c.mem[a] = cb.mem[a]
    <3>1. a \in 0 .. b /\ a - wp \notin 1 .. MsgSz
      BY <1>2, <1>7, <2>1
    <3>2. a # wp
      BY <1>11
    <3> QED
      BY <1>1, <3>1, <3>2
  <2>3. ASSUME NEW i \in 1 .. MsgSz PROVE c.mem[a + i] = cb.mem[a + i]
    <3>1. /\ a \in Int /\ b \in Int /\ wp \in Int /\ i \in Int /\ MsgSz \in Int
          /\ 0 <= a /\ 0 <= wp /\ 1 <= i /\ i <= MsgSz /\ SlotSz = MsgSz + 1
      BY <1>2, <1>7
    <3>2. /\ a + i \in Int /\ 0 <= a + i /\ a + i <= b
          /\ (a + i < wp \/ a + i > wp + MsgSz)
      BY <2>1, <3>1
    <3>3. a + i \in 0 .. b /\ (a + i) - wp \notin 1 .. MsgSz /\ a + i # wp
      BY <3>1, <3>2
    <3> QED
      BY <1>1, <3>3
  <2>4. MsgIn(c, a) = MsgIn(cb, a)
    BY <2>3 DEF MsgIn
  <2> QED
    BY <1>11, <2>2, <2>4 DEF Holding
<1>12. Holding(c, wp)
  <2>1. wp + SlotSz <= b
    BY <1>4
  <2>2. c.mem[wp] = MsgSz
    <3>1. wp \in 0 .. b /\ wp - wp \notin 1 .. MsgSz
      BY <1>2, <1>7
    <3> QED
      BY <1>1, <3>1
  <2>3. ASSUME NEW i \in 1 .. MsgSz PROVE c.mem[wp + i] = m[i]
    <3>1. wp + i \in 0 .. b /\ (wp + i) - wp = i
      BY <1>2, <1>7, <2>1
    <3> QED
      BY <1>1, <3>1
  <2>4. MsgIn(c, wp) = m
    BY <1>2, <2>3 DEF MsgIn
  <2> QED
    BY <2>2, <2>4 DEF Holding
<1>13. ASSUME NEW a \in 0 .. b - 1, IsSlot(a), a < c.buf_wp \/ c.buf_rp > c.buf_wp
       PROVE  Holding(c, a)
  <2>1. a = wp \/ a < wp \/ rp > wp
    <3>1. /\ c.buf_rp = rp /\ c.buf_wp = IF wp + SlotSz = b THEN 0 ELSE wp + SlotSz
          /\ wp < a => wp + SlotSz <= a
      BY <1>1, <1>6, <1>13
    <3> QED
      BY <1>2, <1>4, <1>7, <1>13, <3>1
  <2>2. a # wp => Holding(cb, a)
    BY <1>13, <2>1 DEF RingInv, wp, rp, b
  <2> QED
    BY <1>11, <1>12, <1>13, <2>2
<1> QED
  BY <1>1, <1>3, <1>5, <1>8, <1>9, <1>10, <1>13 DEF RingInv, wp, rp, b

\* A message comes out of the slot at buf_rp.
LEMMA RetrieveRing ==
  ASSUME WholeMessages, NEW cb \in Cb, RingInv(cb), cb.buf_rp # cb.buf_wp,
         NEW c, c = Retrieved(cb)
  PROVE  /\ c \in Cb /\ RingInv(c)
         /\ c.state = cb.state /\ c.bufsz = cb.bufsz /\ c.freesz = cb.freesz + SlotSz
         /\ MsgAt(cb, cb.buf_rp) \in Msg
<1> DEFINE wp == cb.buf_wp
           rp == cb.buf_rp
           b == cb.bufsz
<1>1. MsgSz \in Nat \ {0} /\ SlotSz = MsgSz + 1 /\ SlotSz \in Nat
  BY SizeType DEF SlotSz
<1>2. /\ b \in Nat /\ cb.freesz \in Int /\ IsSlot(b) /\ b >= 2 * SlotSz /\ b <= UW_MAX
      /\ rp \in 0 .. b - 1 /\ IsSlot(rp) /\ wp \in 0 .. b - 1 /\ IsSlot(wp)
      /\ cb.freesz = IF rp <= wp THEN b - (wp - rp) ELSE rp - wp
      /\ cb.freesz >= SlotSz
      /\ cb.mem \in [0 .. b -> Byte] /\ cb.mem[b] = 0
  BY DEF Cb, RingInv
<1>3. /\ \A i \in 1 .. MsgSz : DataAt(cb, rp, i) = rp + i
      /\ DataAt(cb, rp, MsgSz + 1) = IF rp + SlotSz = b THEN 0 ELSE rp + SlotSz
      /\ rp + SlotSz <= b
  BY <1>2, DataIs
<1>4. rp < wp => rp + SlotSz <= wp
  BY <1>2, SlotsApart
<1>5. wp < rp => wp + SlotSz <= rp
  BY <1>2, SlotsApart
<1>6. Holding(cb, rp)
  <2>1. rp < wp \/ rp > wp
    BY <1>2
  <2> QED
    BY <1>2, <2>1 DEF RingInv
<1>7. MsgAt(cb, rp) = MsgIn(cb, rp)
  BY <1>3, <1>6 DEF MsgAt, MsgIn, Holding
<1>8. cb.mem[rp] = MsgSz
  BY <1>6 DEF Holding
<1>9. /\ c.state = cb.state /\ c.bufsz = b /\ c.buf_wp = wp /\ c.mem = cb.mem
      /\ c.freesz = cb.freesz + (cb.mem[rp] + 1)
      /\ c.buf_rp = DataAt(cb, rp, cb.mem[rp] + 1)
      /\ c = [state |-> c.state, bufsz |-> c.bufsz, freesz |-> c.freesz,
              buf_rp |-> c.buf_rp, buf_wp |-> c.buf_wp, mem |-> c.mem]
  BY DEF Retrieved, Cb, Taken
<1>10. /\ c.freesz = cb.freesz + SlotSz
       /\ c.buf_rp = IF rp + SlotSz = b THEN 0 ELSE rp + SlotSz
  BY <1>1, <1>3, <1>8, <1>9
<1>11. IsSlot(c.buf_rp)
  BY <1>2, <1>10, SlotsFollow
<1>12. cb.state \in {"KS_NONEXIST", "KS_EXIST"}
  BY DEF Cb
<1> HIDE DEF MsgSz, SlotSz, wp, rp, b
<1>13. /\ b \in Nat /\ cb.freesz \in Int /\ rp \in 0 .. b - 1 /\ wp \in 0 .. b - 1
       /\ rp # wp /\ cb.freesz >= SlotSz
       /\ cb.freesz = IF rp <= wp THEN b - (wp - rp) ELSE rp - wp
  BY <1>2 DEF rp, wp, b
<1>14. c.freesz \in Int /\ c.buf_rp \in Int
  BY <1>1, <1>10, <1>13
<1>15. c.mem \in UNION {[0 .. n -> Byte] : n \in Nat}
  BY <1>2, <1>9
<1>16. c \in Cb
  BY <1>9, <1>12, <1>13, <1>14, <1>15 DEF Cb
<1>17. /\ c.buf_rp \in 0 .. b - 1
       /\ c.freesz = IF c.buf_rp <= c.buf_wp THEN b - (c.buf_wp - c.buf_rp)
                     ELSE c.buf_rp - c.buf_wp
       /\ c.freesz >= SlotSz
  <2>1. c.buf_wp = wp
    BY <1>9
  <2> QED
    BY <1>1, <1>3, <1>4, <1>5, <1>10, <1>13, <2>1
<1>18. ASSUME NEW a \in 0 .. b - 1, IsSlot(a), a < c.buf_wp \/ c.buf_rp > c.buf_wp
       PROVE  Holding(c, a)
  <2>1. a < wp \/ rp > wp
    <3>1. c.buf_wp = wp
      BY <1>9
    <3> QED
      BY <1>1, <1>3, <1>4, <1>5, <1>10, <1>13, <1>18, <3>1
  <2>2. Holding(cb, a)
    BY <1>18, <2>1 DEF RingInv, wp, rp, b
  <2> QED
    BY <1>9, <2>2 DEF Holding, MsgIn
<1> QED
  BY <1>2, <1>6, <1>7, <1>9, <1>10, <1>11, <1>16, <1>17, <1>18 DEF RingInv, Holding, wp, rp, b

-----------------------------------------------------------------------------
(***************************************************************************)
(* The kernel's invariant.                                                 *)
(***************************************************************************)
KInv == Inv /\ OwnFrame

LEMMA NothingKernel ==
  ASSUME KInv, UNCHANGED << tcb, queues, sche_task, pend_sv >>, UNCHANGED << dispatcher, timer >>
  PROVE  KInv'
<1>1. UNCHANGED vars
  BY DEF vars
<1> QED
  BY <1>1, NextInv, NextOwnFrame DEF KInv

\* A wait for a buffer begins.
LEMMA WaitKernel ==
  ASSUME KInv, InTask, UNCHANGED << dispatcher, timer >>,
         NEW fct \in {"TWFCT_MBFS", "TWFCT_MBFR"}, NEW tmout \in MbfTmo,
         enter_wait(fct, WaitTim(tmout))
  PROVE  KInv'
<1>1. tmout \in Int /\ tmout + TIMER_PERIOD \in Int
  BY MessageBufferAssumption, KernelAssumption
<1>2. WaitTim(tmout) \in 0 .. UW_MAX
  BY <1>1, UWType DEF WaitTim
<1>3. fct \in WaiFct
  BY DEF WaiFct
<1>4. Inv'
  BY <1>2, <1>3, EnterWaitInv DEF KInv
<1> QED
  BY <1>4, CallerIsTop, EnterWaitOwnFrame DEF KInv

\* A call for a buffer succeeds at once.
LEMMA ReturnKernel ==
  ASSUME KInv, InTask, UNCHANGED << dispatcher, timer >>, returns_ok
  PROVE  KInv'
<1>1. cur_task \in Task
  BY CallerIsTop DEF KInv
<1>2. err' \in [Task -> {"E_OK", "E_TMOUT"}]
  BY DEF returns_ok, KInv, Inv, TypeOK
<1>3. Inv'
  BY <1>2, ResultInv DEF returns_ok, KInv
<1>4. OwnFrame'
  BY <1>1, ResultOwnFrame DEF returns_ok, KInv
<1> QED
  BY <1>3, <1>4 DEF KInv

\* A wait for a buffer ends.
LEMMA ReleaseKernel ==
  ASSUME KInv, InTask, UNCHANGED << dispatcher, timer >>, NEW t \in Task,
         release(t), scheduler, UNCHANGED waierr, err' = [err EXCEPT ![cur_task] = "E_OK"]
  PROVE  KInv'
<1>1. err' \in [Task -> {"E_OK", "E_TMOUT"}] /\ \A u \in Task : err'[u] \in {err[u], "E_OK"}
  BY DEF KInv, Inv, TypeOK
<1>2. Inv'
  BY <1>1, ReleaseInv DEF KInv, Inv, TypeOK, InTask, Running
<1> QED
  BY <1>1, <1>2, ReleaseOwnFrame DEF KInv

\* The result of a receive is written into the receiver's own frame, where
\* E_OK is already.
LEMMA OwnResult ==
  ASSUME KInv, NEW t \in Task, state[t] = "TS_WAIT",
         err' = [err EXCEPT ![waierr[t]] = "E_OK", ![cur_task] = "E_OK"]
  PROVE  err' = [err EXCEPT ![cur_task] = "E_OK"]
  BY DEF KInv, OwnFrame, Inv, TypeOK

LEMMA MbfNextKernel == KInv /\ [MbfNext]_allvars => KInv'
<1> SUFFICES ASSUME KInv, [MbfNext]_allvars PROVE KInv'
  OBVIOUS
<1>1. CASE UNCHANGED allvars
  BY <1>1, NothingKernel DEF allvars, vars
<1>2. CASE KernelStep
  BY <1>2, NextInv, NextOwnFrame DEF KernelStep, KInv
<1>3. CASE TaskCreatesMbf
  BY <1>3, NothingKernel DEF TaskCreatesMbf, tk_cre_mbf
<1>4. CASE TaskSends
  <2> SUFFICES ASSUME InTask, UNCHANGED << dispatcher, timer >>,
                      NEW m \in Mbf, NEW message \in Msg, NEW tmout \in MbfTmo,
                      tk_snd_mbf(m, message, tmout)
               PROVE  KInv'
    BY <1>4 DEF TaskSends
  <2>1. ASSUME NEW t \in Task, FirstReceiver(t, m), release(t),
               err' = [err EXCEPT ![waierr[t]] = "E_OK", ![cur_task] = "E_OK"],
               scheduler, UNCHANGED waierr
        PROVE  KInv'
    BY <2>1, OwnResult, ReleaseKernel DEF FirstReceiver, FirstWaiter, WaitsFor
  <2> QED
    BY <2>1, ReturnKernel, WaitKernel DEF tk_snd_mbf, wait_for
<1>5. CASE TaskReceives
  BY <1>5, ReturnKernel, WaitKernel, ReleaseKernel DEF TaskReceives, tk_rcv_mbf, wait_for
<1> QED
  BY <1>1, <1>2, <1>3, <1>4, <1>5 DEF MbfNext

THEOREM MbfKernelInvariance == MbfSpec => []KInv
<1>1. MbfInit => KInv
  BY InitInv DEF MbfInit, Init, KInv, OwnFrame
<1> QED
  BY <1>1, MbfNextKernel, PTL DEF MbfSpec, allvars

\* Waits for messages and for room keep the queues right too
\* (messagebuf.c:84-131, 139-186).
THEOREM MbfQueuesMatch == MbfSpec => []QueuesMatchState
  BY MbfKernelInvariance, PTL DEF KInv, Inv

\* ... and what runs is what should run (messagebuf.c:111, 131, 167, 186).
THEOREM MbfTopRuns == MbfSpec => []RunsTheTop
  BY MbfKernelInvariance, InvRunsTop, PTL DEF KInv

-----------------------------------------------------------------------------
(***************************************************************************)
(* The buffers and those who wait for them.                                *)
(***************************************************************************)
RingsInv ==
  /\ mbfcb \in [Mbf -> Cb]
  /\ \A m \in Mbf :
       IF Exists(m) THEN RingInv(mbfcb[m]) /\ MsgSz \in Byte
       ELSE mbfcb[m].freesz = 0 /\ mbfcb[m].bufsz = 0 /\ mbfcb[m].mem[0] = 0

BoxesInv ==
  /\ waiobj \in [Task -> Mbf \cup {NULL}]
  /\ msg \in [Task -> Msg \cup {<< >>}]
  /\ received \in [Task -> Msg \cup {<< >>}]

\* Receivers wait at an empty buffer, senders at one that is not, with their
\* messages.
WaitersInv ==
  \A t \in Task, m \in Mbf :
    /\ WaitsFor(t, "TWFCT_MBFR", m) => mbfcb[m].freesz = mbfcb[m].bufsz
    /\ WaitsFor(t, "TWFCT_MBFS", m) => mbfcb[m].freesz < mbfcb[m].bufsz /\ msg[t] \in Msg

MInv == KInv /\ RingsInv /\ BoxesInv /\ WaitersInv

\* Of the tasks that wait for m, one is the first.
LEMMA SomebodyIsFirst ==
  ASSUME TypeOK, QueuesMatchState, NEW fct, NEW m, NEW t \in Task, WaitsFor(t, fct, m)
  PROVE  \E u \in Task : FirstWaiter(u, fct, m)
<1> DEFINE T == {i \in 1 .. Len(wait_queue) : WaitsFor(wait_queue[i], fct, m)}
<1>1. wait_queue \in Seq(Task) /\ Len(wait_queue) \in Nat
  BY DEF TypeOK
<1>2. T \subseteq Nat /\ T # {}
  <2>1. \E i \in 1 .. Len(wait_queue) : wait_queue[i] = t
    BY DEF QueuesMatchState, Lists, WaitsFor
  <2> QED
    BY <1>1, <2>1
<1>3. PICK i \in T : \A j \in T : ~(<< j, i >> \in OpToRel(<, Nat))
  BY <1>2, NatLessThanWellFounded, WFMin, Zenon
<1>4. i \in 1 .. Len(wait_queue) /\ WaitsFor(wait_queue[i], fct, m)
  OBVIOUS
<1>5. ASSUME NEW j \in 1 .. i - 1 PROVE ~WaitsFor(wait_queue[j], fct, m)
  <2>1. j \in 1 .. Len(wait_queue) /\ j \in Nat /\ i \in Nat /\ j < i
    BY <1>1, <1>4
  <2> QED
    BY <1>3, <2>1 DEF OpToRel
<1>6. wait_queue[i] \in Task
  BY <1>1, <1>4
<1> QED
  BY <1>4, <1>5, <1>6 DEF FirstWaiter

\* An entry of the table that becomes a good buffer.
LEMMA RingsChange ==
  ASSUME RingsInv, NEW m \in Mbf, NEW c \in Cb, c.state = "KS_EXIST", RingInv(c), MsgSz \in Byte,
         mbfcb' = [mbfcb EXCEPT ![m] = c]
  PROVE  RingsInv' /\ mbfcb'[m] = c /\ \A n \in Mbf : n # m => mbfcb'[n] = mbfcb[n]
<1>1. /\ mbfcb' \in [Mbf -> Cb] /\ mbfcb'[m] = c
      /\ \A n \in Mbf : n # m => mbfcb'[n] = mbfcb[n]
  BY DEF RingsInv
<1>2. ASSUME NEW n \in Mbf
      PROVE  IF mbfcb'[n].state = "KS_EXIST" THEN RingInv(mbfcb'[n]) /\ MsgSz \in Byte
             ELSE mbfcb'[n].freesz = 0 /\ mbfcb'[n].bufsz = 0 /\ mbfcb'[n].mem[0] = 0
  <2>1. CASE n = m
    BY <1>1, <2>1
  <2>2. CASE n # m
    BY <1>1, <2>2 DEF RingsInv, Exists
  <2> QED
    BY <2>1, <2>2
<1> QED
  BY <1>1, <1>2 DEF RingsInv, Exists, RingInv, Holding, MsgIn

\* Room for one message is room for two slots: the comparison is strict, and
\* all sizes are whole slots.  Without it the buffer is not empty.
LEMMA RoomIs ==
  ASSUME WholeMessages, NEW cb \in Cb, RingInv(cb)
  PROVE  /\ cb.freesz <= cb.bufsz /\ cb.freesz \in Nat /\ cb.bufsz \in Nat
         /\ cb.freesz = cb.bufsz <=> cb.buf_rp = cb.buf_wp
         /\ HasRoom(cb, MsgSz) => cb.freesz >= 2 * SlotSz
         /\ ~HasRoom(cb, MsgSz) => cb.freesz < cb.bufsz
<1> DEFINE wp == cb.buf_wp
           rp == cb.buf_rp
           b == cb.bufsz
           f == cb.freesz
<1>1. /\ b \in Nat /\ f \in Int /\ IsSlot(b) /\ b >= 2 * SlotSz /\ b <= UW_MAX
      /\ rp \in 0 .. b - 1 /\ IsSlot(rp) /\ wp \in 0 .. b - 1 /\ IsSlot(wp)
      /\ f = IF rp <= wp THEN b - (wp - rp) ELSE rp - wp
      /\ f >= SlotSz
  BY DEF Cb, RingInv
<1>2. SlotSz = MsgSz + 1 /\ SlotSz \in Nat /\ SlotSz >= 2 /\ IsSlot(0) /\ IsSlot(wp + SlotSz)
  BY <1>1, SizeType, SlotsFollow DEF SlotSz
<1>3. wp < b /\ rp < b
  BY <1>1
<1>4. /\ wp + SlotSz <= b
      /\ wp < rp => wp + SlotSz <= rp
      /\ 0 < rp => 0 + SlotSz <= rp
      /\ wp + SlotSz < b => wp + SlotSz + SlotSz <= b
      /\ wp + SlotSz < rp => wp + SlotSz + SlotSz <= rp
  BY <1>1, <1>2, <1>3, SlotsApart
<1>5. HasRoom(cb, MsgSz) <=> f % (UW_MAX + 1) > SlotSz % (UW_MAX + 1)
  BY <1>2 DEF HasRoom, UW, Taken
<1> HIDE DEF wp, rp, b, f, MsgSz, SlotSz
<1>6. /\ b \in Int /\ f \in Int /\ rp \in Int /\ wp \in Int /\ SlotSz \in Int /\ SlotSz >= 2
      /\ 0 <= rp /\ rp < b /\ 0 <= wp /\ wp < b /\ b >= 2 * SlotSz /\ b <= UW_MAX
  BY <1>1, <1>2
<1>7. f = IF rp <= wp THEN b - (wp - rp) ELSE rp - wp
  BY <1>1
<1>8. f <= b /\ f >= SlotSz /\ (f = b <=> rp = wp)
  BY <1>1, <1>6, <1>7
<1>9. HasRoom(cb, MsgSz) <=> f > SlotSz
  <2>1. UW_MAX + 1 \in Nat \ {0} /\ f \in 0 .. UW_MAX + 1 /\ SlotSz \in 0 .. UW_MAX + 1
        /\ f # UW_MAX + 1 /\ SlotSz # UW_MAX + 1
    BY <1>6, <1>8, KernelAssumption
  <2>2. f % (UW_MAX + 1) = f /\ SlotSz % (UW_MAX + 1) = SlotSz
    BY <2>1, ModIs
  <2> QED
    BY <1>5, <2>2
<1>10. f > SlotSz => f >= 2 * SlotSz
  BY <1>4, <1>6, <1>7
<1>11. ~(f > SlotSz) => f < b
  BY <1>6, <1>8
<1> QED
  BY <1>6, <1>8, <1>9, <1>10, <1>11 DEF wp, rp, b, f

\* Steps that begin no wait, and leave the room of each buffer and the messages
\* of those who wait.
LEMMA WaitersStay ==
  ASSUME WaitersInv,
         \A t \in Task, m \in Mbf, fct \in {"TWFCT_MBFR", "TWFCT_MBFS"} :
           WaitsFor(t, fct, m)' => WaitsFor(t, fct, m),
         \A m \in Mbf : mbfcb'[m].freesz = mbfcb[m].freesz /\ mbfcb'[m].bufsz = mbfcb[m].bufsz,
         msg' = msg
  PROVE  WaitersInv'
  BY DEF WaitersInv

\* What enter_wait and release do to the waits for buffers.
LEMMA WaitBegins ==
  ASSUME KInv, InTask, NEW f, NEW tim, NEW n, enter_wait(f, tim),
         waiobj \in [Task -> Mbf \cup {NULL}], waiobj' = [waiobj EXCEPT ![cur_task] = n],
         NEW t \in Task, NEW fct, NEW m, WaitsFor(t, fct, m)'
  PROVE  (t # cur_task /\ WaitsFor(t, fct, m)) \/ (t = cur_task /\ fct = f /\ m = n)
<1>1. cur_task \in Task
  BY CallerIsTop DEF KInv
<1> QED
  BY <1>1 DEF WaitsFor, enter_wait, KInv, Inv, TypeOK

LEMMA WaitOver ==
  ASSUME KInv, NEW u \in Task, release(u), waiobj' = waiobj,
         NEW t \in Task, NEW fct, NEW m, WaitsFor(t, fct, m)'
  PROVE  WaitsFor(t, fct, m)
  BY DEF WaitsFor, release, KInv, Inv, TypeOK

\* The calls of tk_snd_mbf and tk_rcv_mbf that find what they need.
LEMMA SendInv ==
  ASSUME WholeMessages, MInv, KInv', InTask, NEW m \in Mbf, NEW message \in Msg, Exists(m),
         HasRoom(mbfcb[m], Len(message)), UNCHANGED << waiobj, msg >>,
         NEW cb, cb = store_msg(mbfcb[m], message),
         \/ \E t \in Task :
              /\ FirstReceiver(t, m)
              /\ received' = [received EXCEPT ![t] = MsgAt(cb, cb.buf_rp)]
              /\ mbfcb' = [mbfcb EXCEPT ![m] = Retrieved(cb)]
              /\ release(t)
         \/ /\ \A t \in Task : ~FirstReceiver(t, m)
            /\ mbfcb' = [mbfcb EXCEPT ![m] = cb]
            /\ UNCHANGED << state, waifct, received >>
  PROVE  MInv'
<1>1. mbfcb[m] \in Cb /\ RingInv(mbfcb[m]) /\ MsgSz \in Byte /\ mbfcb[m].state = "KS_EXIST"
  BY DEF MInv, RingsInv, Exists
<1>2. /\ Len(message) = MsgSz
      /\ mbfcb[m].freesz >= 2 * SlotSz /\ mbfcb[m].freesz \in Nat
      /\ mbfcb[m].freesz <= mbfcb[m].bufsz /\ mbfcb[m].bufsz \in Nat
      /\ SlotSz \in Nat /\ SlotSz >= 2
  BY <1>1, SizeType, RoomIs
<1>3. /\ cb \in Cb /\ RingInv(cb) /\ cb.state = "KS_EXIST" /\ cb.bufsz = mbfcb[m].bufsz
      /\ cb.freesz = mbfcb[m].freesz - SlotSz /\ cb.buf_rp # cb.buf_wp
  BY <1>1, <1>2, StoreRing
<1>4. ASSUME NEW t \in Task, release(t),
             received' = [received EXCEPT ![t] = MsgAt(cb, cb.buf_rp)],
             mbfcb' = [mbfcb EXCEPT ![m] = Retrieved(cb)]
      PROVE  MInv'
  <2>1. PICK c : c = Retrieved(cb)
    OBVIOUS
  <2>2. /\ c \in Cb /\ RingInv(c) /\ c.state = cb.state /\ c.bufsz = cb.bufsz
        /\ c.freesz = cb.freesz + SlotSz /\ MsgAt(cb, cb.buf_rp) \in Msg
    BY <1>3, <2>1, RetrieveRing
  <2>3. RingsInv' /\ mbfcb'[m] = c /\ \A n \in Mbf : n # m => mbfcb'[n] = mbfcb[n]
    <3>1. c.state = "KS_EXIST"
      BY <1>3, <2>2
    <3>2. mbfcb' = [mbfcb EXCEPT ![m] = c]
      BY <1>4, <2>1, Zenon
    <3>3. c \in Cb /\ RingInv(c)
      BY <2>2, Zenon
    <3> QED
      BY <1>1, <3>1, <3>2, <3>3, RingsChange DEF MInv
  <2>4. BoxesInv'
    BY <1>4, <2>2 DEF MInv, BoxesInv
  <2>5. c.freesz = mbfcb[m].freesz /\ c.bufsz = mbfcb[m].bufsz
    BY <1>2, <1>3, <2>2
  <2>6. \A n \in Mbf : mbfcb'[n].freesz = mbfcb[n].freesz /\ mbfcb'[n].bufsz = mbfcb[n].bufsz
    BY <2>3, <2>5
  <2>7. WaitersInv'
    BY <1>4, <2>6, WaitersStay, WaitOver DEF MInv
  <2> QED
    BY <2>3, <2>4, <2>7 DEF MInv
<1>5. ASSUME \A t \in Task : ~FirstReceiver(t, m), mbfcb' = [mbfcb EXCEPT ![m] = cb],
             UNCHANGED << state, waifct, received >>
      PROVE  MInv'
  <2>1. RingsInv' /\ mbfcb'[m] = cb /\ \A n \in Mbf : n # m => mbfcb'[n] = mbfcb[n]
    BY <1>1, <1>3, <1>5, RingsChange DEF MInv
  <2>2. BoxesInv'
    BY <1>5 DEF MInv, BoxesInv
  <2>3. \A t \in Task : ~WaitsFor(t, "TWFCT_MBFR", m)
    BY <1>5, SomebodyIsFirst DEF MInv, KInv, Inv, FirstReceiver
  <2>4. \A t \in Task : \A fct, n : WaitsFor(t, fct, n)' => WaitsFor(t, fct, n)
    BY <1>5 DEF WaitsFor
  <2>5. cb.freesz < cb.bufsz
    BY <1>2, <1>3
  <2>6. WaitersInv'
    BY <2>1, <2>3, <2>4, <2>5 DEF MInv, WaitersInv
  <2> QED
    BY <2>1, <2>2, <2>6 DEF MInv
<1> QED
  BY <1>4, <1>5

LEMMA ReceiveInv ==
  ASSUME WholeMessages, MInv, KInv', InTask, NEW m \in Mbf, Exists(m),
         mbfcb[m].buf_rp # mbfcb[m].buf_wp, UNCHANGED << waiobj, msg >>,
         received' = [received EXCEPT ![cur_task] = MsgAt(mbfcb[m], mbfcb[m].buf_rp)],
         NEW cb, cb = Retrieved(mbfcb[m]),
         \/ \E t \in Task :
              /\ FirstSender(t, m)
              /\ mbfcb' = [mbfcb EXCEPT ![m] = store_msg(cb, msg[t])]
              /\ release(t)
         \/ /\ \A t \in Task : FirstSender(t, m) => ~Fits(cb, Len(msg[t]))
            /\ mbfcb' = [mbfcb EXCEPT ![m] = cb]
            /\ UNCHANGED << state, waifct >>
  PROVE  MInv'
<1>1. mbfcb[m] \in Cb /\ RingInv(mbfcb[m]) /\ MsgSz \in Byte /\ mbfcb[m].state = "KS_EXIST"
  BY DEF MInv, RingsInv, Exists
<1>2. /\ mbfcb[m].freesz < mbfcb[m].bufsz /\ mbfcb[m].freesz \in Nat /\ mbfcb[m].bufsz \in Nat
      /\ mbfcb[m].freesz >= SlotSz /\ SlotSz = MsgSz + 1 /\ MsgSz \in Nat
  <2>1. mbfcb[m].freesz <= mbfcb[m].bufsz /\ mbfcb[m].freesz # mbfcb[m].bufsz
    BY <1>1, RoomIs
  <2>2. mbfcb[m].freesz \in Nat /\ mbfcb[m].bufsz \in Nat
    BY <1>1, RoomIs
  <2>3. mbfcb[m].freesz >= SlotSz
    BY <1>1 DEF RingInv
  <2> QED
    BY <2>1, <2>2, <2>3, SizeType DEF SlotSz
<1>3. /\ cb \in Cb /\ RingInv(cb) /\ cb.state = "KS_EXIST" /\ cb.bufsz = mbfcb[m].bufsz
      /\ cb.freesz = mbfcb[m].freesz + SlotSz /\ MsgAt(mbfcb[m], mbfcb[m].buf_rp) \in Msg
  BY <1>1, RetrieveRing
<1>4. BoxesInv'
  BY <1>3, CallerIsTop DEF MInv, BoxesInv, KInv
<1> HIDE DEF SlotSz, MsgSz
<1>5. cb.freesz >= 2 * SlotSz /\ cb.freesz >= MsgSz
  BY <1>2, <1>3
<1>6. ASSUME NEW t \in Task, FirstSender(t, m), release(t),
             mbfcb' = [mbfcb EXCEPT ![m] = store_msg(cb, msg[t])]
      PROVE  MInv'
  <2>1. PICK c : c = store_msg(cb, msg[t])
    OBVIOUS
  <2>2. msg[t] \in Msg
    BY <1>6 DEF FirstSender, FirstWaiter, MInv, WaitersInv
  <2>3. /\ c \in Cb /\ RingInv(c) /\ c.state = cb.state /\ c.bufsz = cb.bufsz
        /\ c.freesz = cb.freesz - SlotSz
    BY <1>1, <1>3, <1>5, <2>1, <2>2, StoreRing
  <2>4. RingsInv' /\ mbfcb'[m] = c /\ \A n \in Mbf : n # m => mbfcb'[n] = mbfcb[n]
    <3>1. c.state = "KS_EXIST"
      BY <1>3, <2>3
    <3>2. mbfcb' = [mbfcb EXCEPT ![m] = c]
      BY <1>6, <2>1, Zenon
    <3>3. c \in Cb /\ RingInv(c)
      BY <2>3, Zenon
    <3> QED
      BY <1>1, <3>1, <3>2, <3>3, RingsChange DEF MInv
  <2>5. c.freesz = mbfcb[m].freesz /\ c.bufsz = mbfcb[m].bufsz
    BY <1>2, <1>3, <2>3
  <2>6. \A n \in Mbf : mbfcb'[n].freesz = mbfcb[n].freesz /\ mbfcb'[n].bufsz = mbfcb[n].bufsz
    BY <2>4, <2>5
  <2>7. WaitersInv'
    BY <1>6, <2>6, WaitersStay, WaitOver DEF MInv
  <2> QED
    BY <1>4, <2>4, <2>7 DEF MInv
<1>7. ASSUME \A t \in Task : FirstSender(t, m) => ~Fits(cb, Len(msg[t])),
             mbfcb' = [mbfcb EXCEPT ![m] = cb], UNCHANGED << state, waifct >>
      PROVE  MInv'
  <2>1. RingsInv' /\ mbfcb'[m] = cb /\ \A n \in Mbf : n # m => mbfcb'[n] = mbfcb[n]
    BY <1>1, <1>3, <1>7, RingsChange DEF MInv
  <2>2. ASSUME NEW t \in Task, WaitsFor(t, "TWFCT_MBFS", m) PROVE FALSE
    <3>1. PICK u \in Task : FirstSender(u, m)
      BY <2>2, SomebodyIsFirst DEF MInv, KInv, Inv, FirstSender
    <3>2. msg[u] \in Msg
      BY <3>1 DEF FirstSender, FirstWaiter, MInv, WaitersInv
    <3>3. Len(msg[u]) = MsgSz
      BY <3>2, SizeType
    <3> QED
      BY <1>5, <1>7, <3>1, <3>3 DEF Fits
  <2>3. \A t \in Task : ~WaitsFor(t, "TWFCT_MBFR", m)
    BY <1>2 DEF MInv, WaitersInv
  <2>4. \A t \in Task : \A fct, n : WaitsFor(t, fct, n)' => WaitsFor(t, fct, n)
    BY <1>7 DEF WaitsFor
  <2>5. WaitersInv'
    BY <2>1, <2>2, <2>3, <2>4 DEF MInv, WaitersInv
  <2> QED
    BY <1>4, <2>1, <2>5 DEF MInv
<1> QED
  BY <1>6, <1>7

LEMMA CreateMbfInv ==
  ASSUME WholeMessages, MInv, KInv', NEW pk \in CMbf, tk_cre_mbf(pk)
  PROVE  MInv'
<1> DEFINE new == [state |-> "KS_EXIST", bufsz |-> pk.bufsz, freesz |-> pk.bufsz,
                   buf_rp |-> 0, buf_wp |-> 0, mem |-> [a \in 0 .. pk.bufsz |-> 0]]
<1>1. PICK m \in Mbf : ~Exists(m) /\ mbfcb' = [mbfcb EXCEPT ![m] = new]
  BY DEF tk_cre_mbf
<1>2. UNCHANGED << tcb, waiobj, msg, received >>
  BY DEF tk_cre_mbf
<1>3. new \in Cb /\ RingInv(new)
  BY NewRing
<1>4. MsgSz \in Byte
  <2>1. PICK n \in Msg : Len(n) = MsgSz /\ MsgSz \in Nat
    BY SizeType DEF WholeMessages
  <2>2. Len(n) <= pk.maxmsz /\ pk.maxmsz \in Int
    BY MessageBufferAssumption
  <2>3. pk.maxmsz < 256
    BY DEF tk_cre_mbf
  <2> HIDE DEF MsgSz
  <2> QED
    BY <2>1, <2>2, <2>3 DEF Byte
<1>5. new.state = "KS_EXIST" /\ new.freesz = new.bufsz
  OBVIOUS
<1> HIDE DEF new
<1>6. RingsInv' /\ mbfcb'[m] = new /\ \A n \in Mbf : n # m => mbfcb'[n] = mbfcb[n]
  BY <1>1, <1>3, <1>4, <1>5, RingsChange DEF MInv
<1>7. BoxesInv'
  BY <1>2 DEF MInv, BoxesInv
<1>8. \A t \in Task : ~WaitsFor(t, "TWFCT_MBFS", m)
  <2>1. mbfcb[m].freesz = 0 /\ mbfcb[m].bufsz = 0
    BY <1>1 DEF MInv, RingsInv
  <2> QED
    BY <2>1 DEF MInv, WaitersInv
<1>9. \A t \in Task : \A fct, n : WaitsFor(t, fct, n)' => WaitsFor(t, fct, n)
  BY <1>2 DEF WaitsFor, tcb
<1>10. WaitersInv'
  BY <1>2, <1>5, <1>6, <1>8, <1>9 DEF MInv, WaitersInv
<1> QED
  BY <1>6, <1>7, <1>10 DEF MInv

\* A wait begins where there is cause for it.
LEMMA WaitMbfInv ==
  ASSUME MInv, KInv', InTask, NEW m \in Mbf, NEW fct \in {"TWFCT_MBFS", "TWFCT_MBFR"}, NEW tmout,
         wait_for(fct, m, tmout), received' = received,
         fct = "TWFCT_MBFR" => mbfcb[m].freesz = mbfcb[m].bufsz /\ msg' = msg,
         fct = "TWFCT_MBFS" =>
           /\ mbfcb[m].freesz < mbfcb[m].bufsz
           /\ \E message \in Msg : msg' = [msg EXCEPT ![cur_task] = message]
  PROVE  MInv'
<1>1. cur_task \in Task
  BY CallerIsTop DEF MInv, KInv
<1>2. /\ enter_wait(fct, WaitTim(tmout)) /\ mbfcb' = mbfcb
      /\ waiobj' = [waiobj EXCEPT ![cur_task] = m]
  BY DEF wait_for
<1>3. /\ msg' \in [Task -> Msg \cup {<< >>}]
      /\ \A t \in Task : t # cur_task => msg'[t] = msg[t]
      /\ fct = "TWFCT_MBFS" => msg'[cur_task] \in Msg
  BY <1>1 DEF MInv, BoxesInv
<1>4. RingsInv'
  BY <1>2 DEF MInv, RingsInv, Exists, RingInv, Holding, MsgIn
<1>5. BoxesInv'
  BY <1>1, <1>2, <1>3 DEF MInv, BoxesInv
<1>6. ASSUME NEW t \in Task, NEW n \in Mbf, NEW f, WaitsFor(t, f, n)'
      PROVE  (t # cur_task /\ WaitsFor(t, f, n)) \/ (t = cur_task /\ f = fct /\ n = m)
  BY <1>2, <1>6, WaitBegins DEF MInv, BoxesInv
<1>7. WaitersInv'
  BY <1>1, <1>2, <1>3, <1>6 DEF MInv, WaitersInv
<1> QED
  BY <1>4, <1>5, <1>7 DEF MInv

LEMMA MbfNextInv == WholeMessages /\ MInv /\ [MbfNext]_allvars => MInv'
<1> SUFFICES ASSUME WholeMessages, MInv, [MbfNext]_allvars PROVE MInv'
  OBVIOUS
<1>1. KInv'
  BY MbfNextKernel DEF MInv
<1>2. ASSUME UNCHANGED mbfvars,
             \A t \in Task, m \in Mbf, fct \in {"TWFCT_MBFR", "TWFCT_MBFS"} :
               WaitsFor(t, fct, m)' => WaitsFor(t, fct, m)
      PROVE  MInv'
  <2>1. RingsInv' /\ BoxesInv'
    BY <1>2 DEF mbfvars, MInv, RingsInv, BoxesInv, Exists, RingInv, Holding, MsgIn
  <2>2. WaitersInv'
    BY <1>2, WaitersStay DEF mbfvars, MInv
  <2> QED
    BY <1>1, <2>1, <2>2 DEF MInv
<1>3. CASE UNCHANGED allvars
  <2>1. UNCHANGED mbfvars /\ UNCHANGED << state, waifct, waiobj >>
    BY <1>3 DEF allvars, vars, tcb, mbfvars
  <2> QED
    BY <1>2, <2>1 DEF WaitsFor
<1>4. CASE KernelStep
  <2>1. ASSUME NEW t \in Task, NEW m \in Mbf, NEW fct \in {"TWFCT_MBFR", "TWFCT_MBFS"},
               WaitsFor(t, fct, m)'
        PROVE  WaitsFor(t, fct, m)
    <3>1. WaitsForObject(t)'
      BY <2>1 DEF WaitsFor, WaitsForObject, OwnWait
    <3>2. WaitsForObject(t) /\ waifct'[t] = waifct[t]
      BY <1>4, <3>1, NextObjectWaits DEF KernelStep, MInv, KInv
    <3> QED
      BY <1>4, <2>1, <3>2 DEF KernelStep, mbfvars, WaitsFor, WaitsForObject
  <2> QED
    BY <1>2, <1>4, <2>1 DEF KernelStep
<1>5. CASE TaskCreatesMbf
  BY <1>1, <1>5, CreateMbfInv DEF TaskCreatesMbf
<1>6. CASE TaskSends
  <2> SUFFICES ASSUME InTask, NEW m \in Mbf, NEW message \in Msg, NEW tmout \in MbfTmo,
                      tk_snd_mbf(m, message, tmout)
               PROVE  MInv'
    BY <1>6 DEF TaskSends
  <2>1. CASE HasRoom(mbfcb[m], Len(message))
    BY <1>1, <2>1, SendInv DEF tk_snd_mbf, returns_ok
  <2>2. CASE ~HasRoom(mbfcb[m], Len(message))
    <3>1. mbfcb[m].freesz < mbfcb[m].bufsz
      <4>1. mbfcb[m] \in Cb /\ RingInv(mbfcb[m]) /\ Len(message) = MsgSz
        BY SizeType DEF tk_snd_mbf, MInv, RingsInv
      <4> QED
        BY <2>2, <4>1, RoomIs
    <3>2. /\ wait_for("TWFCT_MBFS", m, tmout) /\ received' = received
          /\ msg' = [msg EXCEPT ![cur_task] = message]
      BY <2>2 DEF tk_snd_mbf
    <3> QED
      BY <1>1, <3>1, <3>2, WaitMbfInv
  <2> QED
    BY <2>1, <2>2
<1>7. CASE TaskReceives
  <2> SUFFICES ASSUME InTask, NEW m \in Mbf, NEW tmout \in MbfTmo, tk_rcv_mbf(m, tmout)
               PROVE  MInv'
    BY <1>7 DEF TaskReceives
  <2>1. CASE mbfcb[m].buf_rp # mbfcb[m].buf_wp
    BY <1>1, <2>1, ReceiveInv DEF tk_rcv_mbf, returns_ok
  <2>2. CASE mbfcb[m].buf_rp = mbfcb[m].buf_wp
    <3>1. mbfcb[m].freesz = mbfcb[m].bufsz
      <4>1. mbfcb[m] \in Cb /\ RingInv(mbfcb[m])
        BY DEF tk_rcv_mbf, MInv, RingsInv
      <4> QED
        BY <2>2, <4>1, RoomIs
    <3>2. wait_for("TWFCT_MBFR", m, tmout) /\ received' = received /\ msg' = msg
      BY <2>2 DEF tk_rcv_mbf
    <3> QED
      BY <1>1, <3>1, <3>2, WaitMbfInv
  <2> QED
    BY <2>1, <2>2
<1> QED
  BY <1>3, <1>4, <1>5, <1>6, <1>7 DEF MbfNext

LEMMA MbfInitInv == MbfInit => MInv
<1> SUFFICES ASSUME MbfInit PROVE MInv
  OBVIOUS
<1>1. KInv
  BY InitInv DEF MbfInit, Init, KInv, OwnFrame
<1>2. RingsInv
  <2> DEFINE none == [state |-> "KS_NONEXIST", bufsz |-> 0, freesz |-> 0,
                      buf_rp |-> 0, buf_wp |-> 0, mem |-> [a \in {0} |-> 0]]
  <2>1. [a \in {0} |-> 0] \in [0 .. 0 -> Byte]
    BY DEF Byte
  <2>2. none \in Cb
    BY <2>1 DEF Cb
  <2>3. none.state = "KS_NONEXIST" /\ none.freesz = 0 /\ none.bufsz = 0 /\ none.mem[0] = 0
    OBVIOUS
  <2>4. mbfcb = [m \in Mbf |-> none]
    BY DEF MbfInit
  <2> HIDE DEF none
  <2> QED
    BY <2>2, <2>3, <2>4 DEF RingsInv, Exists
<1>3. BoxesInv
  BY DEF MbfInit, BoxesInv
<1>4. WaitersInv
  BY DEF MbfInit, Init, WaitersInv, WaitsFor
<1> QED
  BY <1>1, <1>2, <1>3, <1>4 DEF MInv

THEOREM MbfInvariance ==
  ASSUME WholeMessages
  PROVE  MbfSpec => []MInv
<1>1. MInv /\ [MbfNext]_allvars => MInv'
  BY MbfNextInv
<1> QED
  BY <1>1, MbfInitInv, PTL DEF MbfSpec, allvars

-----------------------------------------------------------------------------
(***************************************************************************)
(* The theorems.                                                           *)
(***************************************************************************)

\* With messages of one size and buffers of whole slots, the rings keep their
\* types, and what tasks receive are messages (messagebuf.c:44-82).
THEOREM MbfTyping ==
  ASSUME WholeMessages
  PROVE  MbfSpec => []MbfTypeOK
<1>1. MInv => MbfTypeOK
  <2> SUFFICES ASSUME MInv PROVE MbfTypeOK
    OBVIOUS
  <2>1. ASSUME NEW m \in Mbf, Exists(m)
        PROVE  LET cb == mbfcb[m]
               IN  /\ cb.freesz \in 0 .. cb.bufsz
                   /\ cb.buf_rp \in 0 .. cb.bufsz - 1
                   /\ cb.buf_wp \in 0 .. cb.bufsz - 1
                   /\ cb.mem \in [0 .. cb.bufsz -> Byte]
    <3>1. mbfcb[m] \in Cb /\ RingInv(mbfcb[m])
      BY <2>1 DEF MInv, RingsInv
    <3>2. mbfcb[m].freesz \in 0 .. mbfcb[m].bufsz
      BY <3>1, RoomIs
    <3> QED
      BY <3>1, <3>2 DEF RingInv
  <2> QED
    BY <2>1 DEF MbfTypeOK, MInv, BoxesInv
<1> QED
  BY <1>1, MbfInvariance, PTL

\* ... nothing is stored behind a buffer, for the end of the ring comes after a
\* byte of data, never after a length (messagebuf.c:52-56).
THEOREM NothingBehindTheBuffer ==
  ASSUME WholeMessages
  PROVE  MbfSpec => []StaysInBuffer
<1>1. MInv => StaysInBuffer
  BY DEF MInv, RingsInv, StaysInBuffer, RingInv
<1> QED
  BY <1>1, MbfInvariance, PTL

\* ... freesz is the room there is, so that equal pointers mean an empty ring
\* (messagebuf.c:60, 79, 152).
THEOREM FreeszIsExact ==
  ASSUME WholeMessages
  PROVE  MbfSpec => []FreeszIsRoom
<1>1. MInv => FreeszIsRoom
  <2> SUFFICES ASSUME MInv, NEW m \in Mbf, Exists(m)
               PROVE  mbfcb[m].freesz =
                      mbfcb[m].bufsz - ((mbfcb[m].buf_wp - mbfcb[m].buf_rp) % mbfcb[m].bufsz)
    BY DEF FreeszIsRoom
  <2>1. PICK b, rp, wp, f :
          /\ b = mbfcb[m].bufsz /\ rp = mbfcb[m].buf_rp /\ wp = mbfcb[m].buf_wp
          /\ f = mbfcb[m].freesz
    OBVIOUS
  <2>2. /\ b \in Nat /\ rp \in 0 .. b - 1 /\ wp \in 0 .. b - 1
        /\ f = IF rp <= wp THEN b - (wp - rp) ELSE rp - wp
    BY <2>1 DEF MInv, RingsInv, RingInv, Cb
  <2>3. CASE rp <= wp
    <3>1. b \in Nat \ {0} /\ wp - rp \in 0 .. b /\ wp - rp # b
      BY <2>2, <2>3
    <3>2. (wp - rp) % b = wp - rp
      BY <3>1, ModIs
    <3> QED
      BY <2>1, <2>2, <2>3, <3>2
  <2>4. CASE rp > wp
    <3>1. b \in Nat \ {0} /\ wp - rp + b \in 0 .. b - 1
      BY <2>2, <2>4
    <3>2. (wp - rp) % b = wp - rp + b
      BY <2>2, <2>4, <3>1
    <3> QED
      BY <2>1, <2>2, <2>4, <3>2
  <2> QED
    BY <2>2, <2>3, <2>4
<1> QED
  BY <1>1, MbfInvariance, PTL

\* ... who waits for a message waits at an empty buffer (messagebuf.c:172) ...
THEOREM ReceiversHaveCause ==
  ASSUME WholeMessages
  PROVE  MbfSpec => []ReceiverWaitsForMessage
<1>1. MInv => ReceiverWaitsForMessage
  BY DEF MInv, WaitersInv, ReceiverWaitsForMessage
<1> QED
  BY <1>1, MbfInvariance, PTL

\* ... and who waits for room at one that is not, so senders and receivers never
\* wait for each other (messagebuf.c:98, 116).
THEOREM SendersHaveCause ==
  ASSUME WholeMessages
  PROVE  MbfSpec => []SenderWaitsForRoom
<1>1. MInv => SenderWaitsForRoom
  BY DEF MInv, WaitersInv, SenderWaitsForRoom
<1> QED
  BY <1>1, MbfInvariance, PTL

-----------------------------------------------------------------------------
(***************************************************************************)
(* The messages stored.  Of a ring of B slots with buf_rp at slot r and    *)
(* buf_wp at slot w, Place is the slot of the n-th message.                *)
(***************************************************************************)
Held(r, w, B) == IF r <= w THEN w - r ELSE w - r + B
Place(r, B, n) == IF r + n - 1 < B THEN r + n - 1 ELSE r + n - 1 - B

InSlots(cb, r, w, B) ==
  /\ r \in Nat /\ w \in Nat /\ B \in Nat /\ r < B /\ w < B
  /\ cb.buf_rp = r * SlotSz /\ cb.buf_wp = w * SlotSz /\ cb.bufsz = B * SlotSz

LEMMA Multiples ==
  ASSUME WholeMessages
  PROVE  \A j, l \in Nat :
           /\ j * SlotSz \in Nat /\ (j + 1) * SlotSz = j * SlotSz + SlotSz
           /\ j * SlotSz = l * SlotSz <=> j = l
           /\ j * SlotSz < l * SlotSz <=> j < l
<1>1. SlotSz \in Nat /\ SlotSz >= 2
  BY SizeType
<1> HIDE DEF SlotSz
<1>2. ASSUME NEW j \in Nat, NEW l \in Nat, j < l PROVE j * SlotSz < l * SlotSz
  <2>1. (j + 1) * SlotSz <= l * SlotSz
    BY <1>1, <1>2
  <2>2. (j + 1) * SlotSz = j * SlotSz + SlotSz /\ j * SlotSz \in Nat
    BY <1>1
  <2>3. l * SlotSz \in Nat
    BY <1>1
  <2> QED
    BY <1>1, <2>1, <2>2, <2>3
<1>3. ASSUME NEW j \in Nat, NEW l \in Nat
      PROVE  /\ j * SlotSz \in Nat /\ (j + 1) * SlotSz = j * SlotSz + SlotSz
             /\ l * SlotSz \in Nat
  BY <1>1
<1>4. ASSUME NEW j \in Nat, NEW l \in Nat
      PROVE  /\ j * SlotSz = l * SlotSz <=> j = l
             /\ j * SlotSz < l * SlotSz <=> j < l
  <2>1. j < l \/ j = l \/ l < j
    OBVIOUS
  <2>2. j < l => j * SlotSz < l * SlotSz
    BY <1>2
  <2>3. l < j => l * SlotSz < j * SlotSz
    BY <1>2
  <2>4. CASE j < l
    BY <1>3, <2>2, <2>4
  <2>5. CASE j = l
    BY <1>3, <2>5
  <2>6. CASE l < j
    BY <1>3, <2>3, <2>6
  <2> QED
    BY <2>1, <2>4, <2>5, <2>6
<1> QED
  BY <1>3, <1>4

\* The slot behind slot j.
LEMMA SlotBehind ==
  ASSUME WholeMessages, NEW j \in Nat, NEW B \in Nat
  PROVE  /\ j * SlotSz + SlotSz = (j + 1) * SlotSz /\ 0 = 0 * SlotSz
         /\ j * SlotSz + SlotSz = B * SlotSz <=> j + 1 = B
<1>1. j + 1 \in Nat /\ SlotSz \in Nat
  BY SizeType
<1>2. j * SlotSz + SlotSz = (j + 1) * SlotSz
  BY Multiples
<1>3. (j + 1) * SlotSz = B * SlotSz <=> j + 1 = B
  BY <1>1, Multiples
<1>4. 0 = 0 * SlotSz
  <2> HIDE DEF SlotSz
  <2> QED
    BY <1>1
<1> QED
  BY <1>2, <1>3, <1>4

LEMMA SlotsOf ==
  ASSUME WholeMessages, NEW cb \in Cb, RingInv(cb)
  PROVE  \E r, w, B \in Nat : InSlots(cb, r, w, B)
<1>1. PICK r \in Nat : cb.buf_rp = r * SlotSz
  BY DEF RingInv, IsSlot
<1>2. PICK w \in Nat : cb.buf_wp = w * SlotSz
  BY DEF RingInv, IsSlot
<1>3. PICK B \in Nat : cb.bufsz = B * SlotSz
  BY DEF RingInv, IsSlot
<1>4. cb.buf_rp < cb.bufsz /\ cb.buf_wp < cb.bufsz
  BY DEF RingInv, Cb
<1>5. r < B /\ w < B
  BY <1>1, <1>2, <1>3, <1>4, Multiples
<1> QED
  BY <1>1, <1>2, <1>3, <1>5 DEF InSlots

\* freesz counts the slots that hold no message, and one of them is always left.
LEMMA SlotsFree ==
  ASSUME WholeMessages, NEW cb \in Cb, RingInv(cb), NEW r, NEW w, NEW B, InSlots(cb, r, w, B)
  PROVE  /\ Held(r, w, B) \in 0 .. B - 1
         /\ cb.freesz >= 2 * SlotSz => Held(r, w, B) < B - 1
         /\ cb.buf_rp = cb.buf_wp <=> Held(r, w, B) = 0
<1>1. /\ r \in Nat /\ w \in Nat /\ B \in Nat /\ r < B /\ w < B
      /\ cb.buf_rp = r * SlotSz /\ cb.buf_wp = w * SlotSz /\ cb.bufsz = B * SlotSz
  BY DEF InSlots
<1>2. /\ r * SlotSz = w * SlotSz <=> r = w
      /\ w * SlotSz < r * SlotSz <=> w < r
      /\ r * SlotSz \in Nat /\ w * SlotSz \in Nat /\ B * SlotSz \in Nat
  BY <1>1, Multiples
<1>3. SlotSz \in Nat /\ SlotSz >= 2
  BY SizeType
<1>4. cb.freesz = IF cb.buf_rp <= cb.buf_wp THEN cb.bufsz - (cb.buf_wp - cb.buf_rp)
                  ELSE cb.buf_rp - cb.buf_wp
  BY DEF RingInv
<1> DEFINE f == B - Held(r, w, B)
<1>5. Held(r, w, B) \in 0 .. B - 1 /\ f \in Nat
  BY <1>1 DEF Held
<1> HIDE DEF SlotSz
<1>6. cb.freesz = f * SlotSz
  <2>1. CASE r <= w
    <3>1. f = B - (w - r)
      BY <2>1 DEF Held
    <3>2. cb.freesz = B * SlotSz - (w * SlotSz - r * SlotSz)
      BY <1>1, <1>2, <1>4, <2>1
    <3>3. (B - (w - r)) * SlotSz = B * SlotSz - (w * SlotSz - r * SlotSz)
      BY <1>1, <1>3
    <3> QED
      BY <3>1, <3>2, <3>3
  <2>2. CASE r > w
    <3>1. f = r - w
      BY <1>1, <2>2 DEF Held
    <3>2. cb.freesz = r * SlotSz - w * SlotSz
      BY <1>1, <1>2, <1>4, <2>2
    <3>3. (r - w) * SlotSz = r * SlotSz - w * SlotSz
      BY <1>1, <1>3
    <3> QED
      BY <3>1, <3>2, <3>3
  <2> QED
    BY <1>1, <2>1, <2>2
<1>7. cb.freesz >= 2 * SlotSz => f >= 2
  <2>1. f * SlotSz < 2 * SlotSz <=> f < 2
    BY <1>5, Multiples
  <2>2. f * SlotSz \in Nat /\ 2 * SlotSz \in Nat
    BY <1>3, <1>5
  <2> QED
    BY <1>5, <1>6, <2>1, <2>2
<1>8. cb.buf_rp = cb.buf_wp <=> Held(r, w, B) = 0
  BY <1>1, <1>2 DEF Held
<1> QED
  BY <1>1, <1>5, <1>7, <1>8

\* The slots that hold the messages.
LEMMA PlacesHold ==
  ASSUME WholeMessages, NEW cb \in Cb, RingInv(cb), NEW r, NEW w, NEW B, InSlots(cb, r, w, B),
         NEW n \in 1 .. Held(r, w, B)
  PROVE  /\ Place(r, B, n) \in 0 .. B - 1 /\ Place(r, B, n) # w
         /\ Place(r, B, n) * SlotSz \in 0 .. cb.bufsz - 1 /\ IsSlot(Place(r, B, n) * SlotSz)
         /\ Place(r, B, n) * SlotSz # cb.buf_wp
         /\ Holding(cb, Place(r, B, n) * SlotSz)
         /\ MsgAt(cb, Place(r, B, n) * SlotSz) = MsgIn(cb, Place(r, B, n) * SlotSz)
<1> DEFINE p == Place(r, B, n)
           a == p * SlotSz
<1>1. /\ r \in Nat /\ w \in Nat /\ B \in Nat /\ r < B /\ w < B
      /\ cb.buf_rp = r * SlotSz /\ cb.buf_wp = w * SlotSz /\ cb.bufsz = B * SlotSz
  BY DEF InSlots
<1>2. p \in 0 .. B - 1 /\ p # w /\ (p < w \/ w < r)
  BY <1>1 DEF Held, Place
<1> HIDE DEF p
<1>3. p \in Nat /\ p < B
  BY <1>1, <1>2
<1>4. /\ a \in Nat /\ (a = w * SlotSz <=> p = w)
      /\ a < w * SlotSz <=> p < w
      /\ a < B * SlotSz <=> p < B
      /\ w * SlotSz < r * SlotSz <=> w < r
      /\ B * SlotSz \in Nat
  BY <1>1, <1>3, Multiples
<1>5. IsSlot(a)
  BY <1>3 DEF IsSlot
<1> HIDE DEF a
<1>6. a \in 0 .. cb.bufsz - 1 /\ a # cb.buf_wp /\ (a < cb.buf_wp \/ cb.buf_rp > cb.buf_wp)
  BY <1>1, <1>2, <1>3, <1>4
<1>7. Holding(cb, a)
  BY <1>5, <1>6 DEF RingInv
<1>8. cb.bufsz \in Nat /\ IsSlot(cb.bufsz) /\ a < cb.bufsz
  BY <1>6 DEF Cb, RingInv
<1>9. \A i \in 1 .. MsgSz : DataAt(cb, a, i) = a + i
  BY <1>5, <1>8, DataIs
<1>10. MsgAt(cb, a) = MsgIn(cb, a)
  BY <1>7, <1>9 DEF MsgAt, MsgIn, Holding
<1> QED
  BY <1>2, <1>5, <1>6, <1>7, <1>10 DEF p, a

\* The equation of the function at in Contents, which one function solves.
Behind(cb) ==
  [a \in 0 .. cb.bufsz - 1 |-> IF a = cb.buf_wp THEN a ELSE DataAt(cb, a, cb.mem[a] + 1)]
Reading(cb, at) ==
  [n \in 1 .. cb.bufsz \div 2 |-> IF n = 1 THEN cb.buf_rp ELSE Behind(cb)[at[n - 1]]]

LEMMA ReadingIsUnique ==
  ASSUME NEW cb, cb.bufsz \in Nat, NEW f, NEW g, f = Reading(cb, f), g = Reading(cb, g)
  PROVE  f = g
<1> DEFINE N == cb.bufsz \div 2
           T == {n \in 1 .. N : f[n] # g[n]}
<1>1. N \in Nat
  OBVIOUS
<1>2. f = [n \in 1 .. N |-> f[n]] /\ g = [n \in 1 .. N |-> g[n]]
  BY DEF Reading
<1>3. \A n \in 1 .. N :
        /\ f[n] = IF n = 1 THEN cb.buf_rp ELSE Behind(cb)[f[n - 1]]
        /\ g[n] = IF n = 1 THEN cb.buf_rp ELSE Behind(cb)[g[n - 1]]
  BY DEF Reading
<1>4. T = {}
  <2> SUFFICES ASSUME T # {} PROVE FALSE
    OBVIOUS
  <2>1. T \subseteq Nat
    BY <1>1
  <2>2. PICK n \in T : \A k \in T : ~(<< k, n >> \in OpToRel(<, Nat))
    BY <2>1, NatLessThanWellFounded, WFMin, Zenon
  <2>3. n \in 1 .. N /\ f[n] # g[n] /\ \A k \in 1 .. N : k < n => f[k] = g[k]
    BY <1>1, <2>1, <2>2 DEF OpToRel
  <2> HIDE DEF N, T
  <2>4. n # 1 => n - 1 \in 1 .. N /\ n - 1 < n
    BY <1>1, <2>3
  <2>5. n # 1 => f[n - 1] = g[n - 1]
    BY <2>3, <2>4
  <2> QED
    BY <1>3, <2>3, <2>5
<1>5. \A n \in 1 .. N : f[n] = g[n]
  BY <1>4
<1> HIDE DEF N
<1> QED
  BY <1>2, <1>5, Zenon

Stops(cb, r, w, B) ==
  [n \in 1 .. cb.bufsz \div 2 |->
     IF n <= Held(r, w, B) THEN Place(r, B, n) * SlotSz ELSE w * SlotSz]

\* From a slot that holds a message the reading goes on to the next slot.
LEMMA NextStop ==
  ASSUME WholeMessages, NEW cb \in Cb, RingInv(cb), NEW r, NEW w, NEW B, InSlots(cb, r, w, B),
         NEW n \in 1 .. Held(r, w, B)
  PROVE  Behind(cb)[Place(r, B, n) * SlotSz] =
           IF n < Held(r, w, B) THEN Place(r, B, n + 1) * SlotSz ELSE w * SlotSz
<1> DEFINE p == Place(r, B, n)
           a == p * SlotSz
           q == IF n < Held(r, w, B) THEN Place(r, B, n + 1) ELSE w
<1>1. /\ r \in Nat /\ w \in Nat /\ B \in Nat /\ r < B /\ w < B
      /\ cb.bufsz = B * SlotSz
  BY DEF InSlots
<1>2. /\ p \in 0 .. B - 1 /\ a \in 0 .. cb.bufsz - 1 /\ IsSlot(a) /\ a # cb.buf_wp /\ Holding(cb, a)
  BY PlacesHold
<1>3. cb.bufsz \in Nat /\ IsSlot(cb.bufsz) /\ a < cb.bufsz
  BY <1>2 DEF Cb, RingInv
<1>4. Behind(cb)[a] = DataAt(cb, a, MsgSz + 1)
  BY <1>2 DEF Behind, Holding
<1>5. DataAt(cb, a, MsgSz + 1) = IF a + SlotSz = cb.bufsz THEN 0 ELSE a + SlotSz
  BY <1>2, <1>3, DataIs
<1>6. /\ a + SlotSz = (p + 1) * SlotSz /\ 0 = 0 * SlotSz
      /\ a + SlotSz = B * SlotSz <=> p + 1 = B
  BY <1>1, <1>2, SlotBehind
<1>7. q = IF p + 1 = B THEN 0 ELSE p + 1
  BY <1>1 DEF Held, Place
<1> HIDE DEF p, q
<1>8. Behind(cb)[a] = q * SlotSz
  BY <1>1, <1>4, <1>5, <1>6, <1>7
<1> QED
  BY <1>8 DEF p, q

LEMMA ReadingStops ==
  ASSUME WholeMessages, NEW cb \in Cb, RingInv(cb), NEW r, NEW w, NEW B, InSlots(cb, r, w, B)
  PROVE  Reading(cb, Stops(cb, r, w, B)) = Stops(cb, r, w, B)
<1> DEFINE g == Stops(cb, r, w, B)
           N == cb.bufsz \div 2
           k == Held(r, w, B)
<1>1. /\ r \in Nat /\ w \in Nat /\ B \in Nat /\ r < B /\ w < B
      /\ cb.buf_rp = r * SlotSz /\ cb.buf_wp = w * SlotSz
  BY DEF InSlots
<1>2. k \in Nat /\ (k = 0 <=> r = w) /\ Place(r, B, 1) = r
  BY <1>1 DEF Held, Place
<1>3. N \in Nat
  BY DEF Cb
<1>4. \A n \in 1 .. N : g[n] = IF n <= k THEN Place(r, B, n) * SlotSz ELSE w * SlotSz
  BY DEF Stops
<1>5. \A n \in 1 .. k : Behind(cb)[Place(r, B, n) * SlotSz] =
                          IF n < k THEN Place(r, B, n + 1) * SlotSz ELSE w * SlotSz
  BY NextStop
<1>6. Behind(cb)[w * SlotSz] = w * SlotSz
  <2>1. cb.buf_wp \in 0 .. cb.bufsz - 1
    BY DEF RingInv
  <2>2. Behind(cb)[cb.buf_wp] = cb.buf_wp
    BY <2>1 DEF Behind
  <2> QED
    BY <1>1, <2>2
<1> HIDE DEF g, N, k
<1>7. ASSUME NEW n \in 1 .. N
      PROVE  g[n] = IF n = 1 THEN cb.buf_rp ELSE Behind(cb)[g[n - 1]]
  <2>1. CASE n = 1
    <3>1. CASE k = 0
      BY <1>1, <1>2, <1>4, <2>1, <3>1
    <3>2. CASE k # 0
      BY <1>1, <1>2, <1>4, <2>1, <3>2
    <3> QED
      BY <3>1, <3>2
  <2>2. CASE n # 1
    <3>1. n - 1 \in 1 .. N /\ (n - 1) + 1 = n
      BY <1>3, <2>2
    <3>2. CASE n - 1 <= k
      <4>1. n - 1 \in 1 .. k /\ (n - 1 < k <=> n <= k)
        BY <1>2, <3>1, <3>2
      <4>2. g[n - 1] = Place(r, B, n - 1) * SlotSz
        BY <1>4, <3>1, <3>2
      <4>3. Behind(cb)[g[n - 1]] = IF n <= k THEN Place(r, B, n) * SlotSz ELSE w * SlotSz
        BY <1>5, <3>1, <4>1, <4>2
      <4> QED
        BY <1>4, <2>2, <4>3
    <3>3. CASE ~(n - 1 <= k)
      <4>1. ~(n <= k)
        BY <1>2, <3>3
      <4>2. g[n - 1] = w * SlotSz /\ g[n] = w * SlotSz
        BY <1>4, <3>1, <3>3, <4>1
      <4> QED
        BY <1>6, <2>2, <4>2
    <3> QED
      BY <3>2, <3>3
  <2> QED
    BY <2>1, <2>2
<1>8. g = [n \in 1 .. N |-> g[n]]
  BY DEF g, N, Stops
<1>9. Reading(cb, g) = [n \in 1 .. N |-> IF n = 1 THEN cb.buf_rp ELSE Behind(cb)[g[n - 1]]]
  BY DEF Reading, N
<1>10. Reading(cb, g) = [n \in 1 .. N |-> g[n]]
  BY <1>7, <1>9, Zenon
<1> QED
  BY <1>8, <1>10 DEF g

\* Read one after the other, the messages are those of the slots from buf_rp on.
LEMMA ContentsAre ==
  ASSUME WholeMessages, NEW cb \in Cb, RingInv(cb), NEW r, NEW w, NEW B, InSlots(cb, r, w, B)
  PROVE  Contents(cb) = [n \in 1 .. Held(r, w, B) |-> MsgIn(cb, Place(r, B, n) * SlotSz)]
<1> DEFINE at == CHOOSE f : f = Reading(cb, f)
           N == cb.bufsz \div 2
           k == Held(r, w, B)
           S == {n \in DOMAIN at : at[n] # cb.buf_wp}
           message == [a \in 0 .. cb.bufsz - 1 |-> MsgAt(cb, a)]
<1>1. cb.bufsz \in Nat
  BY DEF Cb
<1>2. at = Stops(cb, r, w, B)
  <2>1. Stops(cb, r, w, B) = Reading(cb, Stops(cb, r, w, B))
    BY ReadingStops, Zenon
  <2>2. at = Reading(cb, at)
    BY <2>1, Zenon
  <2> HIDE DEF at
  <2> QED
    BY <1>1, <2>1, <2>2, ReadingIsUnique
<1>3. Contents(cb) = [n \in 1 .. Cardinality(S) |-> message[at[n]]]
  BY Zenon DEF Contents, Reading, Behind
<1>4. DOMAIN at = 1 .. N /\ \A n \in 1 .. N : at[n] = IF n <= k THEN Place(r, B, n) * SlotSz ELSE w * SlotSz
  BY <1>2 DEF Stops
<1>5. k \in Nat /\ k <= N /\ N \in Nat
  <2>1. k \in 0 .. B - 1 /\ cb.bufsz = B * SlotSz /\ B \in Nat
    BY SlotsFree DEF InSlots
  <2>2. SlotSz \in Nat /\ SlotSz >= 2
    BY SizeType
  <2> HIDE DEF SlotSz, k
  <2>3. B * SlotSz >= B * 2
    BY <2>1, <2>2
  <2>4. cb.bufsz >= 2 * B
    BY <2>1, <2>3
  <2>5. N >= B /\ N \in Nat
    BY <1>1, <2>1, <2>4
  <2> QED
    BY <2>1, <2>5
<1>6. \A n \in 1 .. k :
        /\ Place(r, B, n) * SlotSz \in 0 .. cb.bufsz - 1 /\ Place(r, B, n) * SlotSz # cb.buf_wp
        /\ MsgAt(cb, Place(r, B, n) * SlotSz) = MsgIn(cb, Place(r, B, n) * SlotSz)
  BY PlacesHold
<1>7. cb.buf_wp = w * SlotSz
  BY DEF InSlots
<1> HIDE DEF at, N, k
<1>8. S = 1 .. k
  BY <1>4, <1>5, <1>6, <1>7
<1>9. Cardinality(S) = k
  <2>1. Cardinality(1 .. k) = k
    BY <1>5, FS_Interval
  <2> QED
    BY <1>8, <2>1
<1>10. \A n \in 1 .. k : message[at[n]] = MsgIn(cb, Place(r, B, n) * SlotSz)
  BY <1>4, <1>5, <1>6
<1> HIDE DEF S, message
<1>11. Contents(cb) = [n \in 1 .. k |-> message[at[n]]]
  BY <1>3, <1>9
<1>12. [n \in 1 .. k |-> message[at[n]]] =
       [n \in 1 .. k |-> MsgIn(cb, Place(r, B, n) * SlotSz)]
  BY <1>10, Zenon
<1> QED
  BY <1>11, <1>12 DEF k

-----------------------------------------------------------------------------
(***************************************************************************)
(* What the operations do to the messages stored.                          *)
(***************************************************************************)
LEMMA ContentsType ==
  ASSUME WholeMessages, NEW cb \in Cb, RingInv(cb)
  PROVE  Contents(cb) \in Seq(Msg)
<1>1. PICK r, w, B \in Nat : InSlots(cb, r, w, B)
  BY SlotsOf
<1> DEFINE k == Held(r, w, B)
<1>2. k \in Nat
  BY <1>1, SlotsFree
<1>3. \A n \in 1 .. k : MsgIn(cb, Place(r, B, n) * SlotSz) \in Msg
  BY <1>1, PlacesHold DEF Holding
<1>4. Contents(cb) = [n \in 1 .. k |-> MsgIn(cb, Place(r, B, n) * SlotSz)]
  BY <1>1, ContentsAre
<1> HIDE DEF k
<1> QED
  BY <1>2, <1>3, <1>4

LEMMA NewContents ==
  ASSUME WholeMessages, NEW cb \in Cb, RingInv(cb), cb.buf_rp = cb.buf_wp
  PROVE  Contents(cb) = << >>
<1>1. PICK r, w, B \in Nat : InSlots(cb, r, w, B)
  BY SlotsOf
<1>2. Held(r, w, B) = 0
  BY <1>1, SlotsFree
<1>3. Contents(cb) = [n \in 1 .. 0 |-> MsgIn(cb, Place(r, B, n) * SlotSz)]
  BY <1>1, <1>2, ContentsAre
<1> QED
  BY <1>3

\* Storing appends.
LEMMA StoreContents ==
  ASSUME WholeMessages, NEW cb \in Cb, RingInv(cb), NEW m \in Msg, MsgSz \in Byte,
         cb.freesz >= 2 * SlotSz, NEW c, c = store_msg(cb, m)
  PROVE  Contents(c) = Append(Contents(cb), m)
<1>1. PICK r, w, B \in Nat : InSlots(cb, r, w, B)
  BY SlotsOf
<1> DEFINE v == IF w + 1 = B THEN 0 ELSE w + 1
           k == Held(r, w, B)
<1>2. /\ r \in Nat /\ w \in Nat /\ B \in Nat /\ r < B /\ w < B
      /\ cb.buf_rp = r * SlotSz /\ cb.buf_wp = w * SlotSz /\ cb.bufsz = B * SlotSz
  BY <1>1 DEF InSlots
<1>3. k \in 0 .. B - 1 /\ k < B - 1
  BY <1>1, SlotsFree
<1>4. v \in Nat /\ v < B /\ Held(r, v, B) = k + 1 /\ Place(r, B, k + 1) = w
  BY <1>2, <1>3 DEF Held, Place
<1>5. /\ c \in Cb /\ RingInv(c) /\ c.bufsz = cb.bufsz
  BY StoreRing
<1>6. /\ c.buf_rp = cb.buf_rp
      /\ c.buf_wp = IF cb.buf_wp + SlotSz = cb.bufsz THEN 0 ELSE cb.buf_wp + SlotSz
      /\ c.mem = [a \in 0 .. cb.bufsz |->
           IF a - cb.buf_wp \in 1 .. MsgSz THEN m[a - cb.buf_wp]
           ELSE IF a = cb.buf_wp THEN MsgSz ELSE cb.mem[a]]
  BY StoreIs
<1>7. c.buf_wp = v * SlotSz
  <2>1. /\ w * SlotSz + SlotSz = (w + 1) * SlotSz /\ 0 = 0 * SlotSz
        /\ w * SlotSz + SlotSz = B * SlotSz <=> w + 1 = B
    BY SlotBehind
  <2> HIDE DEF SlotSz
  <2> QED
    BY <1>2, <1>6, <2>1
<1>8. InSlots(c, r, v, B)
  BY <1>2, <1>4, <1>5, <1>6, <1>7 DEF InSlots
<1>9. Contents(cb) = [n \in 1 .. k |-> MsgIn(cb, Place(r, B, n) * SlotSz)]
  BY <1>1, ContentsAre
<1>10. Contents(c) = [n \in 1 .. k + 1 |-> MsgIn(c, Place(r, B, n) * SlotSz)]
  BY <1>4, <1>5, <1>8, ContentsAre
<1>11. m = [i \in 1 .. MsgSz |-> m[i]] /\ MsgSz \in Nat /\ SlotSz = MsgSz + 1
  BY SizeType DEF SlotSz
<1>12. cb.bufsz \in Nat /\ cb.buf_wp \in Nat /\ IsSlot(cb.buf_wp) /\ cb.buf_wp < cb.bufsz /\ IsSlot(cb.bufsz)
  BY DEF RingInv, Cb
<1>13. cb.buf_wp + SlotSz <= cb.bufsz
  BY <1>12, SlotsApart
<1>14. MsgIn(c, Place(r, B, k + 1) * SlotSz) = m
  <2>1. ASSUME NEW i \in 1 .. MsgSz PROVE c.mem[cb.buf_wp + i] = m[i]
    <3>1. cb.buf_wp + i \in 0 .. cb.bufsz /\ (cb.buf_wp + i) - cb.buf_wp = i
      BY <1>11, <1>12, <1>13
    <3> QED
      BY <1>6, <3>1
  <2>2. MsgIn(c, cb.buf_wp) = m
    BY <1>11, <2>1 DEF MsgIn
  <2> QED
    BY <1>2, <1>4, <2>2
<1>15. ASSUME NEW n \in 1 .. k
       PROVE  MsgIn(c, Place(r, B, n) * SlotSz) = MsgIn(cb, Place(r, B, n) * SlotSz)
  <2> DEFINE a == Place(r, B, n) * SlotSz
  <2>1. a \in 0 .. cb.bufsz - 1 /\ IsSlot(a) /\ a # cb.buf_wp
    BY <1>1, PlacesHold
  <2> HIDE DEF a
  <2>2. a \in Nat /\ a < cb.bufsz
    BY <1>12, <2>1
  <2>3. a + SlotSz <= cb.bufsz /\ (a + SlotSz <= cb.buf_wp \/ cb.buf_wp + SlotSz <= a)
    BY <1>12, <2>1, <2>2, SlotsApart
  <2>4. ASSUME NEW i \in 1 .. MsgSz PROVE c.mem[a + i] = cb.mem[a + i]
    <3> HIDE DEF SlotSz, MsgSz
    <3>1. i \in Nat /\ 1 <= i /\ i <= MsgSz /\ MsgSz \in Nat /\ SlotSz = MsgSz + 1
      BY <1>11
    <3>2. /\ a \in Int /\ cb.buf_wp \in Int /\ cb.bufsz \in Int /\ 0 <= a
          /\ a + i < cb.buf_wp \/ a + i > cb.buf_wp + MsgSz
      BY <1>12, <2>2, <2>3, <3>1
    <3>3. a + i <= cb.bufsz
      BY <1>12, <2>2, <2>3, <3>1
    <3>4. a + i \in 0 .. cb.bufsz /\ (a + i) - cb.buf_wp \notin 1 .. MsgSz /\ a + i # cb.buf_wp
      BY <3>1, <3>2, <3>3
    <3> QED
      BY <1>6, <3>4
  <2>5. MsgIn(c, a) = MsgIn(cb, a)
    BY <2>4 DEF MsgIn
  <2> QED
    BY <2>5 DEF a
<1> DEFINE s == Contents(cb)
           t == Append(s, m)
<1>16. s \in Seq(Msg)
  BY ContentsType
<1>17. Len(s) = k /\ \A n \in 1 .. k : s[n] = MsgIn(cb, Place(r, B, n) * SlotSz)
  <2>1. k \in Nat
    BY <1>3
  <2> HIDE DEF k
  <2> QED
    BY <1>9, <2>1
<1> HIDE DEF s
<1>18. t \in Seq(Msg) /\ Len(t) = k + 1 /\ \A n \in 1 .. k : t[n] = s[n] /\ t[k + 1] = m
  BY <1>3, <1>16, <1>17, AppendIs
<1>19. t[k + 1] = m
  BY <1>16, <1>17, AppendIs
<1>20. t = [n \in 1 .. k + 1 |-> t[n]]
  <2> HIDE DEF t
  <2> QED
    BY <1>18
<1>21. ASSUME NEW n \in 1 .. k + 1 PROVE MsgIn(c, Place(r, B, n) * SlotSz) = t[n]
  <2>1. n \in 1 .. k \/ n = k + 1
    BY <1>3
  <2> HIDE DEF t, k
  <2> QED
    BY <1>14, <1>15, <1>17, <1>18, <1>19, <2>1
<1>22. Contents(c) = [n \in 1 .. k + 1 |-> t[n]]
  BY <1>10, <1>21, Zenon
<1> QED
  BY <1>20, <1>22 DEF s

\* Retrieving takes the first.
LEMMA RetrieveContents ==
  ASSUME WholeMessages, NEW cb \in Cb, RingInv(cb), cb.buf_rp # cb.buf_wp,
         NEW c, c = Retrieved(cb)
  PROVE  /\ Contents(cb) # << >>
         /\ Head(Contents(cb)) = MsgAt(cb, cb.buf_rp)
         /\ Contents(c) = Tail(Contents(cb))
<1>1. PICK r, w, B \in Nat : InSlots(cb, r, w, B)
  BY SlotsOf
<1> DEFINE q == IF r + 1 = B THEN 0 ELSE r + 1
           k == Held(r, w, B)
           a == r * SlotSz
<1>2. /\ r \in Nat /\ w \in Nat /\ B \in Nat /\ r < B /\ w < B
      /\ cb.buf_rp = a /\ cb.buf_wp = w * SlotSz /\ cb.bufsz = B * SlotSz
  BY <1>1 DEF InSlots
<1>3. k \in 0 .. B - 1 /\ k # 0
  BY <1>1, SlotsFree
<1>4. /\ q \in Nat /\ q < B /\ Held(q, w, B) = k - 1 /\ Place(r, B, 1) = r
      /\ \A n \in 1 .. k - 1 : Place(q, B, n) = Place(r, B, n + 1)
  BY <1>2, <1>3 DEF Held, Place
<1>5. /\ c \in Cb /\ RingInv(c) /\ c.bufsz = cb.bufsz
  BY RetrieveRing
<1>6. Holding(cb, a) /\ IsSlot(a) /\ a \in 0 .. cb.bufsz - 1 /\ MsgAt(cb, a) = MsgIn(cb, a)
  <2>1. 1 \in 1 .. k
    BY <1>3
  <2> HIDE DEF k, a
  <2>2. Place(r, B, 1) * SlotSz = a
    BY <1>4 DEF a
  <2> QED
    BY <1>1, <2>1, <2>2, PlacesHold DEF k
<1>7. /\ c.buf_wp = cb.buf_wp /\ c.mem = cb.mem
      /\ c.buf_rp = DataAt(cb, cb.buf_rp, cb.mem[cb.buf_rp] + 1)
  BY DEF Retrieved, Cb
<1>8. c.buf_rp = IF a + SlotSz = cb.bufsz THEN 0 ELSE a + SlotSz
  <2>1. cb.bufsz \in Nat /\ IsSlot(cb.bufsz) /\ a < cb.bufsz
    BY <1>6 DEF RingInv, Cb
  <2>2. cb.mem[a] = MsgSz
    BY <1>6 DEF Holding
  <2> HIDE DEF a
  <2> QED
    BY <1>2, <1>6, <1>7, <2>1, <2>2, DataIs
<1>9. c.buf_rp = q * SlotSz
  <2>1. /\ a + SlotSz = (r + 1) * SlotSz /\ 0 = 0 * SlotSz
        /\ a + SlotSz = B * SlotSz <=> r + 1 = B
    BY SlotBehind
  <2> HIDE DEF SlotSz, a
  <2> QED
    BY <1>2, <1>8, <2>1
<1>10. InSlots(c, q, w, B)
  BY <1>2, <1>4, <1>5, <1>7, <1>9 DEF InSlots
<1>11. Contents(cb) = [n \in 1 .. k |-> MsgIn(cb, Place(r, B, n) * SlotSz)]
  BY <1>1, ContentsAre
<1>12. Contents(c) = [n \in 1 .. k - 1 |-> MsgIn(c, Place(q, B, n) * SlotSz)]
  BY <1>4, <1>5, <1>10, ContentsAre
<1> DEFINE s == Contents(cb)
<1>13. s \in Seq(Msg)
  BY ContentsType
<1>14. Len(s) = k /\ \A n \in 1 .. k : s[n] = MsgIn(cb, Place(r, B, n) * SlotSz)
  <2>1. k \in Nat
    BY <1>3
  <2> HIDE DEF k
  <2> QED
    BY <1>11, <2>1
<1> HIDE DEF s
<1>15. s # << >>
  BY <1>3, <1>13, <1>14
<1> DEFINE t == Tail(s)
<1>16. t \in Seq(Msg) /\ Len(t) = k - 1 /\ Head(s) = s[1] /\ \A n \in 1 .. k - 1 : t[n] = s[n + 1]
  BY <1>13, <1>14, <1>15, TailIs
<1>17. Head(s) = MsgAt(cb, cb.buf_rp)
  <2>1. s[1] = MsgIn(cb, Place(r, B, 1) * SlotSz)
    BY <1>3, <1>14
  <2> QED
    BY <1>2, <1>4, <1>6, <1>16, <2>1
<1>18. t = [n \in 1 .. k - 1 |-> t[n]]
  <2> HIDE DEF t
  <2> QED
    BY <1>16
<1>19. ASSUME NEW n \in 1 .. k - 1 PROVE MsgIn(c, Place(q, B, n) * SlotSz) = t[n]
  <2>1. n + 1 \in 1 .. k
    BY <1>3
  <2>2. t[n] = MsgIn(cb, Place(q, B, n) * SlotSz)
    BY <1>4, <1>14, <1>16, <2>1
  <2> QED
    BY <1>7, <2>2 DEF MsgIn
<1>20. Contents(c) = [n \in 1 .. k - 1 |-> t[n]]
  BY <1>12, <1>19, Zenon
<1> QED
  BY <1>15, <1>17, <1>18, <1>20 DEF s

\* The messages stored in each buffer, as the channels see them.
Stored == [m \in Mbf |-> IF Exists(m) THEN Contents(mbfcb[m]) ELSE << >>]

LEMMA StoredChanges ==
  ASSUME RingsInv, NEW m \in Mbf, NEW c \in Cb, c.state = "KS_EXIST",
         mbfcb' = [mbfcb EXCEPT ![m] = c]
  PROVE  Stored' = [Stored EXCEPT ![m] = Contents(c)]
<1>1. mbfcb'[m] = c /\ \A n \in Mbf : n # m => mbfcb'[n] = mbfcb[n]
  BY DEF RingsInv
<1>2. Stored' = [n \in Mbf |-> IF mbfcb'[n].state = "KS_EXIST" THEN Contents(mbfcb'[n]) ELSE << >>]
  BY DEF Stored, Exists
<1>3. [Stored EXCEPT ![m] = Contents(c)] =
        [n \in Mbf |-> IF n = m THEN Contents(c)
                       ELSE IF mbfcb[n].state = "KS_EXIST" THEN Contents(mbfcb[n]) ELSE << >>]
  BY DEF Stored, Exists
<1>4. ASSUME NEW n \in Mbf
      PROVE  (IF mbfcb'[n].state = "KS_EXIST" THEN Contents(mbfcb'[n]) ELSE << >>) =
             IF n = m THEN Contents(c)
             ELSE IF mbfcb[n].state = "KS_EXIST" THEN Contents(mbfcb[n]) ELSE << >>
  <2>1. CASE n = m
    BY <1>1, <2>1
  <2>2. CASE n # m
    BY <1>1, <2>2
  <2> QED
    BY <2>1, <2>2
<1> QED
  BY <1>2, <1>3, <1>4, Zenon

LEMMA StoredSame ==
  ASSUME mbfcb' = mbfcb
  PROVE  Stored' = Stored
  BY DEF Stored, Exists

\* To append to a list that is not empty and to take its first commute.
LEMMA AppendTail ==
  ASSUME NEW s \in Seq(Msg), s # << >>, NEW x \in Msg
  PROVE  /\ Append(s, x) # << >> /\ Head(Append(s, x)) = Head(s)
         /\ Tail(Append(s, x)) = Append(Tail(s), x)
<1> DEFINE t == Append(s, x)
           u == Tail(t)
           v == Append(Tail(s), x)
           n == Len(s)
<1>1. n \in Nat \ {0} /\ s[1] = Head(s)
  OBVIOUS
<1>2. t \in Seq(Msg) /\ t # << >> /\ Len(t) = n + 1 /\ t[n + 1] = x /\ \A i \in 1 .. n : t[i] = s[i]
  BY AppendIs
<1>3. Tail(s) \in Seq(Msg) /\ Len(Tail(s)) = n - 1 /\ \A i \in 1 .. n - 1 : Tail(s)[i] = s[i + 1]
  BY TailIs
<1>4. v \in Seq(Msg) /\ Len(v) = n - 1 + 1 /\ v[n - 1 + 1] = x /\ \A i \in 1 .. n - 1 : v[i] = Tail(s)[i]
  BY <1>3, AppendIs
<1> HIDE DEF t, v, n
<1>5. /\ u \in Seq(Msg) /\ Len(u) = n + 1 - 1 /\ Head(t) = t[1]
      /\ \A i \in 1 .. n + 1 - 1 : u[i] = t[i + 1]
  BY <1>1, <1>2, TailIs
<1> HIDE DEF u
<1>6. ASSUME NEW i \in 1 .. n PROVE u[i] = v[i]
  <2>1. u[i] = t[i + 1]
    BY <1>1, <1>5
  <2>2. CASE i = n
    BY <1>1, <1>2, <1>4, <2>1, <2>2
  <2>3. CASE i # n
    <3>1. i \in 1 .. n - 1 /\ i + 1 \in 1 .. n
      BY <1>1, <2>3
    <3> QED
      BY <1>2, <1>3, <1>4, <2>1, <3>1
  <2> QED
    BY <2>2, <2>3
<1>7. u = [i \in 1 .. n |-> u[i]] /\ v = [i \in 1 .. n |-> v[i]]
  BY <1>1, <1>4, <1>5
<1>8. u = v
  BY <1>6, <1>7, Zenon
<1>9. 1 \in 1 .. n
  BY <1>1
<1> QED
  BY <1>1, <1>2, <1>5, <1>8, <1>9 DEF t, u, v

ChannelStep == Channel!Next \/ UNCHANGED << Stored, received >>

\* A send stores, or passes a message on to the receiver that waits.
LEMMA SendIsChannel ==
  ASSUME WholeMessages, MInv, NEW m \in Mbf, NEW message \in Msg, Exists(m),
         HasRoom(mbfcb[m], Len(message)),
         NEW cb, cb = store_msg(mbfcb[m], message),
         \/ \E t \in Task :
              /\ received' = [received EXCEPT ![t] = MsgAt(cb, cb.buf_rp)]
              /\ mbfcb' = [mbfcb EXCEPT ![m] = Retrieved(cb)]
         \/ mbfcb' = [mbfcb EXCEPT ![m] = cb] /\ UNCHANGED received
  PROVE  Channel!Next
<1> DEFINE old == mbfcb[m]
           chan == Append(Contents(old), message)
<1>1. old \in Cb /\ RingInv(old) /\ MsgSz \in Byte /\ old.state = "KS_EXIST" /\ RingsInv
  BY DEF MInv, RingsInv, Exists
<1>2. old.freesz >= 2 * SlotSz
  BY <1>1, SizeType, RoomIs
<1>3. /\ cb \in Cb /\ RingInv(cb) /\ cb.state = "KS_EXIST" /\ cb.buf_rp # cb.buf_wp
      /\ Contents(cb) = chan
  BY <1>1, <1>2, StoreRing, StoreContents
<1>4. Stored[m] = Contents(old)
  BY DEF Stored
<1>5. ASSUME NEW t \in Task, received' = [received EXCEPT ![t] = MsgAt(cb, cb.buf_rp)],
             mbfcb' = [mbfcb EXCEPT ![m] = Retrieved(cb)]
      PROVE  Channel!Pass(message, t, m)
  <2>1. PICK c : c = Retrieved(cb)
    OBVIOUS
  <2>2. c \in Cb /\ c.state = "KS_EXIST"
    BY <1>3, <2>1, RetrieveRing
  <2>3. chan # << >> /\ Head(chan) = MsgAt(cb, cb.buf_rp) /\ Contents(c) = Tail(chan)
    BY <1>3, <2>1, RetrieveContents
  <2>4. mbfcb' = [mbfcb EXCEPT ![m] = c]
    BY <1>5, <2>1, Zenon
  <2>5. Stored' = [Stored EXCEPT ![m] = Contents(c)]
    BY <1>1, <2>2, <2>4, StoredChanges
  <2> HIDE DEF chan
  <2>6. Stored' = [Stored EXCEPT ![m] = Tail(chan)] /\ received' = [received EXCEPT ![t] = Head(chan)]
    BY <1>5, <2>3, <2>5
  <2>7. chan = Append(Stored[m], message)
    BY <1>4 DEF chan
  <2> QED
    BY <2>3, <2>6, <2>7 DEF Channel!Pass, Channel!Deliver, Stored
<1>6. ASSUME mbfcb' = [mbfcb EXCEPT ![m] = cb], UNCHANGED received
      PROVE  Channel!Send(m, message)
  <2>1. Stored' = [Stored EXCEPT ![m] = Contents(cb)]
    BY <1>1, <1>3, <1>6, StoredChanges
  <2>2. Stored' = [Stored EXCEPT ![m] = Append(Stored[m], message)]
    BY <1>3, <1>4, <2>1
  <2> QED
    BY <1>6, <2>2 DEF Channel!Send, Stored
<1> QED
  BY <1>5, <1>6 DEF Channel!Next

\* A receive takes the oldest message, and may store that of a sender that
\* waits.
LEMMA ReceiveIsChannel ==
  ASSUME WholeMessages, MInv, InTask, NEW m \in Mbf, Exists(m),
         mbfcb[m].buf_rp # mbfcb[m].buf_wp,
         received' = [received EXCEPT ![cur_task] = MsgAt(mbfcb[m], mbfcb[m].buf_rp)],
         NEW cb, cb = Retrieved(mbfcb[m]),
         \/ \E t \in Task : FirstSender(t, m) /\ mbfcb' = [mbfcb EXCEPT ![m] = store_msg(cb, msg[t])]
         \/ mbfcb' = [mbfcb EXCEPT ![m] = cb]
  PROVE  Channel!Next
<1> DEFINE old == mbfcb[m]
           chan == Contents(old)
<1>1. old \in Cb /\ RingInv(old) /\ MsgSz \in Byte /\ old.state = "KS_EXIST" /\ RingsInv
  BY DEF MInv, RingsInv, Exists
<1>2. /\ cb \in Cb /\ RingInv(cb) /\ cb.state = "KS_EXIST" /\ cb.freesz = old.freesz + SlotSz
  BY <1>1, RetrieveRing
<1>3. cb.freesz >= 2 * SlotSz
  <2>1. old.freesz \in Nat /\ old.freesz >= SlotSz /\ SlotSz \in Nat
    BY <1>1, RoomIs, SizeType DEF RingInv
  <2> HIDE DEF SlotSz
  <2> QED
    BY <1>2, <2>1
<1>4. chan # << >> /\ Head(chan) = MsgAt(old, old.buf_rp) /\ Contents(cb) = Tail(chan)
  BY <1>1, RetrieveContents
<1>5. Stored[m] = chan /\ chan \in Seq(Msg)
  BY <1>1, ContentsType DEF Stored
<1>6. cur_task \in Task
  BY CallerIsTop DEF MInv, KInv
<1>7. ASSUME NEW t \in Task, FirstSender(t, m), mbfcb' = [mbfcb EXCEPT ![m] = store_msg(cb, msg[t])]
      PROVE  Channel!Pass(msg[t], cur_task, m) /\ msg[t] \in Msg
  <2>1. PICK c : c = store_msg(cb, msg[t])
    OBVIOUS
  <2>2. msg[t] \in Msg
    BY <1>7 DEF FirstSender, FirstWaiter, MInv, WaitersInv
  <2>3. c \in Cb /\ c.state = "KS_EXIST" /\ Contents(c) = Append(Tail(chan), msg[t])
    BY <1>1, <1>2, <1>3, <1>4, <2>1, <2>2, StoreRing, StoreContents
  <2>4. mbfcb' = [mbfcb EXCEPT ![m] = c]
    BY <1>7, <2>1, Zenon
  <2>5. Stored' = [Stored EXCEPT ![m] = Contents(c)]
    BY <1>1, <2>3, <2>4, StoredChanges
  <2> DEFINE both == Append(chan, msg[t])
  <2>6. both # << >> /\ Head(both) = Head(chan) /\ Tail(both) = Append(Tail(chan), msg[t])
    BY <1>4, <1>5, <2>2, AppendTail
  <2> HIDE DEF both
  <2>7. Stored' = [Stored EXCEPT ![m] = Tail(both)] /\ received' = [received EXCEPT ![cur_task] = Head(both)]
    BY <1>4, <2>3, <2>5, <2>6
  <2>8. both = Append(Stored[m], msg[t])
    BY <1>5 DEF both
  <2> QED
    BY <2>2, <2>6, <2>7, <2>8 DEF Channel!Pass, Channel!Deliver, Stored
<1>8. ASSUME mbfcb' = [mbfcb EXCEPT ![m] = cb]
      PROVE  Channel!Receive(cur_task, m)
  <2>1. Stored' = [Stored EXCEPT ![m] = Contents(cb)]
    BY <1>1, <1>2, <1>8, StoredChanges
  <2> HIDE DEF chan
  <2>2. Stored' = [Stored EXCEPT ![m] = Tail(chan)] /\ received' = [received EXCEPT ![cur_task] = Head(chan)]
    BY <1>4, <2>1
  <2> QED
    BY <1>4, <1>5, <2>2 DEF Channel!Receive, Channel!Deliver, Stored
<1> QED
  BY <1>6, <1>7, <1>8 DEF Channel!Next

\* A new buffer is empty, as one that does not exist.
LEMMA CreateIsChannel ==
  ASSUME WholeMessages, MInv, NEW pk \in CMbf, tk_cre_mbf(pk)
  PROVE  UNCHANGED << Stored, received >>
<1> DEFINE new == [state |-> "KS_EXIST", bufsz |-> pk.bufsz, freesz |-> pk.bufsz,
                   buf_rp |-> 0, buf_wp |-> 0, mem |-> [a \in 0 .. pk.bufsz |-> 0]]
<1>1. PICK m \in Mbf : ~Exists(m) /\ mbfcb' = [mbfcb EXCEPT ![m] = new]
  BY DEF tk_cre_mbf
<1>2. received' = received
  BY DEF tk_cre_mbf
<1>3. new \in Cb /\ RingInv(new) /\ new.state = "KS_EXIST" /\ new.buf_rp = new.buf_wp
  BY NewRing
<1> HIDE DEF new
<1>4. Contents(new) = << >>
  BY <1>3, NewContents
<1>5. Stored' = [Stored EXCEPT ![m] = << >>]
  BY <1>1, <1>3, <1>4, StoredChanges DEF MInv
<1>6. Stored[m] = << >>
  BY <1>1 DEF Stored
<1>7. Stored = [n \in Mbf |-> Stored[n]]
  BY DEF Stored
<1> HIDE DEF Stored
<1>8. [Stored EXCEPT ![m] = << >>] = Stored
  BY <1>6, <1>7
<1> QED
  BY <1>2, <1>5, <1>8

LEMMA StepIsChannel ==
  ASSUME WholeMessages, MInv, [MbfNext]_allvars
  PROVE  ChannelStep
<1>1. ASSUME UNCHANGED << mbfcb, received >> PROVE ChannelStep
  BY <1>1, StoredSame DEF ChannelStep
<1>2. CASE UNCHANGED allvars
  BY <1>1, <1>2 DEF allvars, mbfvars
<1>3. CASE KernelStep
  BY <1>1, <1>3 DEF KernelStep, mbfvars
<1>4. CASE TaskCreatesMbf
  BY <1>4, CreateIsChannel DEF TaskCreatesMbf, ChannelStep
<1>5. CASE TaskSends
  <2> SUFFICES ASSUME NEW m \in Mbf, NEW message \in Msg, NEW tmout \in MbfTmo,
                      tk_snd_mbf(m, message, tmout)
               PROVE  ChannelStep
    BY <1>5 DEF TaskSends
  <2>1. CASE HasRoom(mbfcb[m], Len(message))
    BY <2>1, SendIsChannel DEF tk_snd_mbf, ChannelStep
  <2>2. CASE ~HasRoom(mbfcb[m], Len(message))
    BY <1>1, <2>2 DEF tk_snd_mbf, wait_for
  <2> QED
    BY <2>1, <2>2
<1>6. CASE TaskReceives
  <2> SUFFICES ASSUME InTask, NEW m \in Mbf, NEW tmout \in MbfTmo, tk_rcv_mbf(m, tmout)
               PROVE  ChannelStep
    BY <1>6 DEF TaskReceives
  <2>1. CASE mbfcb[m].buf_rp # mbfcb[m].buf_wp
    BY <2>1, ReceiveIsChannel DEF tk_rcv_mbf, ChannelStep
  <2>2. CASE mbfcb[m].buf_rp = mbfcb[m].buf_wp
    BY <1>1, <2>2 DEF tk_rcv_mbf, wait_for
  <2> QED
    BY <2>1, <2>2
<1> QED
  BY <1>2, <1>3, <1>4, <1>5, <1>6 DEF MbfNext

LEMMA InitIsChannel ==
  ASSUME MbfInit
  PROVE  Channel!Init
<1>1. \A m \in Mbf : ~Exists(m)
  BY DEF MbfInit, Exists
<1>2. Stored = [m \in Mbf |-> << >>]
  BY <1>1 DEF Stored
<1> QED
  BY <1>2 DEF MbfInit, Channel!Init, Stored

\* Under the same condition, messages come out of every buffer whole, once and in
\* the order in which they went in: with two pointers, freesz and bytes that stay
\* behind, whoever waits for whom and wherever the ring wraps round
\* (messagebuf.c:44-82, 97-114, 152-170).
THEOREM BuffersAreChannels ==
  ASSUME WholeMessages
  PROVE  MbfSpec => IsChannel
<1>1. MInv /\ [MbfNext]_allvars => ChannelStep
  BY StepIsChannel
<1>2. ChannelStep => [Channel!Next]_<< Stored, received >>
  BY DEF ChannelStep
<1> QED
  BY <1>1, <1>2, MbfInvariance, InitIsChannel, PTL DEF MbfSpec, IsChannel, Channel!Spec, Stored, allvars

=============================================================================
