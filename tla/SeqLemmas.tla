----------------------------- MODULE SeqLemmas -----------------------------
(***************************************************************************)
(* Facts about the sequences that stand for the kernel's queues: what      *)
(* adding at the end and removing at the front or in the middle does to    *)
(* the elements, for every set T of elements.                              *)
(***************************************************************************)
EXTENDS Integers, Sequences, SequencesExt, TLAPS

\* Adding at the end puts the new element behind all the others.
LEMMA AppendIs ==
  ASSUME NEW T, NEW s \in Seq(T), NEW t \in T
  PROVE  /\ Append(s, t) \in Seq(T)
         /\ Append(s, t) # << >>
         /\ Len(Append(s, t)) = Len(s) + 1
         /\ \A i \in 1 .. Len(s) : Append(s, t)[i] = s[i]
         /\ Append(s, t)[Len(s) + 1] = t
  OBVIOUS

\* Removing the front moves every other element up one place.
LEMMA TailIs ==
  ASSUME NEW T, NEW s \in Seq(T), s # << >>
  PROVE  /\ Tail(s) \in Seq(T)
         /\ Len(s) > 0
         /\ Len(Tail(s)) = Len(s) - 1
         /\ \A i \in 1 .. Len(s) - 1 : Tail(s)[i] = s[i + 1]
         /\ Head(s) = s[1]
         /\ Head(s) \in T
  OBVIOUS

\* A concatenation has the elements of the first sequence, then the second's.
LEMMA ConcatIs ==
  ASSUME NEW T, NEW a \in Seq(T), NEW b \in Seq(T)
  PROVE  /\ a \o b \in Seq(T)
         /\ Len(a \o b) = Len(a) + Len(b)
         /\ \A j \in 1 .. Len(a) : (a \o b)[j] = a[j]
         /\ \A j \in Len(a) + 1 .. Len(a) + Len(b) : (a \o b)[j] = b[j - Len(a)]
  OBVIOUS

\* Removing place i leaves the elements before it where they are and moves
\* those behind it up one place.
LEMMA RemoveAtIs ==
  ASSUME NEW T, NEW s \in Seq(T), NEW i \in 1 .. Len(s)
  PROVE  /\ RemoveAt(s, i) \in Seq(T)
         /\ Len(RemoveAt(s, i)) = Len(s) - 1
         /\ \A j \in 1 .. Len(s) - 1 :
              RemoveAt(s, i)[j] = IF j < i THEN s[j] ELSE s[j + 1]
<1> DEFINE a == SubSeq(s, 1, i - 1)
           b == SubSeq(s, i + 1, Len(s))
<1>1. a \in Seq(T) /\ Len(a) = i - 1 /\ \A j \in 1 .. i - 1 : a[j] = s[j]
  OBVIOUS
<1>2. b \in Seq(T) /\ Len(b) = Len(s) - i /\ \A j \in 1 .. Len(s) - i : b[j] = s[i + j]
  OBVIOUS
<1>3. RemoveAt(s, i) = a \o b
  BY DEF RemoveAt
<1> HIDE DEF a, b
<1>4. /\ a \o b \in Seq(T)
      /\ Len(a \o b) = Len(s) - 1
      /\ \A j \in 1 .. i - 1 : (a \o b)[j] = a[j]
      /\ \A j \in i .. Len(s) - 1 : (a \o b)[j] = b[j - (i - 1)]
  <2>1. Len(a) + Len(b) = Len(s) - 1 /\ Len(a) + 1 = i /\ Len(a) = i - 1
    BY <1>1, <1>2
  <2>2. /\ a \o b \in Seq(T)
        /\ Len(a \o b) = Len(a) + Len(b)
        /\ \A j \in 1 .. Len(a) : (a \o b)[j] = a[j]
        /\ \A j \in Len(a) + 1 .. Len(a) + Len(b) : (a \o b)[j] = b[j - Len(a)]
    BY <1>1, <1>2, ConcatIs
  <2> QED
    BY <2>1, <2>2
<1>5. ASSUME NEW j \in 1 .. Len(s) - 1
      PROVE  (a \o b)[j] = IF j < i THEN s[j] ELSE s[j + 1]
  <2> i \in Int /\ j \in Int
    OBVIOUS
  <2>1. CASE j < i
    BY <2>1, <1>1, <1>4
  <2>2. ASSUME j >= i
        PROVE  (a \o b)[j] = s[j + 1]
    <3>1. j - (i - 1) \in 1 .. Len(s) - i
      BY <2>2
    <3>2. b[j - (i - 1)] = s[i + (j - (i - 1))]
      BY <3>1, <1>2
    <3>3. i + (j - (i - 1)) = j + 1
      OBVIOUS
    <3>4. (a \o b)[j] = b[j - (i - 1)]
      <4>1. j \in i .. Len(s) - 1
        BY <2>2
      <4> QED
        BY <4>1, <1>4
    <3> QED
      BY <3>2, <3>3, <3>4
  <2>3. j < i \/ j >= i
    OBVIOUS
  <2>4. j >= i => ~(j < i)
    OBVIOUS
  <2> QED
    BY <2>1, <2>2, <2>3, <2>4, Zenon
<1> QED
  BY <1>3, <1>4, <1>5
=============================================================================
