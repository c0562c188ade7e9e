--------------------------- MODULE SequenceLemmas ---------------------------
(***************************************************************************)
(* What the queues of this code do: facts about appending to a sequence,   *)
(* taking its head and reading two sequences as one.                       *)
(***************************************************************************)
EXTENDS SequenceTheorems, WellFoundedInduction, TLAPS

\* A push (queueInLoop's push_back) adds exactly its element.
LEMMA RangeAppend ==
  ASSUME NEW S, NEW s \in Seq(S), NEW e \in S
  PROVE  Range(Append(s, e)) = Range(s) \cup {e}
<1>1. Range(<<e>>) = {e}
  BY DEF Range
<1>2. <<e>> \in Seq(S)
  OBVIOUS
<1>3. Range(s \o <<e>>) = Range(s) \cup Range(<<e>>)
  BY <1>2, RangeConcatenation
<1> QED BY <1>1, <1>3, AppendIsConcat

\* Taking the first element of a queue leaves the others.
LEMMA RangeHeadTail ==
  ASSUME NEW S, NEW s \in Seq(S), s # <<>>
  PROVE  /\ Head(s) \in Range(s)
         /\ Range(Tail(s)) \subseteq Range(s)
<1>1. Range(s) = {s[i] : i \in 1 .. Len(s)}
  BY RangeEquality
<1>2. /\ Tail(s) \in Seq(S)
      /\ Len(Tail(s)) = Len(s) - 1
      /\ \A i \in 1 .. Len(Tail(s)) : Tail(s)[i] = s[i + 1]
  BY HeadTailProperties
<1>3. Range(Tail(s)) = {Tail(s)[i] : i \in 1 .. Len(Tail(s))}
  BY <1>2, RangeEquality
<1>4. Len(s) \in Nat /\ Len(s) > 0 /\ Head(s) = s[1]
  OBVIOUS
<1>5. Head(s) \in Range(s)
  BY <1>1, <1>4
<1>6. Range(Tail(s)) \subseteq Range(s)
  BY <1>1, <1>2, <1>3, <1>4
<1> QED BY <1>5, <1>6

\* Pushing behind the second of two queues pushes behind both.
LEMMA ConcatAppend ==
  ASSUME NEW S, NEW s \in Seq(S), NEW t \in Seq(S), NEW e \in S
  PROVE  s \o Append(t, e) = Append(s \o t, e)
<1>1. <<e>> \in Seq(S)
  OBVIOUS
<1>2. s \o Append(t, e) = s \o (t \o <<e>>)
  BY AppendIsConcat
<1>3. Append(s \o t, e) = (s \o t) \o <<e>>
  BY AppendIsConcat, ConcatProperties
<1> QED BY <1>1, <1>2, <1>3, ConcatAssociative

\* The first element of a nonempty queue is the first of it and what follows.
LEMMA ConcatHeadTail ==
  ASSUME NEW S, NEW s \in Seq(S), NEW t \in Seq(S), s # <<>>
  PROVE  /\ s \o t # <<>>
         /\ Head(s \o t) = Head(s)
         /\ Tail(s \o t) = Tail(s) \o t
<1>1. /\ s \o t \in Seq(S)
      /\ Len(s \o t) = Len(s) + Len(t)
      /\ \A i \in 1 .. Len(s) + Len(t) :
           (s \o t)[i] = IF i <= Len(s) THEN s[i] ELSE t[i - Len(s)]
  BY ConcatProperties
<1>2. Len(s) \in Nat /\ Len(t) \in Nat /\ Len(s) > 0
  OBVIOUS
<1>3. s \o t # <<>>
  BY ConcatEqualIffEmpty
<1>4. Head(s \o t) = Head(s)
  <2>1. Head(s \o t) = (s \o t)[1] /\ Head(s) = s[1]
    OBVIOUS
  <2> QED BY <2>1, <1>1, <1>2
<1>5. /\ Tail(s) \in Seq(S)
      /\ Len(Tail(s)) = Len(s) - 1
      /\ \A i \in 1 .. Len(Tail(s)) : Tail(s)[i] = s[i + 1]
  BY HeadTailProperties
<1>6. /\ Tail(s) \o t \in Seq(S)
      /\ Len(Tail(s) \o t) = Len(Tail(s)) + Len(t)
      /\ \A i \in 1 .. Len(Tail(s)) + Len(t) :
           (Tail(s) \o t)[i] = IF i <= Len(Tail(s)) THEN Tail(s)[i]
                               ELSE t[i - Len(Tail(s))]
  BY <1>5, ConcatProperties
<1>7. /\ Tail(s \o t) \in Seq(S)
      /\ Len(Tail(s \o t)) = Len(s \o t) - 1
      /\ \A i \in 1 .. Len(Tail(s \o t)) : Tail(s \o t)[i] = (s \o t)[i + 1]
  BY <1>1, <1>3, HeadTailProperties
<1>8. Len(Tail(s \o t)) = Len(Tail(s) \o t)
  BY <1>1, <1>2, <1>5, <1>6, <1>7
<1>9. ASSUME NEW i \in 1 .. Len(Tail(s \o t))
      PROVE  Tail(s \o t)[i] = (Tail(s) \o t)[i]
  <2>1. /\ i \in Nat
        /\ i \in 1 .. Len(Tail(s)) + Len(t)
        /\ i + 1 \in 1 .. Len(s) + Len(t)
    BY <1>1, <1>2, <1>5, <1>7
  <2>2. Tail(s \o t)[i] =
          IF i + 1 <= Len(s) THEN s[i + 1] ELSE t[i + 1 - Len(s)]
    BY <1>1, <1>7, <2>1
  <2>3. (Tail(s) \o t)[i] =
          IF i <= Len(Tail(s)) THEN Tail(s)[i] ELSE t[i - Len(Tail(s))]
    BY <1>6, <2>1
  <2>4. CASE i + 1 <= Len(s)
    <3>1. i <= Len(Tail(s)) /\ i \in 1 .. Len(Tail(s))
      BY <1>2, <1>5, <2>1, <2>4
    <3> QED BY <1>5, <2>2, <2>3, <2>4, <3>1
  <2>5. CASE ~(i + 1 <= Len(s))
    <3>1. ~(i <= Len(Tail(s))) /\ i + 1 - Len(s) = i - Len(Tail(s))
      BY <1>2, <1>5, <2>1, <2>5
    <3> QED BY <2>2, <2>3, <2>5, <3>1
  <2> QED BY <2>4, <2>5
<1>10. Tail(s \o t) = Tail(s) \o t
  BY <1>6, <1>7, <1>8, <1>9, SeqEqual
<1> QED BY <1>3, <1>4, <1>10

\* Moving the head of the second queue to the end of the first leaves what
\* the two hold together.
LEMMA ConcatMoveHead ==
  ASSUME NEW S, NEW s \in Seq(S), NEW t \in Seq(S), t # <<>>
  PROVE  Append(s, Head(t)) \o Tail(t) = s \o t
<1>1. /\ Head(t) \in S /\ Tail(t) \in Seq(S)
      /\ Len(Tail(t)) = Len(t) - 1
      /\ \A i \in 1 .. Len(Tail(t)) : Tail(t)[i] = t[i + 1]
  BY HeadTailProperties
<1>2. <<Head(t)>> \in Seq(S)
  BY <1>1
<1>3. <<Head(t)>> \o Tail(t) = t
  <2>1. /\ <<Head(t)>> \o Tail(t) \in Seq(S)
        /\ Len(<<Head(t)>> \o Tail(t)) = 1 + Len(Tail(t))
        /\ \A i \in 1 .. 1 + Len(Tail(t)) : (<<Head(t)>> \o Tail(t))[i] =
             IF i <= 1 THEN <<Head(t)>>[i] ELSE Tail(t)[i - 1]
    BY <1>1, <1>2, ConcatProperties, Len(<<Head(t)>>) = 1
  <2>2. Len(t) \in Nat /\ Head(t) = t[1]
    OBVIOUS
  <2>3. ASSUME NEW i \in 1 .. Len(t)
        PROVE  (<<Head(t)>> \o Tail(t))[i] = t[i]
    <3>1. CASE i = 1
      BY <1>1, <2>1, <2>2, <3>1
    <3>2. CASE i # 1
      <4>1. i - 1 \in 1 .. Len(Tail(t)) /\ i \in 1 .. 1 + Len(Tail(t)) /\ ~(i <= 1)
        BY <1>1, <2>2, <3>2
      <4>2. Tail(t)[i - 1] = t[i - 1 + 1] /\ i - 1 + 1 = i
        BY <1>1, <4>1
      <4> QED BY <2>1, <4>1, <4>2
    <3> QED BY <3>1, <3>2
  <2>4. Len(<<Head(t)>> \o Tail(t)) = Len(t)
    BY <1>1, <2>1, <2>2
  <2> QED BY <2>1, <2>3, <2>4, SeqEqual
<1>4. Append(s, Head(t)) = s \o <<Head(t)>>
  BY <1>1, AppendIsConcat
<1> QED BY <1>1, <1>2, <1>3, <1>4, ConcatAssociative

\* A part of a sequence with room for an element has one.
LEMMA SubSeqNonEmpty ==
  ASSUME NEW S, NEW s \in Seq(S), NEW j \in Nat, NEW k \in Nat,
         1 <= j, j <= k, k <= Len(s)
  PROVE  SubSeq(s, j, k) # <<>>
<1>1. Len(SubSeq(s, j, k)) = k - j + 1
  BY SubSeqProperties
<1>2. Len(SubSeq(s, j, k)) # 0
  BY <1>1
<1> QED BY <1>2, EmptySeq

\* What a write takes of a buffer and what it leaves are the buffer.
LEMMA SplitAt ==
  ASSUME NEW S, NEW s \in Seq(S), NEW k \in 0 .. Len(s)
  PROVE  /\ SubSeq(s, 1, k) \in Seq(S)
         /\ SubSeq(s, k + 1, Len(s)) \in Seq(S)
         /\ SubSeq(s, 1, k) \o SubSeq(s, k + 1, Len(s)) = s
<1>1. SubSeq(s, 1, k) \in Seq(S) /\ SubSeq(s, k + 1, Len(s)) \in Seq(S)
  OBVIOUS
<1>2. Len(s) \in Nat
  OBVIOUS
<1>3. /\ 1 \in 1 .. Len(s) + 1 /\ k \in 1 - 1 .. Len(s)
      /\ Len(s) \in k .. Len(s)
  BY <1>2
<1>4. SubSeq(s, 1, k) \o SubSeq(s, k + 1, Len(s)) = SubSeq(s, 1, Len(s))
  BY <1>3, ConcatAdjacentSubSeq, Zenon
<1> QED BY <1>1, <1>4, SubSeqFull

\* A sequence begins each of its extensions.
LEMMA Begins ==
  ASSUME NEW S, NEW s \in Seq(S), NEW t \in Seq(S)
  PROVE  /\ Len(s) <= Len(s \o t)
         /\ SubSeq(s, 1, Len(s)) = SubSeq(s \o t, 1, Len(s))
<1>1. /\ s \o t \in Seq(S) /\ Len(s \o t) = Len(s) + Len(t)
      /\ \A i \in 1 .. Len(s) + Len(t) :
           (s \o t)[i] = IF i <= Len(s) THEN s[i] ELSE t[i - Len(s)]
  BY ConcatProperties
<1>2. Len(s) \in Nat /\ Len(t) \in Nat
  OBVIOUS
<1> DEFINE u == SubSeq(s \o t, 1, Len(s))
<1>3. u \in Seq(S) /\ Len(u) = Len(s)
  BY <1>1, <1>2
<1>4. \A i \in 1 .. Len(s) : u[i] = s[i]
  BY <1>1, <1>2
<1> HIDE DEF u
<1>5. s = u
  BY <1>3, <1>4, SeqEqual
<1> QED BY <1>1, <1>2, <1>5, SubSeqFull DEF u

\* What follows a sequence.
LEMMA SuffixOf ==
  ASSUME NEW S, NEW a \in Seq(S), NEW c \in Seq(S)
  PROVE  SubSeq(a \o c, Len(a) + 1, Len(a \o c)) = c
<1> DEFINE r == a \o c  u == SubSeq(r, Len(a) + 1, Len(r))
<1>1. /\ r \in Seq(S) /\ Len(r) = Len(a) + Len(c)
      /\ \A k \in 1 .. Len(a) + Len(c) :
           r[k] = IF k <= Len(a) THEN a[k] ELSE c[k - Len(a)]
  BY ConcatProperties
<1>2. Len(a) \in Nat /\ Len(c) \in Nat
  OBVIOUS
<1> HIDE DEF r
<1>3. \A k \in Len(a) + 1 .. Len(r) : r[k] \in S
  BY <1>1, <1>2
<1>4. /\ u \in Seq(S)
      /\ Len(u) = IF Len(a) + 1 <= Len(r) THEN (Len(r) - (Len(a) + 1)) + 1 ELSE 0
      /\ \A k \in 1 .. (Len(r) - (Len(a) + 1)) + 1 : u[k] = r[((Len(a) + 1) + k) - 1]
  <2>1. Len(a) + 1 \in Int /\ Len(r) \in Int
    BY <1>1, <1>2
  <2> QED BY <1>3, <2>1, SubSeqProperties
<1> HIDE DEF u
<1>5. Len(u) = Len(c) /\ (Len(r) - (Len(a) + 1)) + 1 = Len(c)
  BY <1>1, <1>2, <1>4
<1>6. ASSUME NEW k \in 1 .. Len(c) PROVE u[k] = c[k]
  <2>1. /\ ((Len(a) + 1) + k) - 1 = Len(a) + k
        /\ Len(a) + k \in 1 .. Len(a) + Len(c)
        /\ ~(Len(a) + k <= Len(a)) /\ (Len(a) + k) - Len(a) = k
    BY <1>2
  <2> QED BY <1>1, <1>4, <1>5, <2>1
<1>7. u = c
  BY <1>4, <1>5, <1>6, SeqEqual
<1> QED BY <1>7 DEF u, r

-----------------------------------------------------------------------------
(* Numbers.                                                                *)

\* A set of naturals that is not empty has a least element.
LEMMA LeastOf ==
  ASSUME NEW T \in SUBSET Nat, T # {}
  PROVE  \E x \in T : \A y \in T : x <= y
<1> DEFINE R == OpToRel(<, Nat)
<1>1. IsWellFoundedOn(R, Nat)
  BY NatLessThanWellFounded, Zenon
<1>2. ASSUME NEW x \in T, NEW y \in T, <<y, x>> \notin R PROVE x <= y
  BY <1>2 DEF OpToRel
<1> HIDE DEF R
<1>3. PICK x \in T : \A y \in T : ~ (<<y, x>> \in R)
  BY <1>1, WFMin
<1> QED BY <1>2, <1>3

\* What holds at the front and goes from a number to the next holds up to n.
LEMMA UpTo ==
  ASSUME NEW n \in Nat, NEW S \in SUBSET Nat, 0 \in S,
         \A k \in 1..n : k - 1 \in S => k \in S
  PROVE  0..n \subseteq S
<1> DEFINE T == {k \in 0..n : k \notin S}
<1>1. T \in SUBSET Nat
  OBVIOUS
<1>2. ASSUME T # {} PROVE FALSE
  <2>1. PICK x \in T : \A y \in T : x <= y
    BY <1>1, <1>2, LeastOf
  <2>2. x \in 1..n /\ x \notin S
    BY <2>1
  <2>3. x - 1 \in 0..n /\ x - 1 \notin T
    BY <2>1, <2>2
  <2> QED BY <2>2, <2>3
<1> QED BY <1>2

\* A set of sequences that holds the empty one, and with each its appendings,
\* holds all.
LEMMA SeqByAppend ==
  ASSUME NEW S, NEW T, <<>> \in T,
         \A c \in Seq(S), e \in S : c \in T => Append(c, e) \in T
  PROVE  Seq(S) \subseteq T
<1> SUFFICES ASSUME NEW b \in Seq(S) PROVE b \in T
  OBVIOUS
<1> DEFINE P(k) == SubSeq(b, 1, k)
           N == {k \in Nat : k <= Len(b) => P(k) \in T}
<1>1. Len(b) \in Nat
  OBVIOUS
<1>2. 0 \in N
  <2>1. P(0) = <<>>
    BY <1>1
  <2> QED BY <2>1
<1>3. ASSUME NEW k \in 1..Len(b), k - 1 \in N PROVE k \in N
  <2>1. P(k - 1) \in T
    BY <1>1, <1>3
  <2>2. P(k - 1) \in Seq(S) /\ b[k] \in S
    BY <1>1
  <2>3. P(k) = Append(P(k - 1), b[k])
    BY <1>1
  <2> HIDE DEF P
  <2>4. P(k) \in T
    BY <2>1, <2>2, <2>3
  <2> QED BY <2>4
<1>4. 0..Len(b) \subseteq N
  <2>1. N \in SUBSET Nat
    OBVIOUS
  <2> HIDE DEF N
  <2> QED BY <1>1, <1>2, <1>3, <2>1, UpTo
<1>5. P(Len(b)) \in T
  BY <1>1, <1>4
<1>6. P(Len(b)) = b
  BY <1>1
<1> QED BY <1>5, <1>6
=============================================================================
