---------------------------- MODULE StreamsProofs ----------------------------
(***************************************************************************)
(* Facts about byte streams that the components' proofs cite: how a run of *)
(* bytes grows, how a read divides it, and what stands at a position of a  *)
(* stream; and the induction over the numbers, which follows from what is  *)
(* known of finite sets.                                                   *)
(***************************************************************************)
EXTENDS Streams, Integers, SequenceTheorems, FiniteSetTheorems, TLAPS

\* A run of bytes is a sequence of numbers.
LEMMA SpanIsSeq ==
  ASSUME NEW a \in Nat, NEW b \in Nat, a <= b
  PROVE  /\ Span(a, b) \in Seq(Numbers)
         /\ Len(Span(a, b)) = b - a
         /\ \A i \in 1 .. (b - a) : Span(a, b)[i] = a + i
  BY DEF Span, Numbers

\* The next byte that an end sends prolongs the run.
LEMMA SpanAppend ==
  ASSUME NEW b \in Nat
  PROVE  Append(Span(0, b), b + 1) = Span(0, b + 1)
<1> DEFINE s == Append(Span(0, b), b + 1)
           t == Span(0, b + 1)
<1>1. Span(0, b) \in Seq(Numbers) /\ Len(Span(0, b)) = b
  BY SpanIsSeq
<1>2. /\ t \in Seq(Numbers) /\ Len(t) = b + 1
      /\ \A i \in 1 .. b + 1 : t[i] = i
  BY DEF Span, Numbers
<1>3. b + 1 \in Numbers
  BY DEF Numbers
<1>4. /\ s \in Seq(Numbers) /\ Len(s) = b + 1
      /\ \A i \in 1 .. b : s[i] = Span(0, b)[i]
      /\ s[b + 1] = b + 1
  BY <1>1, <1>3, AppendProperties
<1>5. \A i \in 1 .. b : Span(0, b)[i] = i
  BY DEF Span
<1>6. \A i \in 1 .. Len(s) : s[i] = t[i]
  BY <1>2, <1>4, <1>5
<1> HIDE DEF s, t
<1>7. s = t
  BY <1>2, <1>4, <1>6, SeqEqual
<1> QED
  BY <1>7 DEF s, t

\* A prefix of what was sent is itself a run.
LEMMA SpanPrefix ==
  ASSUME NEW s \in Seq(Numbers), NEW t \in Seq(Numbers), NEW b \in Nat,
         s \o t = Span(0, b)
  PROVE  Len(s) \in 0 .. b /\ s = Span(0, Len(s))
<1> DEFINE n == Len(s)
           u == Span(0, n)
<1>1. n \in Nat /\ Len(t) \in Nat
  BY LenProperties
<1>2. /\ Len(s \o t) = n + Len(t)
      /\ \A i \in 1 .. n : (s \o t)[i] = s[i]
  BY <1>1, ConcatProperties
<1>3. Len(Span(0, b)) = b /\ \A i \in 1 .. b : Span(0, b)[i] = i
  BY DEF Span
<1>4. n \in 0 .. b
  BY <1>1, <1>2, <1>3
<1>5. u \in Seq(Numbers) /\ Len(u) = n /\ \A i \in 1 .. n : u[i] = i
  BY <1>1 DEF Span, Numbers
<1>6. \A i \in 1 .. Len(s) : s[i] = u[i]
  BY <1>2, <1>3, <1>4, <1>5
<1> HIDE DEF u
<1>7. s = u
  BY <1>5, <1>6, SeqEqual
<1> QED
  BY <1>4, <1>7 DEF u

\* A read splits a stream into what it takes and what it leaves.
LEMMA ReadSplits ==
  ASSUME NEW s \in Seq(Numbers), NEW n \in 0 .. Len(s)
  PROVE  /\ Taken(s, n) \in Seq(Numbers)
         /\ Remaining(s, n) \in Seq(Numbers)
         /\ Len(Taken(s, n)) = n
         /\ Taken(s, n) \o Remaining(s, n) = s
<1>1. Len(s) \in Nat /\ \A i \in 1 .. Len(s) : s[i] \in Numbers
  BY LenProperties, ElementOfSeq
<1>2. SubSeq(s, 1, n) \in Seq(Numbers) /\ Len(SubSeq(s, 1, n)) = n
  BY <1>1, SubSeqProperties
<1>3. SubSeq(s, n + 1, Len(s)) \in Seq(Numbers)
  BY <1>1, SubSeqProperties
<1>4. SubSeq(s, 1, n) \o SubSeq(s, n + 1, Len(s)) = SubSeq(s, 1, Len(s))
  <2>1. 1 \in 1 .. Len(s) + 1 /\ n \in 1 - 1 .. Len(s) /\ Len(s) \in n .. Len(s)
    BY <1>1
  <2> QED
    BY <2>1, ConcatAdjacentSubSeq
<1> QED
  BY <1>2, <1>3, <1>4, SubSeqFull DEF Taken, Remaining

\* What is written to a stream only makes it longer.
LEMMA ConcatGrows ==
  ASSUME NEW s \in Seq(Numbers), NEW t \in Seq(Numbers)
  PROVE  Len(s) <= Len(s \o t)
<1>1. Len(s \o t) = Len(s) + Len(t) /\ Len(s) \in Nat /\ Len(t) \in Nat
  BY ConcatProperties, LenProperties
<1> QED
  BY <1>1

-----------------------------------------------------------------------------
\* A slice has what the sequence has there.
LEMMA SliceOfSeq ==
  ASSUME NEW S, NEW s \in Seq(S), NEW m \in Nat, NEW n \in Nat, n <= Len(s)
  PROVE  /\ SubSeq(s, m + 1, n) \in Seq(S)
         /\ m <= n => Len(SubSeq(s, m + 1, n)) = n - m
         /\ \A i \in 1 .. n - m : SubSeq(s, m + 1, n)[i] = s[m + i]
<1>1. Len(s) \in Nat /\ \A i \in m + 1 .. n : s[i] \in S
  BY LenProperties, ElementOfSeq
<1> DEFINE cut == SubSeq(s, m + 1, n)
<1>2. /\ cut \in Seq(S)
      /\ Len(cut) = IF m + 1 <= n THEN n - (m + 1) + 1 ELSE 0
      /\ \A i \in 1 .. n - (m + 1) + 1 : cut[i] = s[m + 1 + i - 1]
  BY <1>1, SubSeqProperties
<1> HIDE DEF cut
<1>3. ASSUME NEW i \in 1 .. n - m PROVE cut[i] = s[m + i]
  <2>1. n - (m + 1) + 1 = n - m /\ m + 1 + i - 1 = m + i
    OBVIOUS
  <2> QED
    BY <1>2, <2>1
<1>4. m <= n => Len(cut) = n - m
  BY <1>2
<1> QED
  BY <1>2, <1>3, <1>4 DEF cut

\* What is in a sequence from a position on, which counts from 0.
StandsAt(s, i, b) == i + Len(b) <= Len(s) /\ \A k \in 1 .. Len(b) : s[i + k] = b[k]

\* Two sequences in a row stand where the first one stands and the second behind it.
LEMMA StandsInARow ==
  ASSUME NEW S, NEW s \in Seq(S), NEW a \in Seq(S), NEW b \in Seq(S), NEW i \in Nat
  PROVE  StandsAt(s, i, a \o b) <=> StandsAt(s, i, a) /\ StandsAt(s, i + Len(a), b)
<1>1. Len(s) \in Nat /\ Len(a) \in Nat /\ Len(b) \in Nat
  BY LenProperties
<1>2. /\ Len(a \o b) = Len(a) + Len(b)
      /\ \A k \in 1 .. Len(a) : (a \o b)[k] = a[k]
      /\ \A k \in 1 .. Len(b) : (a \o b)[Len(a) + k] = b[k]
  BY ConcatProperties, <1>1
<1> DEFINE m == Len(a)
           n == Len(b)
           l == Len(s)
           ab == a \o b
<1>3. /\ m \in Nat /\ n \in Nat /\ l \in Nat /\ Len(ab) = m + n
      /\ \A k \in 1 .. m : ab[k] = a[k]
      /\ \A k \in 1 .. n : ab[m + k] = b[k]
  BY <1>1, <1>2
<1> HIDE DEF ab, m, n, l
<1>4. ASSUME i + (m + n) <= l, \A k \in 1 .. m + n : s[i + k] = ab[k]
      PROVE  /\ i + m <= l /\ \A k \in 1 .. m : s[i + k] = a[k]
             /\ i + m + n <= l /\ \A k \in 1 .. n : s[i + m + k] = b[k]
  <2>1. ASSUME NEW k \in 1 .. m PROVE s[i + k] = a[k]
    BY <1>3, <1>4
  <2>2. ASSUME NEW k \in 1 .. n PROVE s[i + m + k] = b[k]
    <3>1. m + k \in 1 .. m + n /\ i + (m + k) = i + m + k
      BY <1>3
    <3> QED
      BY <1>3, <1>4, <3>1
  <2> QED
    BY <1>3, <1>4, <2>1, <2>2
<1>5. ASSUME i + m <= l, \A k \in 1 .. m : s[i + k] = a[k],
             i + m + n <= l, \A k \in 1 .. n : s[i + m + k] = b[k]
      PROVE  i + (m + n) <= l /\ \A k \in 1 .. m + n : s[i + k] = ab[k]
  <2>1. ASSUME NEW k \in 1 .. m + n PROVE s[i + k] = ab[k]
    <3>1. CASE k <= m
      BY <1>3, <1>5, <3>1
    <3>2. CASE k > m
      <4>1. k - m \in 1 .. n /\ m + (k - m) = k /\ i + m + (k - m) = i + k
        BY <1>3, <3>2
      <4> QED
        BY <1>3, <1>5, <4>1
    <3> QED
      BY <1>3, <3>1, <3>2
  <2> QED
    BY <1>3, <1>5, <2>1
<1>6. Len(ab) = m + n
  BY <1>3
<1> QED
  BY <1>4, <1>5, <1>6 DEF StandsAt, ab, m, n, l

\* What stands at a position is the slice of its length.
LEMMA StandingSlice ==
  ASSUME NEW S, NEW s \in Seq(S), NEW b \in Seq(S), NEW i \in Nat, StandsAt(s, i, b)
  PROVE  SubSeq(s, i + 1, i + Len(b)) = b
<1>1. Len(s) \in Nat /\ Len(b) \in Nat /\ i + Len(b) <= Len(s)
  BY LenProperties DEF StandsAt
<1> DEFINE cut == SubSeq(s, i + 1, i + Len(b))
<1>2. \A k \in i + 1 .. i + Len(b) : s[k] \in S
  BY <1>1, ElementOfSeq
<1>3. cut \in Seq(S) /\ Len(cut) = Len(b)
  BY <1>1, <1>2, SubSeqProperties
<1>4. ASSUME NEW k \in 1 .. Len(b) PROVE cut[k] = b[k]
  <2>1. cut[k] = s[i + 1 + k - 1]
    BY <1>1, SubSeqProperties
  <2>2. i + 1 + k - 1 = i + k
    BY <1>1
  <2> QED
    BY <2>1, <2>2 DEF StandsAt
<1> HIDE DEF cut
<1>5. cut = b
  BY <1>3, <1>4, SeqEqual
<1> QED
  BY <1>5 DEF cut

\* A sequence stands at the start of what begins with it.
LEMMA StandsFirst ==
  ASSUME NEW S, NEW a \in Seq(S), NEW b \in Seq(S)
  PROVE  StandsAt(a \o b, 0, a)
<1>1. Len(a) \in Nat /\ Len(b) \in Nat /\ Len(a \o b) = Len(a) + Len(b)
  BY LenProperties, ConcatProperties
<1>2. \A k \in 1 .. Len(a) : (a \o b)[0 + k] = a[k]
  BY <1>1, ConcatProperties
<1> QED
  BY <1>1, <1>2 DEF StandsAt

-----------------------------------------------------------------------------
\* A set of numbers has a least one: the set of the numbers below it is among those of the
\* others a smallest set.
LEMMA LeastNumber ==
  ASSUME NEW T \in SUBSET Nat, T # {}
  PROVE  \E m \in T : \A k \in T : m <= k
<1> DEFINE Below(n) == 0 .. n - 1
           Segments == {Below(n) : n \in T}
<1>1. Segments \subseteq FiniteSubsetsOf(Nat) /\ Segments # {}
  <2>1. ASSUME NEW n \in T PROVE Below(n) \in SUBSET Nat /\ IsFiniteSet(Below(n))
    <3>1. n \in Nat
      OBVIOUS
    <3>2. 0 \in Int /\ n - 1 \in Int
      BY <3>1
    <3>3. IsFiniteSet(Below(n))
      BY <3>2, FS_Interval
    <3> QED
      BY <3>1, <3>3
  <2> QED
    BY <2>1 DEF FiniteSubsetsOf
<1>2. PICK s \in Segments : \A t \in Segments : ~ (<<t, s>> \in StrictSubsetOrdering(Nat))
  <2>1. IsWellFoundedOn(StrictSubsetOrdering(Nat), FiniteSubsetsOf(Nat))
    BY FS_StrictSubsetOrderingWellFounded
  <2> HIDE DEF Segments
  <2> QED
    BY <1>1, <2>1, WFMin
<1>3. PICK m \in T : s = Below(m)
  BY <1>2
<1>4. ASSUME NEW k \in T, k < m PROVE FALSE
  <2>1. k \in Nat /\ m \in Nat
    OBVIOUS
  <2>2. Below(k) \subseteq Below(m) /\ Below(k) # Below(m) /\ Below(m) \subseteq Nat
    <3>1. k \in Below(m) /\ k \notin Below(k)
      BY <1>4, <2>1
    <3> QED
      BY <1>4, <2>1, <3>1
  <2>3. <<Below(k), Below(m)>> \in StrictSubsetOrdering(Nat)
    BY <2>2 DEF StrictSubsetOrdering
  <2> QED
    BY <1>2, <1>3, <2>3
<1> QED
  BY <1>4

\* What holds for 0 and passes from each number to the next holds for all of them.
LEMMA NumbersByInduction ==
  ASSUME NEW S, 0 \in S, \A n \in Nat : n \in S => n + 1 \in S
  PROVE  Nat \subseteq S
<1> SUFFICES ASSUME Nat \ S # {} PROVE FALSE
  OBVIOUS
<1>1. PICK m \in Nat \ S : \A k \in Nat \ S : m <= k
  BY LeastNumber
<1>2. m - 1 \in Nat /\ m - 1 \notin Nat \ S
  BY <1>1
<1> QED
  BY <1>1, <1>2

\* What passes to each number of an interval from all those above it holds for all of it.
LEMMA DownwardInduction ==
  ASSUME NEW n \in Nat, NEW S,
         \A i \in 0 .. n : (\A j \in i + 1 .. n : j \in S) => i \in S
  PROVE  0 .. n \subseteq S
<1> DEFINE T == {k \in 0 .. n : n - k \notin S}
<1>1. ASSUME T # {} PROVE FALSE
  <2>1. PICK k \in T : \A l \in T : k <= l
    <3>1. T \in SUBSET Nat
      OBVIOUS
    <3> QED
      BY <1>1, <3>1, LeastNumber, Zenon
  <2>2. ASSUME NEW j \in n - k + 1 .. n PROVE j \in S
    <3>1. n - j \in 0 .. n /\ n - (n - j) = j /\ n - j < k
      BY <2>1
    <3>2. n - j \notin T
      BY <2>1, <3>1
    <3> QED
      BY <3>1, <3>2
  <2> QED
    BY <2>1, <2>2
<1>2. ASSUME NEW i \in 0 .. n PROVE i \in S
  <2>1. n - i \in 0 .. n /\ n - (n - i) = i
    OBVIOUS
  <2> QED
    BY <1>1, <2>1
<1> QED
  BY <1>2
=============================================================================
