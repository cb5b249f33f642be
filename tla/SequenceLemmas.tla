---------------------------- MODULE SequenceLemmas ----------------------------
(***************************************************************************)
(* Facts about numbers and sequences that the proofs of several components  *)
(* need: induction up to a bound, what removing an element does, where the  *)
(* elements of several sequences are in all of them joined, that what they  *)
(* hold in ascending order determines a sequence, and that a finite set can *)
(* be put in order.                                                         *)
(***************************************************************************)
EXTENDS Integers, SequencesExt, SequenceTheorems, FiniteSetTheorems,
        WellFoundedInduction, TLAPS

(* Induction up to a bound, for the numbers of a given set.                 *)
LEMMA UpToBound ==
  ASSUME NEW n \in Nat, NEW P, 0 \in P,
         \A k \in 1..n : k - 1 \in P => k \in P
  PROVE  0..n \subseteq P
<1> DEFINE R == {ss \in Nat \X Nat : ss[1] < ss[2]}
           Bad == (0..n) \ P
<1>1. IsWellFoundedOn(R, Nat)
  BY NatLessThanWellFounded DEF OpToRel
<1>2. \A x, y \in Nat : <<y, x>> \in R <=> y < x
  OBVIOUS
<1> HIDE DEF R
<1> SUFFICES ASSUME Bad # {} PROVE FALSE
  OBVIOUS
<1>3. Bad \subseteq Nat
  OBVIOUS
<1>4. PICK x \in Bad : \A y \in Bad : <<y, x>> \notin R
  BY <1>1, <1>3, WFMin
<1>5. x \in 1..n /\ x - 1 \in 0..n
  OBVIOUS
<1>6. x - 1 \notin Bad
  <2>1. x - 1 < x /\ x - 1 \in Nat /\ x \in Nat
    BY <1>5
  <2>2. <<x - 1, x>> \in R
    BY <1>2, <2>1
  <2> QED
    BY <1>4, <2>2
<1> QED
  BY <1>4, <1>5, <1>6

(* Later elements move up by one.                                           *)
LEMMA RemoveAtIs ==
  ASSUME NEW S, NEW s \in Seq(S), NEW i \in 1..Len(s)
  PROVE  /\ RemoveAt(s, i) \in Seq(S)
         /\ Len(RemoveAt(s, i)) = Len(s) - 1
         /\ \A k \in 1..(Len(s) - 1) :
              RemoveAt(s, i)[k] = IF k < i THEN s[k] ELSE s[k + 1]
<1> DEFINE a == SubSeq(s, 1, i - 1)
           b == SubSeq(s, i + 1, Len(s))
<1>1. Len(s) \in Nat /\ i \in Nat /\ 1 <= i /\ i <= Len(s)
  OBVIOUS
<1>2. /\ a \in Seq(S) /\ Len(a) = i - 1
      /\ \A k \in 1..(i - 1) : a[k] = s[k]
  BY <1>1
<1>3. /\ b \in Seq(S) /\ Len(b) = Len(s) - i
      /\ \A k \in 1..(Len(s) - i) : b[k] = s[k + i]
  <2>1. b \in Seq(S) /\ Len(b) = Len(s) - i
    BY <1>1
  <2>2. ASSUME NEW k \in 1..(Len(s) - i)
        PROVE  b[k] = s[k + i]
    <3>1. b = [j \in 1..(Len(s) - i) |-> s[(i + 1) + j - 1]]
      BY <1>1
    <3>2. (i + 1) + k - 1 = k + i
      BY <1>1
    <3> QED
      BY <3>1, <3>2
  <2> QED
    BY <2>1, <2>2
<1>4. RemoveAt(s, i) = a \o b
  BY DEF RemoveAt
<1> HIDE DEF a, b
<1>5. a \o b \in Seq(S) /\ Len(a \o b) = Len(s) - 1
  <2>1. a \o b \in Seq(S) /\ Len(a \o b) = Len(a) + Len(b)
    BY <1>2, <1>3, ConcatProperties
  <2> QED
    BY <1>1, <1>2, <1>3, <2>1
<1>6. ASSUME NEW k \in 1..(Len(s) - 1)
      PROVE  (a \o b)[k] = IF k < i THEN s[k] ELSE s[k + 1]
  <2>1. (a \o b)[k] = IF k <= Len(a) THEN a[k] ELSE b[k - Len(a)]
    BY <1>1, <1>2, <1>3
  <2>2. CASE k < i
    BY <1>1, <1>2, <2>1, <2>2
  <2>3. CASE ~(k < i)
    <3>1. k - (i - 1) \in 1..(Len(s) - i) /\ ~(k <= i - 1)
      BY <1>1, <2>3
    <3>2. (k - (i - 1)) + i = k + 1
      BY <1>1
    <3>3. b[k - (i - 1)] = s[k + 1]
      BY <1>3, <3>1, <3>2
    <3> QED
      BY <1>2, <2>1, <2>3, <3>1, <3>3
  <2> QED
    BY <2>2, <2>3
<1> QED
  BY <1>4, <1>5, <1>6

-----------------------------------------------------------------------------
(* What joining two sequences does.                                         *)
LEMMA ConcatIs ==
  ASSUME NEW S, NEW a \in Seq(S), NEW b \in Seq(S)
  PROVE  /\ a \o b \in Seq(S)
         /\ Len(a) \in Nat /\ Len(b) \in Nat /\ Len(a \o b) = Len(a) + Len(b)
         /\ \A i \in 1..Len(a) : (a \o b)[i] = a[i]
         /\ \A m \in 1..Len(b) : (a \o b)[Len(a) + m] = b[m]
<1>1. a \o b \in Seq(S) /\ Len(a \o b) = Len(a) + Len(b)
  BY ConcatProperties
<1>2. Len(a) \in Nat /\ Len(b) \in Nat
  OBVIOUS
<1>3. ASSUME NEW i \in 1..Len(a)
      PROVE  (a \o b)[i] = a[i]
  OBVIOUS
<1>4. ASSUME NEW m \in 1..Len(b)
      PROVE  (a \o b)[Len(a) + m] = b[m]
  <2>1. Len(a) + m \in 1..(Len(a) + Len(b)) /\ ~(Len(a) + m <= Len(a))
    BY <1>2
  <2>2. (a \o b)[Len(a) + m] = b[(Len(a) + m) - Len(a)]
    BY <2>1
  <2>3. (Len(a) + m) - Len(a) = m
    BY <1>2
  <2> QED
    BY <2>2, <2>3
<1> QED
  BY <1>1, <1>2, <1>3, <1>4

LEMMA PlaceWithin ==
  ASSUME NEW a \in Nat, NEW l \in Nat, NEW b \in Nat, a + l <= b,
         NEW m \in 1..l
  PROVE  a + m \in 1..b
OBVIOUS

LEMMA FunctionIsSeq ==
  ASSUME NEW S, NEW n \in Nat, NEW s, s = [i \in 1..n |-> s[i]],
         \A i \in 1..n : s[i] \in S
  PROVE  s \in Seq(S) /\ Len(s) = n
OBVIOUS

(* Several sequences joined.  off[k] is how many elements the first k have. *)

IsOffsets(off, ss) ==
  /\ off \in [0..Len(ss) -> Nat]
  /\ off[0] = 0
  /\ \A k \in 1..Len(ss) : off[k] = off[k - 1] + Len(ss[k])

LEMMA OffsetsGrow ==
  ASSUME NEW S, NEW ss \in Seq(Seq(S)), NEW off, IsOffsets(off, ss),
         NEW k \in 0..Len(ss), NEW n \in 0..Len(ss), k <= n
  PROVE  off[k] <= off[n]
<1> DEFINE P == {j \in 0..Len(ss) : j < k \/ off[k] <= off[j]}
<1>1. /\ Len(ss) \in Nat /\ \A j \in 0..Len(ss) : off[j] \in Nat
      /\ \A j \in 1..Len(ss) : Len(ss[j]) \in Nat
  <2>1. Len(ss) \in Nat /\ \A j \in 1..Len(ss) : ss[j] \in Seq(S)
    OBVIOUS
  <2>2. \A j \in 0..Len(ss) : off[j] \in Nat
    BY DEF IsOffsets
  <2> QED
    BY <2>1, <2>2
<1>2. 0 \in P
  BY <1>1
<1>3. ASSUME NEW j \in 1..Len(ss), j - 1 \in P
      PROVE  j \in P
  <2>1. j - 1 \in 0..Len(ss) /\ j \in 0..Len(ss)
    BY <1>1
  <2>2. off[j] = off[j - 1] + Len(ss[j])
    BY DEF IsOffsets
  <2>3. off[j] \in Nat /\ off[j - 1] \in Nat /\ Len(ss[j]) \in Nat /\ off[k] \in Nat
    BY <1>1, <2>1
  <2>4. CASE j <= k
    BY <1>1, <2>1, <2>3, <2>4
  <2>5. CASE ~(j <= k)
    <3>1. ~(j - 1 < k)
      BY <1>1, <2>5
    <3>2. off[k] <= off[j - 1]
      BY <1>3, <3>1
    <3>3. off[k] <= off[j]
      BY <2>2, <2>3, <3>2
    <3> QED
      BY <2>1, <3>3
  <2> QED
    BY <2>4, <2>5
<1> HIDE DEF P
<1>4. 0..Len(ss) \subseteq P
  BY <1>1, <1>2, <1>3, UpToBound
<1>5. n \in P
  BY <1>4
<1>6. ~(n < k)
  BY <1>1
<1> QED
  BY <1>5, <1>6 DEF P

IsPlace(i, ss, off) ==
  \E k \in 1..Len(ss) : \E m \in 1..Len(ss[k]) : i = off[k - 1] + m

(* Every place in the joined sequence is a place in one of them.            *)
LEMMA OffsetsCover ==
  ASSUME NEW S, NEW ss \in Seq(Seq(S)), NEW off, IsOffsets(off, ss),
         NEW i \in 1..off[Len(ss)]
  PROVE  IsPlace(i, ss, off)
<1> DEFINE In(j) == \E k \in 1..j : \E m \in 1..Len(ss[k]) : i = off[k - 1] + m
           P == {j \in 0..Len(ss) : i <= off[j] => In(j)}
<1>1. /\ Len(ss) \in Nat /\ \A j \in 0..Len(ss) : off[j] \in Nat
      /\ \A j \in 1..Len(ss) : Len(ss[j]) \in Nat
  <2>1. Len(ss) \in Nat /\ \A j \in 1..Len(ss) : ss[j] \in Seq(S)
    OBVIOUS
  <2>2. \A j \in 0..Len(ss) : off[j] \in Nat
    BY DEF IsOffsets
  <2> QED
    BY <2>1, <2>2
<1>2. i \in Nat /\ 1 <= i /\ i <= off[Len(ss)]
  BY <1>1
<1>3. 0 \in P
  <2>1. 0 \in 0..Len(ss) /\ off[0] = 0
    BY <1>1 DEF IsOffsets
  <2>2. ~(i <= off[0])
    BY <1>2, <2>1
  <2> QED
    BY <2>1, <2>2
<1>4. ASSUME NEW j \in 1..Len(ss), j - 1 \in P
      PROVE  j \in P
  <2>1. j - 1 \in 0..Len(ss) /\ j \in 0..Len(ss)
    BY <1>1
  <2>2. off[j] = off[j - 1] + Len(ss[j])
    BY DEF IsOffsets
  <2>3. off[j] \in Nat /\ off[j - 1] \in Nat /\ Len(ss[j]) \in Nat
    BY <1>1, <2>1
  <2>4. CASE i <= off[j - 1]
    <3>1. In(j - 1)
      BY <1>4, <2>4
    <3>2. 1..(j - 1) \subseteq 1..j
      BY <1>1
    <3>3. In(j)
      BY <3>1, <3>2
    <3> QED
      BY <2>1, <3>3
  <2>5. CASE off[j - 1] < i /\ i <= off[j]
    <3>1. i - off[j - 1] \in 1..Len(ss[j]) /\ i = off[j - 1] + (i - off[j - 1])
      BY <1>2, <2>2, <2>3, <2>5
    <3>2. j \in 1..j
      BY <1>1
    <3>3. In(j)
      BY <3>1, <3>2
    <3> QED
      BY <2>1, <3>3
  <2>6. CASE ~(i <= off[j])
    BY <2>1, <2>6
  <2> QED
    BY <1>2, <2>3, <2>4, <2>5, <2>6
<1> HIDE DEF P
<1>5. 0..Len(ss) \subseteq P
  BY <1>1, <1>3, <1>4, UpToBound
<1>6. Len(ss) \in P
  BY <1>1, <1>5
<1> QED
  BY <1>2, <1>6 DEF P, IsPlace

IsFlattening(g, ss, n) ==
  g = [i \in 1..n |-> IF i = 1 THEN ss[i] ELSE g[i - 1] \o ss[i]]

LEMMA FlattenRecursion ==
  ASSUME NEW S, NEW ss \in Seq(Seq(S)), Len(ss) # 0
  PROVE  \E g : IsFlattening(g, ss, Len(ss)) /\ FlattenSeq(ss) = g[Len(ss)]
<1> DEFINE P == {n \in 0..Len(ss) : \E g : IsFlattening(g, ss, n)}
<1>1. Len(ss) \in Nat
  OBVIOUS
<1>2. 0 \in P
  <2>1. IsFlattening([i \in {} |-> 0], ss, 0)
    <3>1. 1..0 = {}
      OBVIOUS
    <3> QED
      BY <3>1 DEF IsFlattening
  <2> QED
    BY <1>1, <2>1
<1>3. ASSUME NEW n \in 1..Len(ss), n - 1 \in P
      PROVE  n \in P
  <2>1. PICK g : IsFlattening(g, ss, n - 1)
    BY <1>3
  <2> DEFINE h == [i \in 1..n |-> IF i = n THEN IF n = 1 THEN ss[n]
                                                 ELSE g[n - 1] \o ss[n]
                                  ELSE g[i]]
  <2>2. ASSUME NEW i \in 1..n
        PROVE  h[i] = IF i = 1 THEN ss[i] ELSE h[i - 1] \o ss[i]
    <3>1. CASE i = n
      <4>1. n # 1 => h[n - 1] = g[n - 1]
        BY <1>1
      <4> QED
        BY <3>1, <4>1
    <3>2. CASE i # n
      <4>1. i \in 1..(n - 1) /\ (i # 1 => i - 1 \in 1..n /\ i - 1 # n)
        BY <1>1, <3>2
      <4>2. g[i] = IF i = 1 THEN ss[i] ELSE g[i - 1] \o ss[i]
        BY <2>1, <4>1 DEF IsFlattening
      <4>3. h[i] = g[i] /\ (i # 1 => h[i - 1] = g[i - 1])
        BY <3>2, <4>1
      <4> QED
        BY <4>2, <4>3
    <3> QED
      BY <3>1, <3>2
  <2>3. h = [i \in 1..n |-> h[i]]
    OBVIOUS
  <2> HIDE DEF h
  <2>4. IsFlattening(h, ss, n)
    BY <2>2, <2>3 DEF IsFlattening
  <2> QED
    BY <1>1, <2>4
<1> HIDE DEF P
<1>4. 0..Len(ss) \subseteq P
  BY <1>1, <1>2, <1>3, UpToBound
<1>5. \E g : IsFlattening(g, ss, Len(ss))
  BY <1>1, <1>4 DEF P
<1> DEFINE f == CHOOSE g : IsFlattening(g, ss, Len(ss))
<1>6. FlattenSeq(ss) = f[Len(ss)]
  BY DEF FlattenSeq, IsFlattening
<1> QED
  BY <1>5, <1>6

IsJoined(t, ss, off) ==
  /\ IsOffsets(off, ss)
  /\ Len(t) = off[Len(ss)]
  /\ \A k \in 1..Len(ss) : \A m \in 1..Len(ss[k]) :
       t[off[k - 1] + m] = ss[k][m]

LEMMA FlattenIs ==
  ASSUME NEW S, NEW ss \in Seq(Seq(S))
  PROVE  /\ FlattenSeq(ss) \in Seq(S)
         /\ \E off : IsJoined(FlattenSeq(ss), ss, off)
<1> DEFINE N == Len(ss)
<1>1. N \in Nat /\ \A i \in 1..N : ss[i] \in Seq(S) /\ Len(ss[i]) \in Nat
  OBVIOUS
<1>2. CASE N = 0
  <2>1. ss = <<>> /\ FlattenSeq(ss) = ss
    BY <1>2 DEF FlattenSeq
  <2>2. ss \in Seq(S) /\ IsOffsets([i \in {0} |-> 0], ss)
    BY <1>2, <2>1 DEF IsOffsets
  <2>3. Len(FlattenSeq(ss)) = [i \in {0} |-> 0][Len(ss)]
    BY <1>2, <2>1
  <2>4. IsJoined(FlattenSeq(ss), ss, [i \in {0} |-> 0])
    BY <1>2, <2>2, <2>3 DEF IsJoined
  <2> QED
    BY <2>1, <2>2, <2>4
<1>3. CASE N # 0
  <2> PICK g : IsFlattening(g, ss, N) /\ FlattenSeq(ss) = g[N]
    BY <1>3, FlattenRecursion
  <2>1. /\ g[1] = ss[1]
        /\ \A n \in 2..N : g[n] = g[n - 1] \o ss[n]
    <3>1. \A n \in 1..N : g[n] = IF n = 1 THEN ss[n] ELSE g[n - 1] \o ss[n]
      BY DEF IsFlattening
    <3>2. 1 \in 1..N /\ \A n \in 2..N : n \in 1..N /\ n # 1
      BY <1>1, <1>3
    <3> HIDE DEF N
    <3> QED
      BY <3>1, <3>2
  <2> DEFINE off == [k \in 0..N |-> IF k = 0 THEN 0 ELSE Len(g[k])]
             Q == {n \in 0..N : n = 0 \/ g[n] \in Seq(S)}
  <2> HIDE DEF N
  <2>2. ASSUME NEW n \in 1..N, n - 1 \in Q
        PROVE  n \in Q
    <3>1. CASE n = 1
      BY <1>1, <2>1, <3>1
    <3>2. CASE n # 1
      <4>1. n \in 2..N /\ n - 1 # 0
        BY <1>1, <3>2
      <4>2. g[n - 1] \in Seq(S) /\ ss[n] \in Seq(S) /\ g[n] = g[n - 1] \o ss[n]
        BY <1>1, <2>1, <2>2, <4>1
      <4>3. g[n] \in Seq(S)
        BY <4>2, ConcatIs
      <4>4. n \in 0..N
        BY <1>1
      <4> QED
        BY <4>3, <4>4
    <3> QED
      BY <3>1, <3>2
  <2>3. \A n \in 1..N : g[n] \in Seq(S) /\ Len(g[n]) \in Nat
    <3>1. 0 \in Q
      BY <1>1
    <3> HIDE DEF Q
    <3>2. 0..N \subseteq Q
      BY <1>1, <2>2, <3>1, UpToBound
    <3>3. \A n \in 1..N : g[n] \in Seq(S)
      BY <1>1, <3>2 DEF Q
    <3> QED
      BY <3>3
  <2>4. ASSUME NEW k \in 1..N
        PROVE  /\ off[k] = off[k - 1] + Len(ss[k]) /\ off[k] = Len(g[k])
               /\ off[k - 1] \in Nat
    <3>1. k \in 0..N /\ k - 1 \in 0..N /\ k # 0
      BY <1>1
    <3>2. CASE k = 1
      BY <1>1, <2>1, <2>3, <3>1, <3>2
    <3>3. CASE k # 1
      <4>1. k \in 2..N /\ k - 1 \in 1..N /\ k - 1 # 0
        BY <1>1, <3>3
      <4>2. /\ g[k - 1] \in Seq(S) /\ ss[k] \in Seq(S) /\ g[k] = g[k - 1] \o ss[k]
            /\ Len(g[k - 1]) \in Nat
        BY <1>1, <2>1, <2>3, <4>1
      <4>3. Len(g[k]) = Len(g[k - 1]) + Len(ss[k])
        BY <4>2, ConcatProperties
      <4> QED
        BY <3>1, <4>1, <4>2, <4>3
    <3> QED
      BY <3>2, <3>3
  <2>5. IsOffsets(off, ss)
    <3>1. off \in [0..N -> Nat] /\ off[0] = 0
      BY <1>1, <2>3
    <3> HIDE DEF off
    <3> QED
      BY <2>4, <3>1 DEF IsOffsets, N
  <2> HIDE DEF off
  <2> DEFINE R == {n \in 0..N : \A k \in 1..n : \A m \in 1..Len(ss[k]) :
                     g[n][off[k - 1] + m] = ss[k][m]}
  <2>6. ASSUME NEW n \in 1..N, n - 1 \in R
        PROVE  n \in R
    <3> SUFFICES ASSUME NEW k \in 1..n, NEW m \in 1..Len(ss[k])
                 PROVE  g[n][off[k - 1] + m] = ss[k][m]
      BY <1>1
    <3>1. /\ k \in 1..N /\ n \in 1..N /\ Len(ss[k]) \in Nat /\ m \in Nat
          /\ 1 <= m /\ m <= Len(ss[k])
      BY <1>1
    <3>2. off[k] = off[k - 1] + Len(ss[k]) /\ off[k - 1] \in Nat
      BY <2>4, <3>1
    <3>3. CASE n = 1
      <4>1. k = 1 /\ off[0] = 0
        BY <2>5, <3>3 DEF IsOffsets
      <4> QED
        BY <2>1, <3>1, <3>3, <4>1
    <3>4. CASE n # 1
      <4>1. n \in 2..N /\ n - 1 \in 1..N
        BY <1>1, <3>4
      <4>2. /\ g[n - 1] \in Seq(S) /\ ss[n] \in Seq(S) /\ g[n] = g[n - 1] \o ss[n]
            /\ off[n - 1] = Len(g[n - 1]) /\ Len(g[n - 1]) \in Nat
            /\ Len(ss[n]) \in Nat
        BY <1>1, <2>1, <2>3, <2>4, <4>1
      <4>3. /\ \A i \in 1..Len(g[n - 1]) : g[n][i] = g[n - 1][i]
            /\ \A i \in 1..Len(ss[n]) : g[n][Len(g[n - 1]) + i] = ss[n][i]
        <5> DEFINE a == g[n - 1]
                   b == ss[n]
        <5>1. a \in Seq(S) /\ b \in Seq(S) /\ g[n] = a \o b
          BY <4>2
        <5> HIDE DEF a, b
        <5>2. /\ \A i \in 1..Len(a) : (a \o b)[i] = a[i]
              /\ \A i \in 1..Len(b) : (a \o b)[Len(a) + i] = b[i]
          BY <5>1, ConcatIs
        <5>3. /\ \A i \in 1..Len(a) : g[n][i] = a[i]
              /\ \A i \in 1..Len(b) : g[n][Len(a) + i] = b[i]
          BY <5>1, <5>2
        <5> QED
          BY <5>3 DEF a, b
      <4>4. CASE k = n
        <5>1. off[k - 1] = Len(g[n - 1]) /\ m \in 1..Len(ss[n])
          BY <4>2, <4>4
        <5>2. g[n][Len(g[n - 1]) + m] = ss[n][m]
          BY <4>3, <5>1
        <5> QED
          BY <4>4, <5>1, <5>2
      <4>5. CASE k # n
        <5>1. k \in 1..(n - 1) /\ k \in 0..N /\ n - 1 \in 0..N /\ k <= n - 1
          BY <1>1, <3>1, <4>1, <4>5
        <5>2. off[k] <= off[n - 1]
          BY <2>5, <5>1, OffsetsGrow DEF N
        <5>3. off[k - 1] + Len(ss[k]) <= Len(g[n - 1])
          BY <3>2, <4>2, <5>2
        <5>4. off[k - 1] + m \in 1..Len(g[n - 1])
          BY <3>1, <3>2, <4>2, <5>3, PlaceWithin
        <5>5. g[n][off[k - 1] + m] = g[n - 1][off[k - 1] + m]
          BY <4>3, <5>4
        <5> QED
          BY <2>6, <5>1, <5>5
      <4> QED
        BY <4>4, <4>5
    <3> QED
      BY <3>3, <3>4
  <2>7. N \in R
    <3>1. 0 \in R
      BY <1>1
    <3> HIDE DEF R
    <3>2. 0..N \subseteq R
      BY <1>1, <2>6, <3>1, UpToBound
    <3> QED
      BY <1>1, <3>2
  <2>8. g[N] \in Seq(S) /\ Len(g[N]) = off[N]
    BY <1>1, <1>3, <2>3, <2>4 DEF N
  <2>9. \A k \in 1..N : \A m \in 1..Len(ss[k]) : g[N][off[k - 1] + m] = ss[k][m]
    BY <2>7
  <2>10. IsJoined(g[N], ss, off)
    BY <2>5, <2>8, <2>9 DEF N, IsJoined
  <2> QED
    BY <2>8, <2>10
<1> QED
  BY <1>2, <1>3

(* Where each sequence has one element, joining them collects these.        *)
LEMMA FlattenSingles ==
  ASSUME NEW S, NEW s \in Seq(S), NEW ss,
         ss = [i \in DOMAIN s |-> <<s[i]>>]
  PROVE  FlattenSeq(ss) = s
<1> DEFINE n == Len(s)
           t == FlattenSeq(ss)
<1>1. n \in Nat /\ \A i \in 1..n : s[i] \in S
  OBVIOUS
<1>2. ss \in Seq(Seq(S)) /\ Len(ss) = n
  <2>1. \A i \in 1..n : <<s[i]>> \in Seq(S)
    BY <1>1
  <2>2. ss = [i \in 1..n |-> <<s[i]>>]
    OBVIOUS
  <2> HIDE DEF n
  <2> QED
    BY <1>1, <2>1, <2>2
<1>3. \A k \in 1..n : Len(ss[k]) = 1 /\ ss[k][1] = s[k]
  OBVIOUS
<1> HIDE DEF n
<1>4. t \in Seq(S)
  BY <1>2, FlattenIs
<1>5. PICK off : IsJoined(t, ss, off)
  BY <1>2, FlattenIs
<1> HIDE DEF t
<1> DEFINE P == {k \in 0..n : off[k] = k}
<1>6. 0 \in P
  BY <1>1, <1>5 DEF IsJoined, IsOffsets
<1>7. ASSUME NEW k \in 1..n, k - 1 \in P
      PROVE  k \in P
  <2>1. off[k] = off[k - 1] + Len(ss[k]) /\ Len(ss[k]) = 1
    BY <1>2, <1>3, <1>5 DEF IsJoined, IsOffsets
  <2>2. off[k - 1] = k - 1 /\ k \in 0..n
    BY <1>1, <1>7
  <2>3. off[k] = (k - 1) + 1
    BY <2>1, <2>2
  <2>4. (k - 1) + 1 = k
    BY <1>1
  <2> QED
    BY <2>2, <2>3, <2>4
<1> HIDE DEF P
<1>8. 0..n \subseteq P
  BY <1>1, <1>6, <1>7, UpToBound
<1>9. \A k \in 0..n : off[k] = k
  BY <1>8 DEF P
<1>10. Len(t) = n
  BY <1>1, <1>2, <1>5, <1>9 DEF IsJoined
<1>11. ASSUME NEW k \in 1..n
       PROVE  t[k] = s[k]
  <2>1. k - 1 \in 0..n /\ (k - 1) + 1 = k
    BY <1>1
  <2>2. off[k - 1] + 1 = k
    BY <1>9, <2>1
  <2>3. 1 \in 1..Len(ss[k])
    BY <1>3
  <2>4. t[off[k - 1] + 1] = ss[k][1]
    BY <1>2, <1>5, <2>3 DEF IsJoined
  <2> QED
    BY <1>3, <2>2, <2>4
<1>12. t = s
  BY <1>4, <1>10, <1>11, SeqEqual DEF n
<1> QED
  BY <1>12 DEF t

-----------------------------------------------------------------------------
(* What several sequences joined hold, and that they are in order.          *)

Holds(s, x) == \E i \in 1..Len(s) : s[i] = x
IsRising(s, R) == \A i, j \in 1..Len(s) : i < j => <<s[i], s[j]>> \in R

(* Each place in one is a place in all joined, and the reverse.             *)
Locates(t, ss, off) ==
  /\ \A k \in 1..Len(ss) : \A m \in 1..Len(ss[k]) :
       off[k - 1] + m \in 1..Len(t) /\ t[off[k - 1] + m] = ss[k][m]
  /\ \A i \in 1..Len(t) :
       \E k \in 1..Len(ss) : \E m \in 1..Len(ss[k]) :
         i = off[k - 1] + m /\ t[i] = ss[k][m]

LEMMA OffsetsAre ==
  ASSUME NEW S, NEW ss \in Seq(Seq(S)), NEW off, IsOffsets(off, ss),
         NEW k \in 1..Len(ss)
  PROVE  /\ Len(ss) \in Nat /\ ss[k] \in Seq(S) /\ Len(ss[k]) \in Nat
         /\ off[k - 1] \in Nat /\ off[Len(ss)] \in Nat
         /\ off[k] = off[k - 1] + Len(ss[k])
<1>1. Len(ss) \in Nat /\ ss[k] \in Seq(S)
  OBVIOUS
<1>2. Len(ss[k]) \in Nat
  BY <1>1
<1> DEFINE N == Len(ss)
<1>3. /\ off \in [0..N -> Nat]
      /\ off[k] = off[k - 1] + Len(ss[k])
  BY DEF IsOffsets
<1>4. N \in Nat /\ k \in 1..N
  BY <1>1
<1> HIDE DEF N
<1>5. k - 1 \in 0..N /\ N \in 0..N
  BY <1>4
<1>6. off[k - 1] \in Nat /\ off[N] \in Nat
  BY <1>3, <1>5
<1> QED
  BY <1>1, <1>2, <1>3, <1>6 DEF N

LEMMA JoinedPlaces ==
  ASSUME NEW S, NEW ss \in Seq(Seq(S)), NEW t, NEW off, IsJoined(t, ss, off)
  PROVE  Locates(t, ss, off)
<1>1. IsOffsets(off, ss) /\ Len(t) = off[Len(ss)]
  BY Zenon DEF IsJoined
<1>2. \A k \in 1..Len(ss) : \A m \in 1..Len(ss[k]) :
        t[off[k - 1] + m] = ss[k][m]
  BY Zenon DEF IsJoined
<1>3. ASSUME NEW k \in 1..Len(ss), NEW m \in 1..Len(ss[k])
      PROVE  off[k - 1] + m \in 1..Len(t)
  <2>1. /\ off[k] = off[k - 1] + Len(ss[k])
        /\ off[k - 1] \in Nat /\ off[Len(ss)] \in Nat
        /\ Len(ss) \in Nat /\ Len(ss[k]) \in Nat
    BY <1>1, OffsetsAre
  <2>2. k \in 0..Len(ss) /\ Len(ss) \in 0..Len(ss) /\ k <= Len(ss)
    BY <2>1
  <2>3. off[k] <= off[Len(ss)]
    BY <1>1, <2>2, OffsetsGrow
  <2>4. off[k - 1] + Len(ss[k]) <= off[Len(ss)]
    BY <2>1, <2>3
  <2>5. off[k - 1] + m \in 1..off[Len(ss)]
    BY <2>1, <2>4, PlaceWithin
  <2> QED
    BY <1>1, <2>5
<1>4. ASSUME NEW i \in 1..Len(t)
      PROVE  \E k \in 1..Len(ss) : \E m \in 1..Len(ss[k]) :
               i = off[k - 1] + m /\ t[i] = ss[k][m]
  <2>1. i \in 1..off[Len(ss)]
    BY <1>1
  <2>2. IsPlace(i, ss, off)
    BY <1>1, <2>1, OffsetsCover
  <2>3. PICK k \in 1..Len(ss) : \E m \in 1..Len(ss[k]) : i = off[k - 1] + m
    BY <2>2 DEF IsPlace
  <2>4. PICK m \in 1..Len(ss[k]) : i = off[k - 1] + m
    BY <2>3
  <2>5. t[off[k - 1] + m] = ss[k][m]
    BY <1>2
  <2>6. t[i] = ss[k][m]
    BY <2>4, <2>5
  <2> QED
    BY <2>4, <2>6
<1> QED
  BY <1>2, <1>3, <1>4, Zenon DEF Locates

LEMMA FlattenLocates ==
  ASSUME NEW S, NEW ss \in Seq(Seq(S))
  PROVE  \E off : IsOffsets(off, ss) /\ Locates(FlattenSeq(ss), ss, off)
<1> DEFINE t == FlattenSeq(ss)
<1>1. PICK off : IsJoined(t, ss, off)
  BY FlattenIs
<1> HIDE DEF t
<1>2. Locates(t, ss, off)
  BY <1>1, JoinedPlaces
<1>3. IsOffsets(off, ss)
  BY <1>1, Zenon DEF IsJoined
<1> QED
  BY <1>2, <1>3 DEF t

LEMMA FlattenHolds ==
  ASSUME NEW S, NEW ss \in Seq(Seq(S)), NEW x
  PROVE  Holds(FlattenSeq(ss), x) <=> \E k \in 1..Len(ss) : Holds(ss[k], x)
<1> DEFINE t == FlattenSeq(ss)
<1>1. PICK off : IsOffsets(off, ss) /\ Locates(t, ss, off)
  BY FlattenLocates
<1> HIDE DEF t
<1>2. ASSUME Holds(t, x)
      PROVE  \E k \in 1..Len(ss) : Holds(ss[k], x)
  <2>1. PICK i \in 1..Len(t) : t[i] = x
    BY <1>2 DEF Holds
  <2>2. PICK k \in 1..Len(ss) : \E m \in 1..Len(ss[k]) : t[i] = ss[k][m]
    BY <1>1, Zenon DEF Locates
  <2> QED
    BY <2>1, <2>2, Zenon DEF Holds
<1>3. ASSUME NEW k \in 1..Len(ss), Holds(ss[k], x)
      PROVE  Holds(t, x)
  <2>1. PICK m \in 1..Len(ss[k]) : ss[k][m] = x
    BY <1>3, Zenon DEF Holds
  <2>2. off[k - 1] + m \in 1..Len(t) /\ t[off[k - 1] + m] = ss[k][m]
    BY <1>1, Zenon DEF Locates
  <2> QED
    BY <2>1, <2>2, Zenon DEF Holds
<1> QED
  BY <1>2, <1>3 DEF t

LEMMA PlaceBetween ==
  ASSUME NEW a \in Nat, NEW l \in Nat, NEW m \in 1..l
  PROVE  a + m \in Int /\ a < a + m /\ a + m <= a + l
OBVIOUS

LEMMA FlattenRises ==
  ASSUME NEW S, NEW ss \in Seq(Seq(S)), NEW R,
         \A k \in 1..Len(ss) : IsRising(ss[k], R),
         \A j, k \in 1..Len(ss) :
           j < k => \A m \in 1..Len(ss[j]) : \A n \in 1..Len(ss[k]) :
                      <<ss[j][m], ss[k][n]>> \in R
  PROVE  IsRising(FlattenSeq(ss), R)
<1> DEFINE t == FlattenSeq(ss)
<1>1. PICK off : IsOffsets(off, ss) /\ Locates(t, ss, off)
  BY FlattenLocates
<1>2. \A i \in 1..Len(t) :
        \E k \in 1..Len(ss) : \E m \in 1..Len(ss[k]) :
          i = off[k - 1] + m /\ t[i] = ss[k][m]
  BY <1>1, Zenon DEF Locates
<1> HIDE DEF t
<1>4. ASSUME NEW i \in 1..Len(t), NEW j \in 1..Len(t), i < j
      PROVE  <<t[i], t[j]>> \in R
  <2>k. PICK k \in 1..Len(ss) : \E m \in 1..Len(ss[k]) :
          i = off[k - 1] + m /\ t[i] = ss[k][m]
    BY <1>2
  <2>1. PICK m \in 1..Len(ss[k]) : i = off[k - 1] + m /\ t[i] = ss[k][m]
    BY <2>k
  <2>l. PICK l \in 1..Len(ss) : \E n \in 1..Len(ss[l]) :
          j = off[l - 1] + n /\ t[j] = ss[l][n]
    BY <1>2
  <2>2. PICK n \in 1..Len(ss[l]) : j = off[l - 1] + n /\ t[j] = ss[l][n]
    BY <2>l
  <2>3. /\ Len(ss) \in Nat /\ Len(ss[k]) \in Nat /\ Len(ss[l]) \in Nat
        /\ off[k - 1] \in Nat /\ off[l - 1] \in Nat
        /\ off[l] = off[l - 1] + Len(ss[l])
    BY <1>1, OffsetsAre
  <2>4. CASE k < l
    <3>1. <<ss[k][m], ss[l][n]>> \in R
      BY <2>4
    <3> QED
      BY <2>1, <2>2, <3>1, Zenon
  <2>5. CASE k = l
    <3>1. m \in 1..Len(ss[k]) /\ n \in 1..Len(ss[k])
      BY <2>5
    <3>2. m < n
      <4> DEFINE a == off[k - 1]
      <4>1. a \in Nat /\ m \in Nat /\ n \in Nat
        BY <2>3, <3>1
      <4>2. i = a + m /\ j = a + n
        BY <2>1, <2>2, <2>5
      <4> HIDE DEF a
      <4> QED
        BY <1>4, <4>1, <4>2
    <3>3. IsRising(ss[k], R)
      OBVIOUS
    <3>4. <<ss[k][m], ss[k][n]>> \in R
      BY <3>1, <3>2, <3>3 DEF IsRising
    <3> QED
      BY <2>1, <2>2, <2>5, <3>4, Zenon
  <2>6. CASE l < k
    <3>1. /\ l \in 0..Len(ss) /\ k - 1 \in 0..Len(ss) /\ l <= k - 1
      BY <2>3, <2>6
    <3>2. off[l] <= off[k - 1]
      BY <1>1, <3>1, OffsetsGrow
    <3> DEFINE a == off[k - 1]
               b == off[l - 1]
               x == Len(ss[k])
               y == Len(ss[l])
               z == off[l]
    <3>3. /\ a \in Nat /\ b \in Nat /\ x \in Nat /\ y \in Nat
          /\ z = b + y /\ z <= a
      BY <2>3, <3>2
    <3>4. i = a + m /\ j = b + n /\ m \in 1..x /\ n \in 1..y
      BY <2>1, <2>2
    <3> HIDE DEF a, b, x, y, z
    <3>5. m \in Nat /\ 1 <= m /\ n \in Nat /\ n <= y
      BY <3>3, <3>4
    <3>6. i \in Nat /\ j \in Nat /\ j < i
      BY <3>3, <3>4, <3>5
    <3> QED
      BY <1>4, <3>6
  <2> QED
    BY <2>3, <2>4, <2>5, <2>6
<1>5. IsRising(t, R)
  BY <1>4 DEF IsRising
<1> QED
  BY <1>5 DEF t

IsStrict(R) ==
  /\ \A x : <<x, x>> \notin R
  /\ \A x, y : <<x, y>> \in R => <<y, x>> \notin R

(* What is in order is determined by what it holds.                         *)
LEMMA RisingUnique ==
  ASSUME NEW S, NEW s \in Seq(S), NEW t \in Seq(S), NEW R, IsStrict(R),
         IsRising(s, R), IsRising(t, R),
         \A x : Holds(s, x) <=> Holds(t, x)
  PROVE  s = t
<1> DEFINE n == IF Len(s) <= Len(t) THEN Len(s) ELSE Len(t)
           P == {k \in 0..n : \A i \in 1..k : s[i] = t[i]}
<1>1. /\ Len(s) \in Nat /\ Len(t) \in Nat
      /\ n \in Nat /\ n <= Len(s) /\ n <= Len(t)
      /\ n = Len(s) \/ n = Len(t)
  OBVIOUS
<1>2. /\ \A i, j \in 1..Len(s) : i < j => <<s[i], s[j]>> \in R
      /\ \A i, j \in 1..Len(t) : i < j => <<t[i], t[j]>> \in R
  BY DEF IsRising
<1>3. /\ \A i \in 1..Len(s) : \E j \in 1..Len(t) : t[j] = s[i]
      /\ \A j \in 1..Len(t) : \E i \in 1..Len(s) : s[i] = t[j]
  BY DEF Holds
<1>4. /\ \A x : <<x, x>> \notin R
      /\ \A x, y : <<x, y>> \in R => <<y, x>> \notin R
  BY DEF IsStrict
<1> HIDE DEF n
<1>5. 0 \in P
  BY <1>1
<1>6. ASSUME NEW k \in 1..n, k - 1 \in P
      PROVE  k \in P
  <2>1. \A i \in 1..(k - 1) : s[i] = t[i]
    BY <1>6
  <2>2. k \in 1..Len(s) /\ k \in 1..Len(t) /\ k \in 0..n
    BY <1>1
  <2>3. PICK j \in 1..Len(t) : t[j] = s[k]
    BY <1>3, <2>2
  <2>4. PICK i \in 1..Len(s) : s[i] = t[k]
    BY <1>3, <2>2
  <2>5. ~(j < k)
    <3>1. ASSUME j < k PROVE FALSE
      <4>1. j \in 1..(k - 1) /\ j \in 1..Len(s)
        BY <1>1, <2>2, <3>1
      <4>2. s[j] = s[k] /\ <<s[j], s[k]>> \in R
        BY <1>2, <2>1, <2>2, <2>3, <3>1, <4>1
      <4> QED
        BY <1>4, <4>2
    <3> QED
      BY <3>1
  <2>6. ~(i < k)
    <3>1. ASSUME i < k PROVE FALSE
      <4>1. i \in 1..(k - 1) /\ i \in 1..Len(t)
        BY <1>1, <2>2, <3>1
      <4>2. t[i] = t[k] /\ <<t[i], t[k]>> \in R
        BY <1>2, <2>1, <2>2, <2>4, <3>1, <4>1
      <4> QED
        BY <1>4, <4>2
    <3> QED
      BY <3>1
  <2>7. s[k] = t[k]
    <3>1. ASSUME k < j, k < i PROVE FALSE
      <4>1. <<t[k], s[k]>> \in R /\ <<s[k], t[k]>> \in R
        BY <1>2, <2>2, <2>3, <2>4, <3>1
      <4> QED
        BY <1>4, <4>1
    <3>2. k = j \/ k = i
      BY <1>1, <2>2, <2>5, <2>6, <3>1
    <3> QED
      BY <2>3, <2>4, <3>2
  <2>8. \A m \in 1..k : s[m] = t[m]
    BY <2>1, <2>2, <2>7
  <2> QED
    BY <2>2, <2>8
<1>7. \A k \in 1..n : k - 1 \in P => k \in P
  BY <1>6
<1> HIDE DEF P
<1>8. n \in P
  <2>1. 0..n \subseteq P
    BY <1>1, <1>5, <1>7, UpToBound
  <2> QED
    BY <1>1, <2>1
<1>9. \A i \in 1..n : s[i] = t[i]
  BY <1>8 DEF P
<1>10. ~(n < Len(s))
  <2>1. ASSUME n < Len(s) PROVE FALSE
    <3>1. n + 1 \in 1..Len(s) /\ n = Len(t)
      BY <1>1, <2>1
    <3>2. PICK j \in 1..n : t[j] = s[n + 1]
      BY <1>3, <3>1
    <3>3. j \in 1..Len(s) /\ j < n + 1 /\ s[j] = s[n + 1]
      BY <1>1, <1>9, <3>1, <3>2
    <3> QED
      BY <1>2, <1>4, <3>1, <3>3
  <2> QED
    BY <2>1
<1>11. ~(n < Len(t))
  <2>1. ASSUME n < Len(t) PROVE FALSE
    <3>1. n + 1 \in 1..Len(t) /\ n = Len(s)
      BY <1>1, <2>1
    <3>2. PICK j \in 1..n : s[j] = t[n + 1]
      BY <1>3, <3>1
    <3>3. j \in 1..Len(t) /\ j < n + 1 /\ t[j] = t[n + 1]
      BY <1>1, <1>9, <3>1, <3>2
    <3> QED
      BY <1>2, <1>4, <3>1, <3>3
  <2> QED
    BY <2>1
<1>12. Len(s) = n /\ Len(t) = n
  BY <1>1, <1>10, <1>11
<1> QED
  BY <1>9, <1>12

-----------------------------------------------------------------------------
(* Putting a finite set in order.  R holds the pairs in which the first     *)
(* element comes before the second.                                         *)

IsOrder(R, S) ==
  /\ \A x \in S : <<x, x>> \notin R
  /\ \A x, y, z \in S : <<x, y>> \in R /\ <<y, z>> \in R => <<x, z>> \in R
  /\ \A x, y \in S : x = y \/ <<x, y>> \in R \/ <<y, x>> \in R

IsLast(m, T, R) == m \in T /\ \A x \in T : x = m \/ <<x, m>> \in R

IsInOrder(s, n, T, R) ==
  /\ s \in [1..n -> T]
  /\ \A i, j \in 1..n : i < j => <<s[i], s[j]>> \in R

LEMMA LastExists ==
  ASSUME NEW S, IsFiniteSet(S), NEW R, IsOrder(R, S),
         NEW T \in SUBSET S, T # {}
  PROVE  \E m \in T : IsLast(m, T, R)
<1> DEFINE n == Cardinality(S)
           Has(U) == U # {} => \E m : IsLast(m, U, R)
           P == {k \in 0..n : \A U \in SUBSET S : Cardinality(U) = k => Has(U)}
<1>1. n \in Nat
  BY FS_CardinalityType
<1>2. \A U \in SUBSET S : IsFiniteSet(U) /\ Cardinality(U) \in 0..n
  <2> TAKE U \in SUBSET S
  <2>1. IsFiniteSet(U) /\ Cardinality(U) <= n
    BY FS_Subset
  <2> QED
    BY <1>1, <2>1, FS_CardinalityType
<1> HIDE DEF n
<1>3. 0 \in P
  <2>1. \A U \in SUBSET S : Cardinality(U) = 0 => U = {}
    BY <1>2, FS_EmptySet
  <2> QED
    BY <1>1, <2>1
<1>4. ASSUME NEW k \in 1..n, k - 1 \in P
      PROVE  k \in P
  <2> SUFFICES ASSUME NEW U \in SUBSET S, Cardinality(U) = k, U # {}
               PROVE  \E m : IsLast(m, U, R)
    BY <1>1
  <2>1. PICK x : x \in U
    OBVIOUS
  <2> DEFINE V == U \ {x}
  <2>2. V \in SUBSET S /\ Cardinality(V) = k - 1
    BY <1>2, <2>1, FS_RemoveElement
  <2>3. CASE V = {}
    <3>1. IsLast(x, U, R)
      BY <2>1, <2>3 DEF IsLast
    <3> QED
      BY <3>1
  <2>4. CASE V # {}
    <3>1. PICK m : IsLast(m, V, R)
      BY <1>4, <2>2, <2>4
    <3>2. m \in V /\ m \in S /\ x \in S
      BY <2>1, <3>1 DEF IsLast
    <3>3. CASE <<x, m>> \in R
      <4>1. IsLast(m, U, R)
        BY <3>1, <3>3 DEF IsLast
      <4> QED
        BY <4>1
    <3>4. CASE <<m, x>> \in R
      <4>1. ASSUME NEW y \in U
            PROVE  y = x \/ <<y, x>> \in R
        <5>1. y = x \/ y = m \/ <<y, m>> \in R
          BY <3>1 DEF IsLast
        <5> QED
          BY <3>2, <3>4, <5>1 DEF IsOrder
      <4>2. IsLast(x, U, R)
        BY <2>1, <4>1 DEF IsLast
      <4> QED
        BY <4>2
    <3> QED
      BY <3>2, <3>3, <3>4 DEF IsOrder
  <2> QED
    BY <2>3, <2>4
<1> HIDE DEF P
<1>5. 0..n \subseteq P
  BY <1>1, <1>3, <1>4, UpToBound
<1>6. Has(T)
  BY <1>2, <1>5 DEF P
<1> QED
  BY <1>6 DEF IsLast

LEMMA OrderExists ==
  ASSUME NEW S, IsFiniteSet(S), NEW R, IsOrder(R, S)
  PROVE  \E s : IsInOrder(s, Cardinality(S), S, R)
<1> DEFINE n == Cardinality(S)
           P == {k \in 0..n : \A U \in SUBSET S :
                   Cardinality(U) = k => \E s : IsInOrder(s, k, U, R)}
<1>1. n \in Nat
  BY FS_CardinalityType
<1>2. \A U \in SUBSET S : IsFiniteSet(U) /\ Cardinality(U) \in 0..n
  <2> TAKE U \in SUBSET S
  <2>1. IsFiniteSet(U) /\ Cardinality(U) <= n
    BY FS_Subset
  <2> QED
    BY <1>1, <2>1, FS_CardinalityType
<1> HIDE DEF n
<1>3. 0 \in P
  <2>1. ASSUME NEW U
        PROVE  IsInOrder([i \in 1..0 |-> i], 0, U, R)
    <3>1. 1..0 = {}
      OBVIOUS
    <3> QED
      BY <3>1 DEF IsInOrder
  <2> QED
    BY <1>1, <2>1
<1>4. ASSUME NEW k \in 1..n, k - 1 \in P
      PROVE  k \in P
  <2> SUFFICES ASSUME NEW U \in SUBSET S, Cardinality(U) = k
               PROVE  \E s : IsInOrder(s, k, U, R)
    BY <1>1
  <2>1. U # {}
    BY FS_EmptySet
  <2>2. PICK m : IsLast(m, U, R)
    BY <2>1, LastExists
  <2> DEFINE V == U \ {m}
  <2>3. m \in U /\ V \in SUBSET S /\ Cardinality(V) = k - 1
    BY <1>2, <2>2, FS_RemoveElement DEF IsLast
  <2>4. PICK s : IsInOrder(s, k - 1, V, R)
    BY <1>4, <2>3
  <2> DEFINE t == [i \in 1..k |-> IF i = k THEN m ELSE s[i]]
  <2>5. \A i \in 1..(k - 1) : s[i] \in V /\ t[i] = s[i]
    BY <1>1, <2>4 DEF IsInOrder
  <2>6. t[k] = m /\ \A i \in 1..k : i = k \/ i \in 1..(k - 1)
    BY <1>1
  <2>7. t \in [1..k -> U]
    BY <2>3, <2>5, <2>6
  <2> HIDE DEF t
  <2>8. ASSUME NEW i \in 1..k, NEW j \in 1..k, i < j
        PROVE  <<t[i], t[j]>> \in R
    <3>1. i \in 1..(k - 1)
      BY <1>1, <2>8
    <3>2. CASE j = k
      BY <2>2, <2>5, <2>6, <3>1, <3>2 DEF IsLast
    <3>3. CASE j # k
      <4>1. j \in 1..(k - 1)
        BY <2>6, <3>3
      <4>2. <<s[i], s[j]>> \in R
        BY <2>4, <2>8, <3>1, <4>1 DEF IsInOrder
      <4> QED
        BY <2>5, <3>1, <4>1, <4>2
    <3> QED
      BY <3>2, <3>3
  <2>9. IsInOrder(t, k, U, R)
    BY <2>7, <2>8 DEF IsInOrder
  <2> QED
    BY <2>9
<1> HIDE DEF P
<1>5. 0..n \subseteq P
  BY <1>1, <1>3, <1>4, UpToBound
<1>6. n \in P /\ n = Cardinality(S)
  BY <1>1, <1>5 DEF n
<1>7. \E s : IsInOrder(s, n, S, R)
  BY <1>6 DEF P
<1> QED
  BY <1>6, <1>7

(* Nothing is left out and nothing comes twice.                             *)
LEMMA OrderCovers ==
  ASSUME NEW S, IsFiniteSet(S), NEW R, IsOrder(R, S),
         NEW s, IsInOrder(s, Cardinality(S), S, R)
  PROVE  /\ \A i, j \in 1..Cardinality(S) : s[i] = s[j] => i = j
         /\ \A x \in S : \E i \in 1..Cardinality(S) : s[i] = x
<1> DEFINE n == Cardinality(S)
<1>1. n \in Nat
  BY FS_CardinalityType
<1> HIDE DEF n
<1>2. s \in [1..n -> S]
  BY DEF IsInOrder, n
<1>3. ASSUME NEW i \in 1..n, NEW j \in 1..n, s[i] = s[j]
      PROVE  i = j
  <2>1. s[i] \in S /\ <<s[i], s[i]>> \notin R
    BY <1>2 DEF IsOrder
  <2>2. ~(i < j) /\ ~(j < i)
    BY <1>3, <2>1 DEF IsInOrder, n
  <2> QED
    BY <1>1, <2>2
<1>4. s \in Injection(1..n, S)
  BY <1>2, <1>3 DEF Injection, IsInjective
<1>5. IsFiniteSet(1..n) /\ Cardinality(1..n) = n
  BY <1>1, FS_Interval
<1>6. s \in Surjection(1..n, S)
  BY <1>4, <1>5, FS_Injection DEF n
<1> QED
  BY <1>3, <1>6 DEF Surjection, n

=============================================================================
