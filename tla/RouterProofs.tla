----------------------------- MODULE RouterProofs -----------------------------
(***************************************************************************)
(* Theorems about Router, for any documents, tables of contents, replies,   *)
(* confidences, thresholds and caps: what one document contributes follows  *)
(* the model's ranking of it, and what is merged of several does not depend *)
(* on the order in which they are named.                                    *)
(***************************************************************************)
EXTENDS Router, SequenceLemmas

Item == [doc : Docs, rank : Nat, section : Sections \cup Fabricated,
         confidence : Levels]

(* A request as the schema lets it through.                                 *)
RequestOK ==
  /\ request.order \in Seq(Docs)
  /\ \A i, j \in DOMAIN request.order :
       request.order[i] = request.order[j] => i = j
  /\ request.threshold \in Nat
  /\ request.cap \in Nat \ {0}

ReplyOK == reply \in [Docs -> Rankings]

-----------------------------------------------------------------------------
(* The sections of one document.                                            *)

LEMMA RankingIs ==
  ASSUME ReplyOK, NEW d \in Docs
  PROVE  reply[d] \in Seq([section : Sections \cup Fabricated,
                           confidence : Levels])
<1> DEFINE T == [section : Sections \cup Fabricated, confidence : Levels]
<1>1. reply[d] \in BoundedSeq(T, MaxRanked)
  BY DEF ReplyOK, Rankings
<1> HIDE DEF T
<1>2. PICK m \in 0..MaxRanked : reply[d] \in [1..m -> T]
  BY <1>1 DEF BoundedSeq, SeqOf
<1>3. m \in Nat
  BY RouterAssumption
<1>4. reply[d] \in Seq(T)
  BY <1>2, <1>3
<1> QED
  BY <1>4 DEF T

LEMMA ItemsAre ==
  ASSUME ReplyOK, NEW d \in Docs
  PROVE  /\ IsFiniteSet(Items(d))
         /\ Items(d) \subseteq Item
         /\ \A x \in Items(d) : x.doc = d
         /\ \A x, y \in Items(d) : x.rank = y.rank => x = y
<1> DEFINE r == reply[d]
           n == Len(r)
           T == [section : Sections \cup Fabricated, confidence : Levels]
           f == [i \in 1..n |-> [doc |-> d, rank |-> i, section |-> r[i].section,
                                 confidence |-> r[i].confidence]]
<1>1. n \in Nat /\ DOMAIN r = 1..n /\ \A i \in 1..n : r[i] \in T
  <2>1. r \in Seq(T)
    BY RankingIs
  <2> HIDE DEF r, T
  <2> QED
    BY <2>1
<1>2. Items(d) = {f[i] : i \in 1..n}
  BY <1>1 DEF Items
<1>3. \A i \in 1..n : f[i] \in Item /\ f[i].doc = d /\ f[i].rank = i
  <2> TAKE i \in 1..n
  <2>1. r[i].section \in Sections \cup Fabricated /\ r[i].confidence \in Levels
    BY <1>1
  <2>2. i \in Nat
    BY <1>1
  <2> QED
    BY <2>1, <2>2 DEF Item
<1>4. f \in Surjection(1..n, Items(d))
  BY <1>2 DEF Surjection
<1> HIDE DEF f, n, T, r
<1>5. IsFiniteSet(Items(d))
  <2>1. IsFiniteSet(1..n)
    BY <1>1, FS_Interval
  <2> QED
    BY <1>4, <2>1, FS_Surjection
<1> QED
  BY <1>2, <1>3, <1>5

LEMMA AboveIsOrder ==
  ASSUME ReplyOK, NEW d \in Docs, NEW S \in SUBSET Items(d)
  PROVE  IsOrder({p \in S \X S : Above(p[1], p[2])}, S)
<1> DEFINE R == {p \in S \X S : Above(p[1], p[2])}
<1>1. \A x, y \in S : <<x, y>> \in R <=> Above(x, y)
  OBVIOUS
<1>2. \A x \in S : x.rank \in Nat /\ x.confidence \in Nat
  <2>1. \A x \in S : x \in Item
    BY ItemsAre
  <2> QED
    BY <2>1, RouterAssumption DEF Item
<1>3. \A x, y \in S : x.rank = y.rank => x = y
  BY ItemsAre
<1> HIDE DEF R
<1>4. \A x \in S : <<x, x>> \notin R
  BY <1>1, <1>2 DEF Above
<1>5. ASSUME NEW x \in S, NEW y \in S, NEW z \in S,
             <<x, y>> \in R, <<y, z>> \in R
      PROVE  <<x, z>> \in R
  <2>1. Above(x, y) /\ Above(y, z)
    BY <1>1, <1>5
  <2>2. /\ x.rank \in Nat /\ y.rank \in Nat /\ z.rank \in Nat
        /\ x.confidence \in Nat /\ y.confidence \in Nat /\ z.confidence \in Nat
    BY <1>2
  <2>3. Above(x, z)
    BY <2>1, <2>2 DEF Above
  <2> QED
    BY <1>1, <2>3
<1>6. ASSUME NEW x \in S, NEW y \in S, x # y
      PROVE  <<x, y>> \in R \/ <<y, x>> \in R
  <2>1. /\ x.rank \in Nat /\ y.rank \in Nat /\ x.rank # y.rank
        /\ x.confidence \in Nat /\ y.confidence \in Nat
    BY <1>2, <1>3, <1>6
  <2>2. Above(x, y) \/ Above(y, x)
    BY <2>1 DEF Above
  <2> QED
    BY <1>1, <2>2
<1>7. IsOrder(R, S)
  BY <1>4, <1>5, <1>6 DEF IsOrder
<1> QED
  BY <1>7 DEF R

LEMMA DescendingIs ==
  ASSUME ReplyOK, NEW d \in Docs, NEW S \in SUBSET Items(d)
  PROVE  LET s == Descending(S)
             n == Cardinality(S)
         IN  /\ n \in Nat
             /\ s \in [1..n -> S]
             /\ \A i, j \in 1..n : i < j => Above(s[i], s[j])
             /\ \A x \in S : \E i \in 1..n : s[i] = x
<1> DEFINE R == {p \in S \X S : Above(p[1], p[2])}
           n == Cardinality(S)
           s == Descending(S)
<1>1. IsFiniteSet(S) /\ n \in Nat
  BY ItemsAre, FS_Subset, FS_CardinalityType
<1>2. IsOrder(R, S)
  BY AboveIsOrder
<1>3. \A x, y \in S : <<x, y>> \in R <=> Above(x, y)
  OBVIOUS
<1> HIDE DEF R
<1>4. PICK t : IsInOrder(t, n, S, R)
  BY <1>1, <1>2, OrderExists
<1>5. /\ t \in [1..n -> S]
      /\ \A i, j \in DOMAIN t : i < j => Above(t[i], t[j])
  BY <1>3, <1>4 DEF IsInOrder
<1>6. /\ s \in [1..n -> S]
      /\ \A i, j \in DOMAIN s : i < j => Above(s[i], s[j])
  BY <1>5 DEF Descending
<1> HIDE DEF s, n
<1>7. IsInOrder(s, n, S, R)
  BY <1>3, <1>6 DEF IsInOrder
<1>8. \A x \in S : \E i \in 1..n : s[i] = x
  BY <1>1, <1>2, <1>7, OrderCovers DEF n
<1>9. \A i, j \in 1..n : i < j => Above(s[i], s[j])
  BY <1>6
<1> QED
  BY <1>1, <1>6, <1>8, <1>9 DEF s, n

(* A prefix.                                                                *)
LEMMA CappedIs ==
  ASSUME RequestOK, NEW S, NEW s \in Seq(S)
  PROVE  LET c == Capped(s)
         IN  /\ c \in Seq(S)
             /\ Len(c) = IF Len(s) < request.cap THEN Len(s) ELSE request.cap
             /\ Len(c) \in Nat /\ Len(c) <= Len(s) /\ Len(c) <= request.cap
             /\ \A i \in 1..Len(c) : i \in 1..Len(s) /\ c[i] = s[i]
<1> DEFINE m == IF Len(s) < request.cap THEN Len(s) ELSE request.cap
           c == SubSeq(s, 1, m)
<1>1. Len(s) \in Nat /\ request.cap \in Nat
  BY DEF RequestOK
<1>2. m \in Nat /\ m <= Len(s) /\ m <= request.cap
  BY <1>1
<1>3. Capped(s) = c
  BY DEF Capped
<1>4. \A i \in 1..m : i \in 1..Len(s)
  BY <1>1, <1>2
<1> HIDE DEF m
<1>5. c \in Seq(S) /\ Len(c) = m /\ \A i \in 1..m : c[i] = s[i]
  BY <1>1, <1>2, <1>4
<1> HIDE DEF c
<1>6. /\ c \in Seq(S) /\ Len(c) = m
      /\ Len(c) \in Nat /\ Len(c) <= Len(s) /\ Len(c) <= request.cap
      /\ \A i \in 1..Len(c) : i \in 1..Len(s) /\ c[i] = s[i]
  BY <1>2, <1>4, <1>5
<1> QED
  BY <1>3, <1>6 DEF m

(* What the threshold leaves, before the cap.                               *)
High(d) == {x \in Eligible(d) : x.confidence >= request.threshold}
Band(d) == IF High(d) # {} THEN High(d) ELSE Eligible(d)

LEMMA EligibleAre ==
  ASSUME RequestOK, ReplyOK, NEW d \in Docs
  PROVE  /\ Band(d) \subseteq Eligible(d) /\ Eligible(d) \subseteq Items(d)
         /\ Band(d) = {} <=> Eligible(d) = {}
         /\ \A x \in Eligible(d) : /\ x.confidence \in Nat /\ x.rank \in Nat
                                   /\ x.section \in SectionsOf(d) /\ x.doc = d
                                   /\ x \in Item
<1>1. /\ Band(d) \subseteq Eligible(d) /\ Eligible(d) \subseteq Items(d)
      /\ Band(d) = {} <=> Eligible(d) = {}
  BY DEF Band, High, Eligible
<1>2. \A x \in Items(d) : x \in Item /\ x.doc = d
  BY ItemsAre
<1>3. \A x \in Item : x.confidence \in Nat /\ x.rank \in Nat
  BY RouterAssumption DEF Item
<1>4. \A x \in Eligible(d) : x.section \in SectionsOf(d)
  BY DEF Eligible
<1> QED
  BY <1>1, <1>2, <1>3, <1>4

LEMMA SelectedIs ==
  ASSUME RequestOK, ReplyOK, NEW d \in Docs
  PROVE  Selected(d) = Capped(Descending(Band(d)))
<1> DEFINE eligible == {x \in Validated(d) : x.confidence >= Floor}
           high == {x \in eligible : x.confidence >= request.threshold}
           mid == {x \in eligible : x.confidence < request.threshold}
<1>1. Selected(d) = Capped(Descending(IF high # {} THEN high ELSE mid))
  BY DEF Selected, ApplyThreshold
<1>2. eligible = Eligible(d)
  BY DEF Validated, Eligible
<1>3. high = High(d)
  BY <1>2 DEF High
<1>4. high = {} => mid = Eligible(d)
  <2>1. \A x \in Eligible(d) : x.confidence \in Nat
    BY EligibleAre
  <2>2. request.threshold \in Nat
    BY DEF RequestOK
  <2>3. ASSUME high = {}, NEW x \in Eligible(d)
        PROVE  x \in mid
    <3>1. ~(x.confidence >= request.threshold)
      BY <1>2, <2>3
    <3>2. x.confidence < request.threshold
      BY <2>1, <2>2, <3>1
    <3> QED
      BY <1>2, <3>2
  <2> QED
    BY <1>2, <2>3
<1> HIDE DEF high, mid
<1>5. (IF high # {} THEN high ELSE mid) = Band(d)
  BY <1>3, <1>4 DEF Band
<1> QED
  BY <1>1, <1>5

(* What a document contributes is, in the order of the reply, a prefix of   *)
(* what the threshold leaves of it.                                         *)
Contributed(c, d) ==
  /\ c \in Seq(Item)
  /\ \A i \in 1..Len(c) : c[i] \in Band(d)
  /\ c = <<>> <=> Eligible(d) = {}
  /\ \A i, j \in 1..Len(c) : i < j => Above(c[i], c[j])
  /\ \A x \in Eligible(d) : \A j \in 1..Len(c) :
       Above(x, c[j]) => \E i \in 1..(j - 1) : c[i] = x

LEMMA SelectedIsContributed ==
  ASSUME RequestOK, ReplyOK, NEW d \in Docs
  PROVE  Contributed(Selected(d), d)
<1> DEFINE B == Band(d)
           s == Descending(B)
           n == Cardinality(B)
           c == Selected(d)
<1>1. B \in SUBSET Items(d)
  BY EligibleAre
<1>2. /\ n \in Nat
      /\ s \in [1..n -> B]
      /\ \A i, j \in 1..n : i < j => Above(s[i], s[j])
      /\ \A x \in B : \E i \in 1..n : s[i] = x
  BY <1>1, DescendingIs
<1>3. c = Capped(s)
  BY SelectedIs
<1> HIDE DEF s, n, c, B
<1>4. s \in Seq(B) /\ Len(s) = n
  BY <1>2
<1>5. /\ c \in Seq(B)
      /\ Len(c) = IF n < request.cap THEN n ELSE request.cap
      /\ Len(c) \in Nat /\ Len(c) <= n
      /\ \A i \in 1..Len(c) : i \in 1..n /\ c[i] = s[i]
  BY <1>3, <1>4, CappedIs
<1>6. \A i \in 1..Len(c) : c[i] \in B
  BY <1>5
<1>7. c \in Seq(Item)
  <2>1. \A i \in 1..Len(c) : c[i] \in Item
    BY <1>6, EligibleAre DEF B
  <2>2. c = [i \in 1..Len(c) |-> c[i]]
    BY <1>5
  <2> QED
    BY <1>5, <2>1, <2>2
<1>8. \A i, j \in 1..Len(c) : i < j => Above(c[i], c[j])
  BY <1>2, <1>5
<1>9. c = <<>> <=> Eligible(d) = {}
  <2>1. c = <<>> <=> Len(c) = 0
    BY <1>5
  <2>2. Len(c) = 0 <=> n = 0
    BY <1>2, <1>5 DEF RequestOK
  <2>3. n = 0 <=> B = {}
    <3>1. IsFiniteSet(B)
      BY <1>1, ItemsAre, FS_Subset
    <3> QED
      BY <3>1, FS_EmptySet DEF n
  <2> QED
    BY <2>1, <2>2, <2>3, EligibleAre DEF B
<1>10. ASSUME NEW x \in Eligible(d), NEW j \in 1..Len(c), Above(x, c[j])
       PROVE  \E i \in 1..(j - 1) : c[i] = x
  <2>1. c[j] \in B /\ j \in 1..n /\ c[j] = s[j]
    BY <1>5, <1>6
  <2>2. x \in B
    <3>1. CASE High(d) = {}
      BY <3>1 DEF B, Band
    <3>2. CASE High(d) # {}
      <4>1. c[j] \in High(d)
        BY <2>1, <3>2 DEF B, Band
      <4>2. /\ x.confidence \in Nat /\ c[j].confidence \in Nat
            /\ c[j].confidence >= request.threshold
        BY <4>1, EligibleAre DEF High
      <4>3. x.confidence >= c[j].confidence
        BY <1>10, <4>2 DEF Above
      <4>4. x.confidence >= request.threshold
        BY <4>2, <4>3 DEF RequestOK
      <4> QED
        BY <3>2, <4>4 DEF B, Band, High
    <3> QED
      BY <3>1, <3>2
  <2>3. PICK i \in 1..n : s[i] = x
    BY <1>2, <2>2
  <2>4. ~(j < i) /\ i # j
    <3>1. /\ x.confidence \in Nat /\ c[j].confidence \in Nat
          /\ x.rank \in Nat /\ c[j].rank \in Nat
      BY <2>1, EligibleAre DEF B
    <3>2. ~Above(c[j], x) /\ x # c[j]
      BY <1>10, <3>1 DEF Above
    <3> QED
      BY <1>2, <2>1, <2>3, <3>2
  <2>5. i \in 1..(j - 1) /\ i \in 1..Len(c)
    <3>1. n \in Nat /\ Len(c) \in Nat
      BY <1>2, <1>5
    <3>2. i \in Nat /\ 1 <= i /\ j \in Nat /\ j <= Len(c)
      BY <3>1
    <3> QED
      BY <2>4, <3>1, <3>2
  <2> QED
    BY <1>5, <2>3, <2>5
<1> QED
  BY <1>6, <1>7, <1>8, <1>9, <1>10 DEF Contributed, B, c

(* Joining to the table of contents again leaves nothing out.               *)
LEMMA ContributionIs ==
  ASSUME RequestOK, ReplyOK, NEW d \in Docs
  PROVE  Contributed(Contribution(d), d)
<1> DEFINE c == Selected(d)
           ss == [i \in DOMAIN c |-> IF c[i].section \in SectionsOf(d)
                                     THEN <<c[i]>> ELSE <<>>]
<1>1. Contribution(d) = FlattenSeq(ss)
  BY DEF Contribution, RouterOutput
<1>2. Contributed(c, d)
  BY SelectedIsContributed
<1> HIDE DEF c
<1>3. c \in Seq(Item) /\ DOMAIN c = 1..Len(c)
  BY <1>2 DEF Contributed
<1>4. \A i \in DOMAIN c : c[i].section \in SectionsOf(d)
  BY <1>2, <1>3, EligibleAre DEF Contributed
<1>5. ss = [i \in DOMAIN c |-> <<c[i]>>]
  BY <1>4
<1> HIDE DEF ss
<1>6. FlattenSeq(ss) = c
  BY <1>3, <1>5, FlattenSingles
<1> QED
  BY <1>1, <1>2, <1>6

-----------------------------------------------------------------------------
(* The sections of several documents, C[d] those of d, joined in an order.  *)

AreContributions(C) ==
  /\ C \in [Docs -> Seq(Item)]
  /\ \A d \in Docs : \A i \in 1..Len(C[d]) : C[d][i].doc = d
  /\ \A d \in Docs : \A i, j \in 1..Len(C[d]) : i < j => Above(C[d][i], C[d][j])

InTurn(C, order) == [i \in DOMAIN order |-> C[order[i]]]

LEMMA ContributedAre ==
  ASSUME NEW C, AreContributions(C), NEW d \in Docs
  PROVE  /\ C[d] \in Seq(Item) /\ Len(C[d]) \in Nat
         /\ \A m \in 1..Len(C[d]) :
              /\ C[d][m] \in Item /\ C[d][m].doc = d
              /\ C[d][m].confidence \in Nat /\ C[d][m].rank \in Nat
         /\ \A i, j \in 1..Len(C[d]) : i < j => Above(C[d][i], C[d][j])
<1> DEFINE c == C[d]
<1>1. c \in Seq(Item)
  BY DEF AreContributions
<1>2. /\ \A i \in 1..Len(c) : c[i].doc = d
      /\ \A i, j \in 1..Len(c) : i < j => Above(c[i], c[j])
  BY DEF AreContributions
<1> HIDE DEF c
<1>3. Len(c) \in Nat /\ \A m \in 1..Len(c) : c[m] \in Item
  BY <1>1
<1>4. \A x \in Item : x.confidence \in Nat /\ x.rank \in Nat
  BY RouterAssumption DEF Item
<1> QED
  BY <1>1, <1>2, <1>3, <1>4 DEF c

LEMMA InTurnIs ==
  ASSUME NEW C, AreContributions(C), NEW order \in Seq(Docs)
  PROVE  /\ InTurn(C, order) \in Seq(Seq(Item))
         /\ Len(InTurn(C, order)) = Len(order)
         /\ \A k \in 1..Len(order) :
              order[k] \in Docs /\ InTurn(C, order)[k] = C[order[k]]
<1>1. \A k \in 1..Len(order) : order[k] \in Docs
  OBVIOUS
<1>2. C \in [Docs -> Seq(Item)]
  BY DEF AreContributions
<1>3. InTurn(C, order) = [k \in 1..Len(order) |-> C[order[k]]]
  BY DEF InTurn
<1>4. Len(order) \in Nat
  OBVIOUS
<1> QED
  BY <1>1, <1>2, <1>3, <1>4

(* The emission index is the place in what the document contributes: its    *)
(* sections are in order already, and in one piece.                         *)
LEMMA EmissionIs ==
  ASSUME NEW C, AreContributions(C), NEW order \in Seq(Docs),
         \A i, j \in 1..Len(order) : order[i] = order[j] => i = j,
         NEW s \in Seq(Item), NEW off, IsJoined(s, InTurn(C, order), off),
         NEW k \in 1..Len(order), NEW m \in 1..Len(C[order[k]])
  PROVE  /\ off[k - 1] + m \in 1..Len(s)
         /\ s[off[k - 1] + m] = C[order[k]][m]
         /\ EmissionIndex(s, off[k - 1] + m) = m - 1
<1> DEFINE ss == InTurn(C, order)
           N == Len(order)
           d == order[k]
           b == off[k - 1]
           i == b + m
           J == {j \in DOMAIN s :
                   /\ s[j].doc = s[i].doc
                   /\ \/ s[j].confidence > s[i].confidence
                      \/ s[j].confidence = s[i].confidence /\ j < i}
<1>1. /\ N \in Nat /\ ss \in Seq(Seq(Item)) /\ Len(ss) = N
      /\ \A n \in 1..N : order[n] \in Docs /\ ss[n] = C[order[n]]
  BY InTurnIs
<1>2. IsOffsets(off, ss) /\ Len(s) = off[N] /\ DOMAIN s = 1..off[N]
  BY <1>1 DEF IsJoined
<1>3. \A n \in 1..N : \A x \in 1..Len(C[order[n]]) : s[off[n - 1] + x] = C[order[n]][x]
  <2>1. \A n \in 1..Len(ss) : \A x \in 1..Len(ss[n]) : s[off[n - 1] + x] = ss[n][x]
    BY DEF IsJoined
  <2> HIDE DEF ss, N
  <2> QED
    BY <1>1, <2>1
<1>4. \A n \in 0..N : off[n] \in Nat
  BY <1>1, <1>2 DEF IsOffsets
<1>5. off[k] = off[k - 1] + Len(C[d])
  BY <1>1, <1>2 DEF IsOffsets
<1>6. /\ d \in Docs /\ k - 1 \in 0..N /\ k \in 0..N /\ N \in 0..N /\ k <= N
      /\ m \in Nat /\ 1 <= m
  <2>1. Len(C[d]) \in Nat
    BY <1>1, ContributedAre
  <2> QED
    BY <1>1, <2>1
<1>7. off[k] <= off[N]
  BY <1>1, <1>2, <1>6, OffsetsGrow
<1>8. Len(C[d]) \in Nat /\ b \in Nat /\ off[N] \in Nat
  BY <1>4, <1>6, ContributedAre
<1>9. b + Len(C[d]) <= off[N]
  BY <1>5, <1>7
<1> HIDE DEF ss, N, d, b
<1>10. \A x \in 1..Len(C[d]) : /\ b + x \in 1..off[N]
                               /\ s[b + x] = C[d][x]
  <2> TAKE x \in 1..Len(C[d])
  <2>1. b + x \in 1..off[N]
    BY <1>8, <1>9, PlaceWithin
  <2>2. s[b + x] = C[d][x]
    BY <1>3 DEF b, d, N
  <2> QED
    BY <2>1, <2>2
<1>11. m \in 1..Len(C[d])
  BY DEF d
<1>12. i \in 1..off[N] /\ s[i] = C[d][m] /\ i \in Nat
  BY <1>6, <1>8, <1>10, <1>11
<1>13. ASSUME NEW x \in 1..Len(C[d]), x < m
       PROVE  b + x \in J
  <2>1. b + x \in DOMAIN s /\ s[b + x] = C[d][x]
    BY <1>2, <1>10
  <2>2. x \in Nat /\ b + x < b + m
    BY <1>6, <1>8, <1>13
  <2>3. /\ C[d][x].doc = d /\ C[d][m].doc = d
        /\ C[d][x].confidence \in Nat /\ C[d][m].confidence \in Nat
        /\ Above(C[d][x], C[d][m])
    BY <1>6, <1>11, <1>13, ContributedAre
  <2>4. \/ C[d][x].confidence > C[d][m].confidence
        \/ C[d][x].confidence = C[d][m].confidence
    BY <2>3 DEF Above
  <2> QED
    BY <1>12, <2>1, <2>2, <2>3, <2>4
<1>14. ASSUME NEW j \in J
       PROVE  j \in (b + 1)..(b + m - 1)
  <2>1. j \in 1..off[Len(ss)]
    BY <1>1, <1>2 DEF N, ss
  <2>2. PICK n \in 1..Len(ss) : \E x \in 1..Len(ss[n]) : j = off[n - 1] + x
    <3>1. ss \in Seq(Seq(Item)) /\ IsOffsets(off, ss)
      BY <1>1, <1>2
    <3>2. IsPlace(j, ss, off)
      BY <2>1, <3>1, OffsetsCover
    <3> QED
      BY <3>2 DEF IsPlace
  <2>3. PICK x \in 1..Len(ss[n]) : j = off[n - 1] + x
    BY <2>2
  <2>4. n \in 1..N /\ order[n] \in Docs /\ x \in 1..Len(C[order[n]])
    BY <1>1 DEF ss, N
  <2>5. s[j] = C[order[n]][x] /\ s[j].doc = order[n]
    <3>1. s[j] = C[order[n]][x]
      BY <1>3, <2>3, <2>4
    <3>2. \A y \in 1..Len(C[order[n]]) : C[order[n]][y].doc = order[n]
      BY <2>4 DEF AreContributions
    <3>3. C[order[n]][x].doc = order[n]
      BY <2>4, <3>2
    <3> QED
      BY <3>1, <3>3
  <2>6. s[i].doc = d
    <3>1. \A y \in 1..Len(C[d]) : C[d][y].doc = d
      BY <1>6 DEF AreContributions
    <3>2. C[d][m].doc = d
      BY <1>11, <3>1
    <3> QED
      BY <1>12, <3>2
  <2>7. n = k
    BY <2>4, <2>5, <2>6 DEF N, d
  <2>8. x \in 1..Len(C[d]) /\ j = b + x /\ s[j] = C[d][x]
    BY <2>3, <2>4, <2>5, <2>7 DEF d, b
  <2>9. /\ C[d][x].confidence \in Nat /\ C[d][m].confidence \in Nat
        /\ x \in Nat /\ 1 <= x
    <3>1. C[d][x].confidence \in Nat /\ C[d][m].confidence \in Nat
      BY <1>6, <1>11, <2>8, ContributedAre
    <3>2. x \in Nat /\ 1 <= x
      BY <1>8, <2>8
    <3> QED
      BY <3>1, <3>2
  <2>10. x < m
    <3> SUFFICES ASSUME ~(x < m) PROVE FALSE
      OBVIOUS
    <3>1. ~(j < i)
      BY <1>6, <1>8, <2>8, <2>9
    <3>2. C[d][x].confidence > C[d][m].confidence
      BY <1>12, <2>8, <3>1
    <3>3. x # m
      BY <2>9, <3>2
    <3>4. m < x
      BY <1>6, <2>9, <3>3
    <3>5. Above(C[d][m], C[d][x])
      BY <1>6, <1>11, <2>8, <3>4, ContributedAre
    <3> DEFINE p == C[d][m]
               q == C[d][x]
    <3>6. /\ p.confidence \in Nat /\ q.confidence \in Nat
          /\ q.confidence > p.confidence
      BY <2>9, <3>2
    <3>7. Above(p, q)
      BY <3>5
    <3> HIDE DEF p, q
    <3> QED
      BY <3>6, <3>7 DEF Above
  <2>11. j = b + x /\ x \in Nat /\ m \in Nat /\ b \in Nat /\ 1 <= x /\ x < m
    BY <1>6, <1>8, <2>8, <2>9, <2>10
  <2> HIDE DEF J
  <2> QED
    BY <2>11
<1>15. ASSUME NEW j \in (b + 1)..(b + m - 1)
       PROVE  j \in J
  <2>1. j - b \in 1..Len(C[d]) /\ j - b < m /\ b + (j - b) = j
    BY <1>6, <1>8, <1>11
  <2> HIDE DEF J
  <2> QED
    BY <1>13, <2>1
<1>16. EmissionIndex(s, i) = Cardinality(J)
  BY DEF EmissionIndex
<1> HIDE DEF J
<1>17. J = (b + 1)..(b + m - 1)
  BY <1>14, <1>15
<1>18. Cardinality((b + 1)..(b + m - 1)) = m - 1
  <2>1. b + 1 \in Int /\ b + m - 1 \in Int
    BY <1>6, <1>8
  <2>2. Cardinality((b + 1)..(b + m - 1)) =
          IF b + 1 > b + m - 1 THEN 0 ELSE (b + m - 1) - (b + 1) + 1
    BY <2>1, FS_Interval
  <2> QED
    BY <1>6, <1>8, <2>2
<1>19. i \in 1..Len(s)
  BY <1>2, <1>12 DEF N
<1> QED
  BY <1>12, <1>16, <1>17, <1>18, <1>19 DEF b, d

-----------------------------------------------------------------------------
(* The merge.                                                               *)

Entry(C, d, m) == [of |-> C[d][m], index |-> m - 1]
IsEntry(e, C, A) == \E d \in A : \E m \in 1..Len(C[d]) : e = Entry(C, d, m)

IsRequested(order) ==
  /\ order \in Seq(Docs)
  /\ \A i, j \in 1..Len(order) : order[i] = order[j] => i = j

(* What is merged tells the documents, and not how they were ordered.       *)
LEMMA EmittedIs ==
  ASSUME NEW C, AreContributions(C), NEW order, IsRequested(order)
  PROVE  LET s == FlattenSeq(InTurn(C, order))
         IN  /\ s \in Seq(Item)
             /\ \A e \in Emitted(s) : IsEntry(e, C, ToSet(order))
             /\ \A e : IsEntry(e, C, ToSet(order)) => e \in Emitted(s)
<1> DEFINE ss == InTurn(C, order)
           s == FlattenSeq(ss)
           N == Len(order)
<1>1. /\ order \in Seq(Docs) /\ N \in Nat /\ DOMAIN order = 1..N
      /\ \A i, j \in 1..N : order[i] = order[j] => i = j
  BY DEF IsRequested
<1>2. /\ ss \in Seq(Seq(Item)) /\ Len(ss) = N
      /\ \A n \in 1..N : order[n] \in Docs /\ ss[n] = C[order[n]]
  BY <1>1, InTurnIs
<1> HIDE DEF ss
<1>3. s \in Seq(Item)
  BY <1>2, FlattenIs
<1>4. PICK off : IsJoined(s, ss, off)
  BY <1>2, FlattenIs
<1>5. IsOffsets(off, ss) /\ Len(s) = off[Len(ss)]
  BY <1>4 DEF IsJoined
<1> HIDE DEF s
<1>6. ASSUME NEW k \in 1..N, NEW m \in 1..Len(C[order[k]])
      PROVE  /\ off[k - 1] + m \in 1..Len(s)
             /\ s[off[k - 1] + m] = C[order[k]][m]
             /\ EmissionIndex(s, off[k - 1] + m) = m - 1
  <2>1. /\ IsJoined(s, InTurn(C, order), off) /\ s \in Seq(Item)
        /\ order \in Seq(Docs) /\ k \in 1..Len(order)
        /\ \A i, j \in 1..Len(order) : order[i] = order[j] => i = j
    BY <1>1, <1>3, <1>4 DEF ss
  <2> QED
    BY <2>1, EmissionIs
<1> HIDE DEF N
<1>7. DOMAIN s = 1..Len(s)
  BY <1>3
<1>8. ASSUME NEW e \in Emitted(s)
      PROVE  IsEntry(e, C, ToSet(order))
  <2>1. PICK i \in 1..Len(s) : e = [of |-> s[i], index |-> EmissionIndex(s, i)]
    BY <1>7 DEF Emitted
  <2>2. i \in 1..off[Len(ss)]
    BY <1>5
  <2>3. IsPlace(i, ss, off)
    BY <1>2, <1>5, <2>2, OffsetsCover
  <2>4. PICK k \in 1..Len(ss) : \E m \in 1..Len(ss[k]) : i = off[k - 1] + m
    BY <2>3 DEF IsPlace
  <2>5. PICK m \in 1..Len(ss[k]) : i = off[k - 1] + m
    BY <2>4
  <2>6. k \in 1..N /\ m \in 1..Len(C[order[k]])
    BY <1>2, <2>5
  <2>7. e = Entry(C, order[k], m)
    BY <1>6, <2>1, <2>5, <2>6 DEF Entry
  <2>8. order[k] \in ToSet(order)
    BY <1>1, <2>6 DEF ToSet
  <2> QED
    BY <2>6, <2>7, <2>8 DEF IsEntry
<1>9. ASSUME NEW e, IsEntry(e, C, ToSet(order))
      PROVE  e \in Emitted(s)
  <2>1. PICK d \in ToSet(order) : \E m \in 1..Len(C[d]) : e = Entry(C, d, m)
    BY <1>9 DEF IsEntry
  <2>2. PICK m \in 1..Len(C[d]) : e = Entry(C, d, m)
    BY <2>1
  <2>3. PICK k \in 1..N : d = order[k]
    BY <1>1 DEF ToSet
  <2>4. /\ off[k - 1] + m \in DOMAIN s
        /\ s[off[k - 1] + m] = C[d][m]
        /\ EmissionIndex(s, off[k - 1] + m) = m - 1
    BY <1>6, <1>7, <2>2, <2>3
  <2> QED
    BY <2>2, <2>4 DEF Entry, Emitted
<1> QED
  BY <1>3, <1>8, <1>9 DEF s, ss

LEMMA EntriesAre ==
  ASSUME NEW C, AreContributions(C), NEW A \in SUBSET Docs,
         NEW d \in A, NEW m \in 1..Len(C[d])
  PROVE  LET e == Entry(C, d, m)
         IN  /\ e.of = C[d][m] /\ e.index = m - 1 /\ e.index \in Nat
             /\ e.of \in Item /\ e.of.doc = d /\ d \in Nat
             /\ e.of.confidence \in Nat
<1>1. d \in Docs /\ d \in Nat
  BY RouterAssumption
<1>2. /\ Len(C[d]) \in Nat /\ C[d][m] \in Item /\ C[d][m].doc = d
      /\ C[d][m].confidence \in Nat
  BY <1>1, ContributedAre
<1>3. m - 1 \in Nat
  BY <1>2
<1> QED
  BY <1>1, <1>2, <1>3 DEF Entry

LEMMA PrecedesIsOrder ==
  ASSUME NEW C, AreContributions(C), NEW A \in SUBSET Docs,
         NEW S, \A e \in S : IsEntry(e, C, A)
  PROVE  IsOrder({p \in S \X S : Precedes(p[1], p[2])}, S)
<1> DEFINE R == {p \in S \X S : Precedes(p[1], p[2])}
<1>1. \A x, y \in S : <<x, y>> \in R <=> Precedes(x, y)
  OBVIOUS
<1>2. ASSUME NEW e \in S
      PROVE  /\ e.of.confidence \in Nat /\ e.of.doc \in Nat /\ e.index \in Nat
             /\ e = Entry(C, e.of.doc, e.index + 1)
  <2>1. PICK d \in A : \E m \in 1..Len(C[d]) : e = Entry(C, d, m)
    BY DEF IsEntry
  <2>2. PICK m \in 1..Len(C[d]) : e = Entry(C, d, m)
    BY <2>1
  <2>3. /\ e.index = m - 1 /\ e.index \in Nat /\ e.of.doc = d /\ d \in Nat
        /\ e.of.confidence \in Nat
    BY <2>2, EntriesAre
  <2>4. e.index + 1 = m
    <3>1. Len(C[d]) \in Nat
      BY ContributedAre
    <3> QED
      BY <2>3, <3>1
  <2> QED
    BY <2>2, <2>3, <2>4
<1> HIDE DEF R
<1>3. \A x \in S : <<x, x>> \notin R
  BY <1>1, <1>2 DEF Precedes
<1>4. ASSUME NEW x \in S, NEW y \in S, NEW z \in S,
             <<x, y>> \in R, <<y, z>> \in R
      PROVE  <<x, z>> \in R
  <2>1. Precedes(x, y) /\ Precedes(y, z)
    BY <1>1, <1>4
  <2>2. /\ x.of.confidence \in Nat /\ x.of.doc \in Nat /\ x.index \in Nat
        /\ y.of.confidence \in Nat /\ y.of.doc \in Nat /\ y.index \in Nat
        /\ z.of.confidence \in Nat /\ z.of.doc \in Nat /\ z.index \in Nat
    BY <1>2
  <2>3. Precedes(x, z)
    BY <2>1, <2>2 DEF Precedes
  <2> QED
    BY <1>1, <2>3
<1>5. ASSUME NEW x \in S, NEW y \in S, x # y
      PROVE  <<x, y>> \in R \/ <<y, x>> \in R
  <2>1. /\ x.of.confidence \in Nat /\ x.of.doc \in Nat /\ x.index \in Nat
        /\ y.of.confidence \in Nat /\ y.of.doc \in Nat /\ y.index \in Nat
    BY <1>2
  <2>2. x.of.doc # y.of.doc \/ x.index # y.index
    BY <1>2, <1>5
  <2>3. Precedes(x, y) \/ Precedes(y, x)
    BY <2>1, <2>2 DEF Precedes
  <2> QED
    BY <1>1, <2>3
<1>6. IsOrder(R, S)
  BY <1>3, <1>4, <1>5 DEF IsOrder
<1> QED
  BY <1>6 DEF R

IsKeyed(s, n, S) ==
  /\ n \in Nat
  /\ s \in [1..n -> S]
  /\ \A i, j \in 1..n : i < j => Precedes(s[i], s[j])
  /\ \A x \in S : \E i \in 1..n : s[i] = x

LEMMA InKeyOrderIs ==
  ASSUME NEW C, AreContributions(C), NEW A \in SUBSET Docs,
         NEW S, IsFiniteSet(S), \A e \in S : IsEntry(e, C, A)
  PROVE  IsKeyed(InKeyOrder(S), Cardinality(S), S)
<1> DEFINE R == {p \in S \X S : Precedes(p[1], p[2])}
           n == Cardinality(S)
           s == InKeyOrder(S)
<1>1. n \in Nat
  BY FS_CardinalityType
<1>2. IsOrder(R, S)
  BY PrecedesIsOrder
<1>3. \A x, y \in S : <<x, y>> \in R <=> Precedes(x, y)
  OBVIOUS
<1> HIDE DEF R
<1>4. PICK t : IsInOrder(t, n, S, R)
  BY <1>1, <1>2, OrderExists
<1>5. /\ t \in [1..n -> S]
      /\ \A i, j \in DOMAIN t : i < j => Precedes(t[i], t[j])
  BY <1>3, <1>4 DEF IsInOrder
<1>6. /\ s \in [1..n -> S]
      /\ \A i, j \in DOMAIN s : i < j => Precedes(s[i], s[j])
  BY <1>5 DEF InKeyOrder
<1> HIDE DEF s, n
<1>7. IsInOrder(s, n, S, R)
  BY <1>3, <1>6 DEF IsInOrder
<1>8. \A x \in S : \E i \in 1..n : s[i] = x
  BY <1>1, <1>2, <1>7, OrderCovers DEF n
<1>9. \A i, j \in 1..n : i < j => Precedes(s[i], s[j])
  BY <1>6
<1> QED
  BY <1>1, <1>6, <1>8, <1>9 DEF IsKeyed, s, n

(* The order of what is merged: first of each document, then by key.        *)
Comes(e, f) ==
  \/ e.index = 0 /\ f.index # 0
  \/ (e.index = 0 <=> f.index = 0) /\ Precedes(e, f)

IsMerge(merged, C, A) ==
  /\ Len(merged) \in Nat
  /\ \A i \in 1..Len(merged) : IsEntry(merged[i], C, A)
  /\ \A e : IsEntry(e, C, A) => \E i \in 1..Len(merged) : merged[i] = e
  /\ \A i, j \in 1..Len(merged) : i < j => Comes(merged[i], merged[j])

MergedOf(s) == InKeyOrder(Representatives(s)) \o InKeyOrder(Remainder(s))

LEMMA EmittedIsFinite == ASSUME NEW S, NEW s \in Seq(S)
                         PROVE  IsFiniteSet(Emitted(s))
<1> DEFINE f == [i \in DOMAIN s |-> [of |-> s[i], index |-> EmissionIndex(s, i)]]
<1>1. DOMAIN s = 1..Len(s) /\ Len(s) \in Nat
  OBVIOUS
<1>2. IsFiniteSet(DOMAIN s)
  BY <1>1, FS_Interval
<1>3. f \in Surjection(DOMAIN s, Emitted(s))
  BY DEF Surjection, Emitted
<1> QED
  BY <1>2, <1>3, FS_Surjection

LEMMA MergedIs ==
  ASSUME NEW C, AreContributions(C), NEW order, IsRequested(order),
         NEW s, s = FlattenSeq(InTurn(C, order))
  PROVE  /\ MergedOf(s) \in Seq(Emitted(s))
         /\ IsMerge(MergedOf(s), C, ToSet(order))
<1> DEFINE A == ToSet(order)
           F == Representatives(s)
           G == Remainder(s)
           p == InKeyOrder(F)
           q == InKeyOrder(G)
           a == Cardinality(F)
           b == Cardinality(G)
<1>1. A \in SUBSET Docs
  <2>1. \A i \in DOMAIN order : order[i] \in Docs
    BY DEF IsRequested
  <2> QED
    BY <2>1 DEF ToSet
<1>2. /\ s \in Seq(Item)
      /\ \A e \in Emitted(s) : IsEntry(e, C, A)
      /\ \A e : IsEntry(e, C, A) => e \in Emitted(s)
  BY EmittedIs
<1>3. /\ F \subseteq Emitted(s) /\ G \subseteq Emitted(s)
      /\ \A e \in Emitted(s) : e \in F \/ e \in G
      /\ \A e \in F : e.index = 0
      /\ \A e \in G : e.index # 0
  BY DEF Representatives, Remainder
<1>4. IsFiniteSet(F) /\ IsFiniteSet(G)
  BY <1>2, <1>3, EmittedIsFinite, FS_Subset
<1> HIDE DEF A, F, G
<1>5. /\ a \in Nat /\ p \in [1..a -> F]
      /\ \A i, j \in 1..a : i < j => Precedes(p[i], p[j])
      /\ \A x \in F : \E i \in 1..a : p[i] = x
  <2>1. \A e \in F : IsEntry(e, C, A)
    BY <1>2, <1>3
  <2>2. IsKeyed(p, a, F)
    BY <1>1, <1>4, <2>1, InKeyOrderIs
  <2> QED
    BY <2>2 DEF IsKeyed
<1>6. /\ b \in Nat /\ q \in [1..b -> G]
      /\ \A i, j \in 1..b : i < j => Precedes(q[i], q[j])
      /\ \A x \in G : \E i \in 1..b : q[i] = x
  <2>1. \A e \in G : IsEntry(e, C, A)
    BY <1>2, <1>3
  <2>2. IsKeyed(q, b, G)
    BY <1>1, <1>4, <2>1, InKeyOrderIs
  <2> QED
    BY <2>2 DEF IsKeyed
<1> HIDE DEF p, q, a, b
<1>7. /\ p \in Seq(Emitted(s)) /\ Len(p) = a
      /\ q \in Seq(Emitted(s)) /\ Len(q) = b
  BY <1>3, <1>5, <1>6
<1> DEFINE m == p \o q
<1>8. /\ m \in Seq(Emitted(s)) /\ Len(m) = a + b
      /\ \A i \in 1..a : m[i] = p[i]
      /\ \A i \in 1..b : m[a + i] = q[i]
  <2> DEFINE U == Emitted(s)
  <2>1. p \in Seq(U) /\ Len(p) = a /\ q \in Seq(U) /\ Len(q) = b
    BY <1>7
  <2> HIDE DEF U
  <2>2. /\ p \o q \in Seq(U) /\ Len(p \o q) = Len(p) + Len(q)
        /\ \A i \in 1..Len(p) : (p \o q)[i] = p[i]
    BY <2>1, ConcatIs
  <2>3. \A i \in 1..Len(q) : (p \o q)[Len(p) + i] = q[i]
    BY <2>1, ConcatIs
  <2>4. /\ m \in Seq(U) /\ Len(m) = Len(p) + Len(q)
        /\ \A i \in 1..Len(p) : m[i] = p[i]
        /\ \A i \in 1..Len(q) : m[Len(p) + i] = q[i]
    BY <2>2, <2>3, Zenon
  <2> QED
    BY <2>1, <2>4 DEF U
<1> HIDE DEF m
<1>9. Len(m) \in Nat
  BY <1>5, <1>6, <1>8
<1>10. \A i \in 1..Len(m) : IsEntry(m[i], C, A)
  <2>1. \A i \in 1..Len(m) : m[i] \in Emitted(s)
    BY <1>8
  <2> QED
    BY <1>2, <2>1
<1>11. \A i \in 1..Len(m) :
         \/ i \in 1..a /\ m[i] = p[i]
         \/ a < i /\ i - a \in 1..b /\ m[i] = q[i - a]
  <2> TAKE i \in 1..Len(m)
  <2>1. CASE i <= a
    BY <1>5, <1>6, <1>8, <2>1
  <2>2. CASE ~(i <= a)
    <3>1. a < i /\ i - a \in 1..b /\ a + (i - a) = i
      BY <1>5, <1>6, <1>8, <2>2
    <3> QED
      BY <1>8, <3>1
  <2> QED
    BY <2>1, <2>2
<1>12. ASSUME NEW e, IsEntry(e, C, A)
       PROVE  \E i \in 1..Len(m) : m[i] = e
  <2>1. CASE e \in F
    <3>1. PICK i \in 1..a : p[i] = e
      BY <1>5, <2>1
    <3>2. i \in 1..Len(m)
      BY <1>5, <1>6, <1>8
    <3> QED
      BY <1>8, <3>1, <3>2
  <2>2. CASE e \in G
    <3>1. PICK i \in 1..b : q[i] = e
      BY <1>6, <2>2
    <3>2. a + i \in 1..Len(m)
      BY <1>5, <1>6, <1>8
    <3> QED
      BY <1>8, <3>1, <3>2
  <2> QED
    BY <1>2, <1>3, <1>12, <2>1, <2>2
<1>13. ASSUME NEW i \in 1..Len(m), NEW j \in 1..Len(m), i < j
       PROVE  Comes(m[i], m[j])
  <2>1. CASE i \in 1..a /\ m[i] = p[i] /\ j \in 1..a /\ m[j] = p[j]
    <3>1. p[i] \in F /\ p[j] \in F /\ Precedes(p[i], p[j])
      BY <1>5, <1>13, <2>1
    <3> QED
      BY <1>3, <2>1, <3>1 DEF Comes
  <2>2. CASE /\ i \in 1..a /\ m[i] = p[i]
             /\ j - a \in 1..b /\ m[j] = q[j - a]
    <3>1. p[i] \in F /\ q[j - a] \in G
      BY <1>5, <1>6, <2>2
    <3> QED
      BY <1>3, <2>2, <3>1 DEF Comes
  <2>3. CASE /\ i - a \in 1..b /\ m[i] = q[i - a]
             /\ j - a \in 1..b /\ m[j] = q[j - a]
    <3>1. i - a < j - a
      BY <1>5, <1>8, <1>9, <1>13
    <3>2. q[i - a] \in G /\ q[j - a] \in G /\ Precedes(q[i - a], q[j - a])
      BY <1>6, <2>3, <3>1
    <3> QED
      BY <1>3, <2>3, <3>2 DEF Comes
  <2>4. ~(a < i /\ j \in 1..a)
    BY <1>5, <1>9, <1>13
  <2> QED
    BY <1>11, <2>1, <2>2, <2>3, <2>4
<1>14. IsMerge(m, C, A)
  BY <1>9, <1>10, <1>12, <1>13 DEF IsMerge
<1>15. m = MergedOf(s)
  BY DEF m, p, q, F, G, MergedOf
<1> QED
  BY <1>8, <1>14, <1>15 DEF A

(* What a client is told: the first of what is merged.                      *)
IsShown(r, C, A) ==
  /\ r \in Seq(Item)
  /\ Len(r) \in Nat /\ Len(r) <= request.cap
  /\ \E merged :
       /\ IsMerge(merged, C, A)
       /\ Len(r) = IF Len(merged) < request.cap THEN Len(merged) ELSE request.cap
       /\ \A i \in 1..Len(r) : i \in 1..Len(merged) /\ r[i] = merged[i].of

LEMMA MergeFairlyIs ==
  ASSUME RequestOK, NEW C, AreContributions(C), NEW order, IsRequested(order)
  PROVE  IsShown(MergeFairly(FlattenSeq(InTurn(C, order))), C, ToSet(order))
<1> DEFINE s == FlattenSeq(InTurn(C, order))
           merged == MergedOf(s)
           shown == [k \in DOMAIN merged |-> merged[k].of]
           r == Capped(shown)
<1>1. MergeFairly(s) = r
  BY DEF MergeFairly, MergedOf
<1>2. merged \in Seq(Emitted(s)) /\ IsMerge(merged, C, ToSet(order))
  BY MergedIs
<1>3. s \in Seq(Item)
  BY EmittedIs
<1>4. \A e \in Emitted(s) : e.of \in Item
  <2>1. \A i \in DOMAIN s : s[i] \in Item
    BY <1>3
  <2> QED
    BY <2>1 DEF Emitted
<1> HIDE DEF s, merged
<1>5. /\ shown \in Seq(Item) /\ Len(shown) = Len(merged)
      /\ \A k \in 1..Len(merged) : shown[k] = merged[k].of
  <2>1. DOMAIN merged = 1..Len(merged) /\ Len(merged) \in Nat
    BY <1>2
  <2>2. \A k \in 1..Len(merged) : merged[k].of \in Item
    BY <1>2, <1>4
  <2> HIDE DEF IsMerge
  <2> QED
    BY <2>1, <2>2
<1> HIDE DEF shown
<1>6. /\ r \in Seq(Item)
      /\ Len(r) = IF Len(merged) < request.cap THEN Len(merged) ELSE request.cap
      /\ Len(r) \in Nat /\ Len(r) <= request.cap
      /\ \A i \in 1..Len(r) : i \in 1..Len(merged) /\ r[i] = shown[i]
  BY <1>5, CappedIs
<1> HIDE DEF r
<1>7. IsShown(r, C, ToSet(order))
  BY <1>2, <1>5, <1>6 DEF IsShown
<1> QED
  BY <1>1, <1>7 DEF s

LEMMA OrderIsNaught ==
  ASSUME NEW C, AreContributions(C),
         NEW one, IsRequested(one), NEW other, IsRequested(other),
         ToSet(one) = ToSet(other)
  PROVE  MergeFairly(FlattenSeq(InTurn(C, one))) =
           MergeFairly(FlattenSeq(InTurn(C, other)))
<1> DEFINE s == FlattenSeq(InTurn(C, one))
           t == FlattenSeq(InTurn(C, other))
<1>1. Emitted(s) = Emitted(t)
  <2>1. /\ \A e \in Emitted(s) : IsEntry(e, C, ToSet(one))
        /\ \A e : IsEntry(e, C, ToSet(one)) => e \in Emitted(s)
    BY EmittedIs
  <2>2. /\ \A e \in Emitted(t) : IsEntry(e, C, ToSet(other))
        /\ \A e : IsEntry(e, C, ToSet(other)) => e \in Emitted(t)
    BY EmittedIs
  <2> HIDE DEF s, t
  <2> QED
    BY <2>1, <2>2
<1> HIDE DEF s, t
<1>2. Representatives(s) = Representatives(t) /\ Remainder(s) = Remainder(t)
  BY <1>1 DEF Representatives, Remainder
<1>3. MergeFairly(s) = MergeFairly(t)
  BY <1>2 DEF MergeFairly
<1> QED
  BY <1>3 DEF s, t

-----------------------------------------------------------------------------
(* The inductive invariant: a document is only read or asked about when all *)
(* records are there, and an answer stays what was merged.                  *)

TypeInv ==
  /\ RequestOK
  /\ record \in [Docs -> Records]
  /\ toc \in [Docs -> Tocs]
  /\ ReplyOK
  /\ answer.status \in {0, 200, 404, 409, 422, 503}

AdmitInv ==
  /\ \A d \in Docs : toc[d] # "unread" => \A e \in Asked : record[e] = "ready"
  /\ RefusedUnasked

MergeInv ==
  Routed => answer = RouteResponse(MergeFairly(Contributions(request.order)))

RouterInv == TypeInv /\ AdmitInv /\ MergeInv

LEMMA InitInv == Init => RouterInv
<1> SUFFICES ASSUME Init PROVE RouterInv
  OBVIOUS
<1>1. PICK T \in SUBSET Docs : request.order \in SetToSeqs(T)
  BY DEF Init, SetToAllKPermutations
<1>2. Cardinality(T) \in Nat
  BY RouterAssumption, FS_Subset, FS_CardinalityType
<1>3. /\ request.order \in [1..Cardinality(T) -> T]
      /\ \A i, j \in 1..Cardinality(T) :
           i # j => request.order[i] # request.order[j]
  BY <1>1 DEF SetToSeqs
<1>4. RequestOK
  <2>1. request.order \in Seq(Docs)
    BY <1>2, <1>3
  <2>2. \A i, j \in DOMAIN request.order :
          request.order[i] = request.order[j] => i = j
    BY <1>3
  <2>3. request.threshold \in Nat /\ request.cap \in Nat \ {0}
    BY RouterAssumption DEF Init
  <2> QED
    BY <2>1, <2>2, <2>3 DEF RequestOK
<1>5. ReplyOK
  <2> DEFINE U == [section : Sections \cup Fabricated, confidence : Levels]
  <2>1. <<>> \in [1..0 -> U] /\ 0 \in 0..MaxRanked
    BY RouterAssumption
  <2> HIDE DEF U
  <2>2. <<>> \in BoundedSeq(U, MaxRanked)
    BY <2>1 DEF BoundedSeq, SeqOf
  <2>3. <<>> \in Rankings
    BY <2>2 DEF Rankings, U
  <2> QED
    BY <2>3 DEF Init, ReplyOK
<1>6. TypeInv
  BY <1>4, <1>5 DEF Init, TypeInv, Records, Tocs, Unanswered
<1>7. AdmitInv
  BY DEF Init, AdmitInv, RefusedUnasked, Unanswered
<1>8. MergeInv
  BY DEF Init, MergeInv, Routed, Unanswered
<1> QED
  BY <1>6, <1>7, <1>8 DEF RouterInv

LEMMA ContributionStays ==
  ASSUME UNCHANGED <<request, toc, reply>>
  PROVE  \A d : Contribution(d)' = Contribution(d)
BY DEF Contribution, RouterOutput, Selected, ApplyThreshold, Validated, Items,
       SectionsOf, Capped

LEMMA MergeStays ==
  ASSUME UNCHANGED <<request, toc, reply>>
  PROVE  MergeFairly(Contributions(request.order))' =
           MergeFairly(Contributions(request.order))
<1>1. Contributions(request.order)' = Contributions(request.order)
  BY ContributionStays DEF Contributions
<1>2. \A s : MergeFairly(s)' = MergeFairly(s)
  BY DEF MergeFairly, Capped
<1> QED
  BY <1>1, <1>2

LEMMA NextTypeInv == ASSUME TypeInv, Next PROVE TypeInv'
<1>1. RequestOK'
  <2>1. request' = request
    BY DEF Next, Fetch, ReadToc, Complete, CompletionFails, Reject, RoutingFails,
           Answer
  <2> QED
    BY <2>1 DEF TypeInv, RequestOK
<1>2. CASE \E d \in Docs : Fetch(d)
  BY <1>1, <1>2 DEF Fetch, TypeInv, ReplyOK
<1>3. CASE \E d \in Docs : ReadToc(d)
  BY <1>1, <1>3 DEF ReadToc, TypeInv, ReplyOK, Tocs
<1>4. CASE \E d \in Docs : Complete(d)
  BY <1>1, <1>4 DEF Complete, TypeInv, ReplyOK, Tocs
<1>5. CASE \E d \in Docs : CompletionFails(d)
  BY <1>1, <1>5 DEF CompletionFails, TypeInv, ReplyOK, Tocs
<1>6. CASE Reject
  <2>1. answer'.status \in {404, 409, 422, 503}
    BY <1>6 DEF Reject, Refuse
  <2> QED
    BY <1>1, <1>6, <2>1 DEF Reject, TypeInv, ReplyOK
<1>7. CASE RoutingFails
  BY <1>1, <1>7 DEF RoutingFails, Refuse, TypeInv, ReplyOK
<1>8. CASE Answer
  <2>1. answer'.status = 200
    BY <1>8 DEF Answer, RouteResponse
  <2> QED
    BY <1>1, <1>8, <2>1 DEF Answer, TypeInv, ReplyOK
<1> QED
  BY <1>2, <1>3, <1>4, <1>5, <1>6, <1>7, <1>8 DEF Next

LEMMA UnansweredIs == /\ Unanswered.status = 0
                      /\ \A s : [status |-> s].status = s
BY DEF Unanswered

LEMMA NextAdmitInv ==
  ASSUME TypeInv, AdmitInv, Next
  PROVE  AdmitInv'
<1> DEFINE Untouched == \A d \in Docs : toc[d] = "unread"
<1>1. Asked' = Asked /\ Asked \subseteq Docs
  <2>1. request' = request
    BY DEF Next, Fetch, ReadToc, Complete, CompletionFails, Reject, RoutingFails,
           Answer
  <2>2. request.order \in Seq(Docs)
    BY DEF TypeInv, RequestOK
  <2>3. \A i \in DOMAIN request.order : request.order[i] \in Docs
    BY <2>2
  <2> QED
    BY <2>1, <2>3 DEF Asked, ToSet
<1>2. (\E e \in Asked : record[e] # "ready") => Untouched
  BY DEF AdmitInv
<1>3. CASE \E d \in Docs : Fetch(d)
  <2>1. PICK d \in Docs : Fetch(d)
    BY <1>3
  <2>2. Untouched /\ toc' = toc
    BY <1>2, <2>1 DEF Fetch
  <2> QED
    BY <2>2 DEF AdmitInv, RefusedUnasked
<1>4. CASE \E d \in Docs : ReadToc(d) \/ Complete(d) \/ CompletionFails(d)
  <2>1. /\ \A e \in Asked : record[e] = "ready"
        /\ record' = record /\ answer' = answer /\ answer.status = 0
    BY <1>4, UnansweredIs
       DEF ReadToc, Complete, CompletionFails, Routing, Admitted
  <2> QED
    BY <1>1, <2>1 DEF AdmitInv, RefusedUnasked
<1>5. CASE Reject
  <2>1. \E e \in Asked : record[e] # "ready"
    BY <1>5 DEF Reject, HasAny
  <2>2. Untouched /\ toc' = toc
    BY <1>2, <1>5, <2>1 DEF Reject
  <2> QED
    BY <2>2 DEF AdmitInv, RefusedUnasked
<1>6. CASE RoutingFails
  <2>1. answer'.status = 503 /\ record' = record /\ toc' = toc
    BY <1>6, UnansweredIs DEF RoutingFails, Refuse
  <2> QED
    BY <1>1, <2>1 DEF AdmitInv, RefusedUnasked
<1>7. CASE Answer
  <2>1. answer'.status = 200 /\ record' = record /\ toc' = toc
    BY <1>7 DEF Answer, RouteResponse
  <2> QED
    BY <1>1, <2>1 DEF AdmitInv, RefusedUnasked
<1> QED
  BY <1>3, <1>4, <1>5, <1>6, <1>7 DEF Next

LEMMA NextMergeInv ==
  ASSUME MergeInv, Next
  PROVE  MergeInv'
<1>1. CASE \E d \in Docs : Fetch(d)
  <2>1. UNCHANGED <<request, toc, reply>> /\ answer' = answer
    BY <1>1 DEF Fetch
  <2>2. MergeFairly(Contributions(request.order))' =
          MergeFairly(Contributions(request.order))
    BY <2>1, MergeStays
  <2> QED
    BY <2>1, <2>2 DEF MergeInv, Routed, RouteResponse
<1>2. CASE \E d \in Docs : ReadToc(d) \/ Complete(d) \/ CompletionFails(d)
  <2>1. answer' = answer /\ answer.status = 0
    BY <1>2, UnansweredIs DEF ReadToc, Complete, CompletionFails, Routing
  <2> QED
    BY <2>1 DEF MergeInv, Routed
<1>3. CASE Reject
  <2>1. answer'.status \in {404, 409, 422, 503}
    BY <1>3 DEF Reject, Refuse
  <2> QED
    BY <2>1 DEF MergeInv, Routed
<1>4. CASE RoutingFails
  <2>1. answer'.status = 503
    BY <1>4, UnansweredIs DEF RoutingFails, Refuse
  <2> QED
    BY <2>1 DEF MergeInv, Routed
<1>5. CASE Answer
  <2>1. /\ UNCHANGED <<request, toc, reply>>
        /\ answer' = RouteResponse(MergeFairly(Contributions(request.order)))
    BY <1>5 DEF Answer
  <2>2. MergeFairly(Contributions(request.order))' =
          MergeFairly(Contributions(request.order))
    BY <2>1, MergeStays
  <2> QED
    BY <2>1, <2>2 DEF MergeInv, RouteResponse
<1> QED
  BY <1>1, <1>2, <1>3, <1>4, <1>5 DEF Next

LEMMA NextInv == RouterInv /\ [Next]_vars => RouterInv'
<1> SUFFICES ASSUME RouterInv, [Next]_vars PROVE RouterInv'
  OBVIOUS
<1>1. TypeInv /\ AdmitInv /\ MergeInv
  BY DEF RouterInv
<1>2. CASE Next
  BY <1>1, <1>2, NextTypeInv, NextAdmitInv, NextMergeInv DEF RouterInv
<1>3. CASE UNCHANGED vars
  <2>1. TypeInv' /\ AdmitInv'
    BY <1>1, <1>3
       DEF vars, TypeInv, RequestOK, ReplyOK, AdmitInv, RefusedUnasked, Asked
  <2>2. MergeFairly(Contributions(request.order))' =
          MergeFairly(Contributions(request.order))
    BY <1>3, MergeStays DEF vars
  <2>3. MergeInv'
    BY <1>1, <1>3, <2>2 DEF vars, MergeInv, Routed, RouteResponse
  <2> QED
    BY <2>1, <2>3 DEF RouterInv
<1> QED
  BY <1>2, <1>3

LEMMA SpecInv == Spec => []RouterInv
BY InitInv, NextInv, PTL DEF Spec

-----------------------------------------------------------------------------
(* What an answer is made of.                                               *)

Contributing == [d \in Docs |-> Contribution(d)]

LEMMA ContributingAre ==
  ASSUME TypeInv
  PROVE  /\ AreContributions(Contributing)
         /\ \A d \in Docs : Contributed(Contributing[d], d)
<1>1. \A d \in Docs : Contributed(Contributing[d], d)
  BY ContributionIs DEF TypeInv, Contributing
<1>2. /\ \A d \in Docs : Contributing[d] \in Seq(Item)
      /\ \A d \in Docs : \A i, j \in 1..Len(Contributing[d]) :
           i < j => Above(Contributing[d][i], Contributing[d][j])
      /\ \A d \in Docs : \A i \in 1..Len(Contributing[d]) :
           Contributing[d][i] \in Band(d)
  BY <1>1 DEF Contributed
<1>3. Contributing \in [Docs -> Seq(Item)]
  BY <1>2 DEF Contributing
<1>4. \A d \in Docs : \A x \in Band(d) : x.doc = d
  BY EligibleAre DEF TypeInv
<1> QED
  BY <1>1, <1>2, <1>3, <1>4 DEF AreContributions

LEMMA RequestIs ==
  ASSUME TypeInv
  PROVE  IsRequested(request.order) /\ Asked \subseteq Docs
<1>1. request.order \in Seq(Docs)
  BY DEF TypeInv, RequestOK
<1>2. DOMAIN request.order = 1..Len(request.order)
  BY <1>1
<1>3. \A i \in DOMAIN request.order : request.order[i] \in Docs
  BY <1>1
<1> QED
  BY <1>1, <1>2, <1>3 DEF TypeInv, RequestOK, IsRequested, Asked, ToSet

LEMMA ContributionsAre ==
  ASSUME NEW order, IsRequested(order)
  PROVE  Contributions(order) = FlattenSeq(InTurn(Contributing, order))
<1>1. order \in Seq(Docs)
  BY DEF IsRequested
<1>2. \A i \in DOMAIN order : order[i] \in Docs
  BY <1>1
<1>3. [i \in DOMAIN order |-> Contribution(order[i])] = InTurn(Contributing, order)
  BY <1>2 DEF InTurn, Contributing
<1> QED
  BY <1>3 DEF Contributions

LEMMA AnswerIs ==
  ASSUME RouterInv, Routed
  PROVE  /\ answer.sections = MergeFairly(Contributions(request.order))
         /\ answer.fallback <=> answer.sections = <<>>
         /\ IsShown(answer.sections, Contributing, Asked)
<1> DEFINE M == MergeFairly(Contributions(request.order))
<1>1. answer = RouteResponse(M)
  BY DEF RouterInv, MergeInv
<1>2. IsShown(MergeFairly(FlattenSeq(InTurn(Contributing, request.order))),
              Contributing, ToSet(request.order))
  BY ContributingAre, RequestIs, MergeFairlyIs DEF RouterInv, TypeInv
<1>3. Contributions(request.order) = FlattenSeq(InTurn(Contributing, request.order))
  BY RequestIs, ContributionsAre DEF RouterInv
<1>4. IsShown(M, Contributing, Asked)
  BY <1>2, <1>3, Zenon DEF Asked
<1> HIDE DEF M
<1>5. answer.sections = M
  BY <1>1 DEF RouteResponse
<1>6. answer.fallback <=> M = <<>>
  BY <1>1 DEF RouteResponse
<1>7. /\ answer.sections = M
      /\ answer.fallback <=> answer.sections = <<>>
      /\ IsShown(answer.sections, Contributing, Asked)
  BY <1>4, <1>5, <1>6, Zenon
<1> QED
  BY <1>7, Zenon DEF M

LEMMA ComesIsStrict ==
  ASSUME NEW C, AreContributions(C), NEW A \in SUBSET Docs,
         NEW e, IsEntry(e, C, A), NEW f, IsEntry(f, C, A), Comes(e, f)
  PROVE  ~Comes(f, e)
<1>1. ASSUME NEW x, IsEntry(x, C, A)
      PROVE  x.of.confidence \in Nat /\ x.of.doc \in Nat /\ x.index \in Nat
  <2>1. PICK d \in A : \E m \in 1..Len(C[d]) : x = Entry(C, d, m)
    BY <1>1 DEF IsEntry
  <2>2. PICK m \in 1..Len(C[d]) : x = Entry(C, d, m)
    BY <2>1
  <2> QED
    BY <2>2, EntriesAre
<1>2. /\ e.of.confidence \in Nat /\ e.of.doc \in Nat /\ e.index \in Nat
      /\ f.of.confidence \in Nat /\ f.of.doc \in Nat /\ f.index \in Nat
  BY <1>1
<1> QED
  BY <1>2 DEF Comes, Precedes

(* Places in what is merged are in the order of their entries.              *)
LEMMA MergedOnce ==
  ASSUME NEW C, AreContributions(C), NEW A \in SUBSET Docs,
         NEW merged, IsMerge(merged, C, A),
         NEW i \in 1..Len(merged), NEW j \in 1..Len(merged),
         Comes(merged[i], merged[j])
  PROVE  i < j
<1>1. /\ Len(merged) \in Nat
      /\ IsEntry(merged[i], C, A) /\ IsEntry(merged[j], C, A)
      /\ j < i => Comes(merged[j], merged[i])
  BY DEF IsMerge
<1>2. ~Comes(merged[j], merged[i])
  BY <1>1, ComesIsStrict
<1>3. i # j
  BY <1>2
<1> QED
  BY <1>1, <1>2, <1>3

(* What is shown at a place is an item that its document contributed.       *)
LEMMA ShownAt ==
  ASSUME NEW C, AreContributions(C), NEW A \in SUBSET Docs,
         NEW merged, IsMerge(merged, C, A), NEW i \in 1..Len(merged)
  PROVE  LET d == merged[i].of.doc
         IN  /\ d \in A
             /\ \E m \in 1..Len(C[d]) :
                  merged[i] = Entry(C, d, m) /\ merged[i].of = C[d][m]
<1>1. IsEntry(merged[i], C, A)
  BY DEF IsMerge
<1>2. PICK d \in A : \E m \in 1..Len(C[d]) : merged[i] = Entry(C, d, m)
  BY <1>1 DEF IsEntry
<1>3. PICK m \in 1..Len(C[d]) : merged[i] = Entry(C, d, m)
  BY <1>2
<1>4. merged[i].of = C[d][m] /\ merged[i].of.doc = d
  BY <1>3, EntriesAre
<1> QED
  BY <1>3, <1>4

-----------------------------------------------------------------------------
(* The theorems.                                                            *)

LEMMA TypeIs == RouterInv => TypeOK
<1> SUFFICES ASSUME RouterInv PROVE TypeOK
  OBVIOUS
<1>1. /\ record \in [Docs -> Records]
      /\ toc \in [Docs -> Tocs]
      /\ reply \in [Docs -> Rankings]
      /\ answer.status \in {0, 200, 404, 409, 422, 503}
      /\ RefusedUnasked
  BY DEF RouterInv, TypeInv, ReplyOK, AdmitInv
<1>2. ASSUME Routed
      PROVE  Len(answer.sections) \in 0..request.cap
  <2>1. Len(answer.sections) \in Nat /\ Len(answer.sections) <= request.cap
    BY <1>2, AnswerIs DEF IsShown
  <2>2. request.cap \in Nat
    BY DEF RouterInv, TypeInv, RequestOK
  <2> QED
    BY <2>1, <2>2
<1> QED
  BY <1>1, <1>2 DEF TypeOK

(* State has its types, an answer keeps to the cap, and no document is read *)
(* or asked about for a request that is refused because of another.         *)
THEOREM RouterTypeCorrect == Spec => []TypeOK
BY SpecInv, TypeIs, PTL

LEMMA FallbackIs == RouterInv => FallbackIsHonest
<1> SUFFICES ASSUME RouterInv, Routed
             PROVE  answer.fallback <=> \A d \in Asked : Eligible(d) = {}
  BY DEF FallbackIsHonest
<1> DEFINE C == Contributing
           r == answer.sections
<1>1. AreContributions(C) /\ \A d \in Docs : Contributed(C[d], d)
  BY ContributingAre DEF RouterInv
<1>2. Asked \in SUBSET Docs
  BY RequestIs DEF RouterInv
<1>3. IsShown(r, C, Asked) /\ (answer.fallback <=> r = <<>>)
  BY AnswerIs
<1>4. request.cap \in Nat \ {0}
  BY DEF RouterInv, TypeInv, RequestOK
<1> HIDE DEF C, r
<1>5. PICK merged :
        /\ IsMerge(merged, C, Asked)
        /\ Len(r) = IF Len(merged) < request.cap THEN Len(merged) ELSE request.cap
  BY <1>3 DEF IsShown
<1>6. Len(merged) \in Nat /\ r \in Seq(Item)
  BY <1>3, <1>5 DEF IsShown, IsMerge
<1>7. r = <<>> <=> Len(merged) = 0
  <2>1. r = <<>> <=> Len(r) = 0
    BY <1>6
  <2> QED
    BY <1>4, <1>5, <1>6, <2>1
<1>8. ASSUME Len(merged) = 0, NEW d \in Asked
      PROVE  Eligible(d) = {}
  <2>1. \A e : ~IsEntry(e, C, Asked)
    BY <1>5, <1>8 DEF IsMerge
  <2>2. C[d] \in Seq(Item) /\ (C[d] = <<>> <=> Eligible(d) = {})
    BY <1>1, <1>2 DEF Contributed
  <2>3. ASSUME C[d] # <<>> PROVE FALSE
    <3>1. 1 \in 1..Len(C[d])
      BY <2>2, <2>3
    <3>2. IsEntry(Entry(C, d, 1), C, Asked)
      BY <3>1 DEF IsEntry
    <3> QED
      BY <2>1, <3>2
  <2> QED
    BY <2>2, <2>3
<1>9. ASSUME \A d \in Asked : Eligible(d) = {}
      PROVE  Len(merged) = 0
  <2>1. SUFFICES ASSUME Len(merged) # 0 PROVE FALSE
    OBVIOUS
  <2>2. 1 \in 1..Len(merged)
    BY <1>6, <2>1
  <2>3. PICK d \in Asked : \E m \in 1..Len(C[d]) : merged[1].of = C[d][m]
    <3>1. LET d == merged[1].of.doc
          IN  /\ d \in Asked
              /\ \E m \in 1..Len(C[d]) :
                   merged[1] = Entry(C, d, m) /\ merged[1].of = C[d][m]
      BY <1>1, <1>2, <1>5, <2>2, ShownAt
    <3> QED
      BY <3>1
  <2>4. C[d] = <<>>
    BY <1>1, <1>2, <1>9 DEF Contributed
  <2> QED
    BY <2>3, <2>4
<1> QED
  BY <1>3, <1>7, <1>8, <1>9

(* The full document is searched if, and only if, no reply that could be    *)
(* used ranks a section of its document above the floor.                    *)
THEOREM FallbackHonest == Spec => []FallbackIsHonest
BY SpecInv, FallbackIs, PTL

LEMMA SelectionIs == RouterInv => SelectionFollowsReply
<1> SUFFICES ASSUME RouterInv, Routed,
                    NEW d \in Asked, NEW j \in PlacesOf(d), NEW x \in Eligible(d)
             PROVE  /\ x.confidence >= request.threshold =>
                         answer.sections[j].confidence >= request.threshold
                    /\ Above(x, answer.sections[j]) =>
                         \E i \in 1..(j - 1) : answer.sections[i] = x
  BY DEF SelectionFollowsReply, BandsDoNotMix, ReplyOrderKept, Above
<1> DEFINE C == Contributing
           r == answer.sections
<1>1. AreContributions(C) /\ Contributed(C[d], d)
  BY ContributingAre, RequestIs DEF RouterInv
<1>2. Asked \in SUBSET Docs /\ d \in Docs
  BY RequestIs DEF RouterInv
<1>3. IsShown(r, C, Asked)
  BY AnswerIs
<1>4. r \in Seq(Item) /\ j \in DOMAIN r /\ r[j].doc = d
  BY <1>3 DEF IsShown, PlacesOf
<1> HIDE DEF C, r
<1>5. Len(r) \in Nat /\ j \in 1..Len(r)
  BY <1>4
<1>6. PICK merged :
        /\ IsMerge(merged, C, Asked)
        /\ \A i \in 1..Len(r) : i \in 1..Len(merged) /\ r[i] = merged[i].of
  BY <1>3 DEF IsShown
<1>7. j \in 1..Len(merged) /\ merged[j].of = r[j] /\ merged[j].of.doc = d
  BY <1>4, <1>5, <1>6
<1>8. PICK m \in 1..Len(C[d]) : merged[j] = Entry(C, d, m) /\ r[j] = C[d][m]
  BY <1>1, <1>2, <1>6, <1>7, ShownAt
<1>9. ASSUME x.confidence >= request.threshold
      PROVE  r[j].confidence >= request.threshold
  <2>1. x \in High(d)
    BY <1>9 DEF High
  <2>2. r[j] \in Band(d)
    BY <1>1, <1>8 DEF Contributed
  <2> QED
    BY <2>1, <2>2 DEF Band, High
<1>10. ASSUME Above(x, r[j])
       PROVE  \E i \in 1..(j - 1) : r[i] = x
  <2>1. PICK k \in 1..(m - 1) : C[d][k] = x
    BY <1>1, <1>8, <1>10 DEF Contributed
  <2>2. Len(C[d]) \in Nat /\ k \in 1..Len(C[d]) /\ k < m
    <3>1. Len(C[d]) \in Nat
      BY <1>1, <1>2, ContributedAre
    <3> QED
      BY <3>1
  <2> DEFINE e == Entry(C, d, k)
  <2>3. /\ e.of = x /\ e.index = k - 1 /\ e.of.doc = d
        /\ e.of.confidence \in Nat
    BY <1>1, <1>2, <2>1, <2>2, EntriesAre
  <2>4. /\ merged[j].of = r[j] /\ merged[j].index = m - 1
        /\ merged[j].of.doc = d /\ merged[j].of.confidence \in Nat
    BY <1>1, <1>2, <1>7, <1>8, EntriesAre
  <2>5. IsEntry(e, C, Asked)
    BY <2>2 DEF IsEntry
  <2> HIDE DEF e
  <2>6. Comes(e, merged[j])
    <3>1. e.index < merged[j].index /\ merged[j].index # 0
      BY <2>2, <2>3, <2>4
    <3>2. e.of.confidence > merged[j].of.confidence
            \/ e.of.confidence = merged[j].of.confidence
      BY <1>10, <2>3, <2>4 DEF Above
    <3>3. Precedes(e, merged[j])
      BY <2>3, <2>4, <3>1, <3>2 DEF Precedes
    <3> QED
      BY <3>1, <3>3 DEF Comes
  <2>7. PICK i \in 1..Len(merged) : merged[i] = e
    BY <1>6, <2>5 DEF IsMerge
  <2>8. i < j
    BY <1>1, <1>2, <1>6, <1>7, <2>6, <2>7, MergedOnce
  <2>9. i \in 1..(j - 1) /\ i \in 1..Len(r)
    BY <1>5, <2>8
  <2>10. r[i] = x
    BY <1>6, <2>3, <2>7, <2>9
  <2> QED
    BY <2>9, <2>10
<1> QED
  BY <1>9, <1>10 DEF r

(* What is shown of a document follows the model's ranking of it: its       *)
(* bands are not mixed, and nothing is left out or put later in favour of a *)
(* section that is ranked lower.                                            *)
THEOREM SelectionFollows == Spec => []SelectionFollowsReply
BY SpecInv, SelectionIs, PTL

LEMMA EveryoneHeard == RouterInv => EveryDocumentHeard
<1> SUFFICES ASSUME RouterInv, Routed, NEW d \in Asked, NEW e \in Asked,
                    Eligible(d) # {}, PlacesOf(d) = {},
                    NEW i \in PlacesOf(e), NEW j \in PlacesOf(e)
             PROVE  i = j
  BY DEF EveryDocumentHeard
<1> DEFINE C == Contributing
           r == answer.sections
<1>1. AreContributions(C) /\ Contributed(C[d], d)
  BY ContributingAre, RequestIs DEF RouterInv
<1>2. Asked \in SUBSET Docs
  BY RequestIs DEF RouterInv
<1>3. IsShown(r, C, Asked)
  BY AnswerIs
<1>4. /\ r \in Seq(Item)
      /\ i \in DOMAIN r /\ r[i].doc = e
      /\ j \in DOMAIN r /\ r[j].doc = e
      /\ \A k \in DOMAIN r : r[k].doc # d
  BY <1>3 DEF IsShown, PlacesOf
<1> HIDE DEF C, r
<1>5. /\ Len(r) \in Nat /\ DOMAIN r = 1..Len(r)
      /\ i \in 1..Len(r) /\ j \in 1..Len(r)
  BY <1>4
<1>6. PICK merged :
        /\ IsMerge(merged, C, Asked)
        /\ \A k \in 1..Len(r) : k \in 1..Len(merged) /\ r[k] = merged[k].of
  BY <1>3 DEF IsShown
<1>7. PICK p \in 1..Len(merged) : merged[p] = Entry(C, d, 1)
  <2>1. C[d] \in Seq(Item) /\ C[d] # <<>>
    BY <1>1 DEF Contributed
  <2>2. 1 \in 1..Len(C[d])
    BY <2>1
  <2>3. IsEntry(Entry(C, d, 1), C, Asked)
    BY <2>2 DEF IsEntry
  <2> QED
    BY <1>6, <2>3 DEF IsMerge
<1>8. merged[p].index = 0 /\ merged[p].of.doc = d
  <2>1. C[d] \in Seq(Item) /\ C[d] # <<>>
    BY <1>1 DEF Contributed
  <2>2. 1 \in 1..Len(C[d])
    BY <2>1
  <2> QED
    BY <1>1, <1>2, <1>7, <2>2, EntriesAre
<1>9. Len(r) < p
  <2>1. p \notin 1..Len(r)
    BY <1>4, <1>5, <1>6, <1>8
  <2>2. Len(merged) \in Nat
    BY <1>6 DEF IsMerge
  <2> QED
    BY <1>5, <2>1, <2>2
<1>10. ASSUME NEW k \in 1..Len(r), r[k].doc = e
       PROVE  k \in 1..Len(merged) /\ merged[k] = Entry(C, e, 1)
  <2>1. k \in 1..Len(merged) /\ merged[k].of.doc = e
    BY <1>6, <1>10
  <2>2. PICK m \in 1..Len(C[e]) : merged[k] = Entry(C, e, m)
    BY <1>1, <1>2, <1>6, <2>1, ShownAt
  <2>3. k < p
    BY <1>5, <1>9
  <2>4. Comes(merged[k], merged[p])
    BY <1>6, <2>1, <2>3 DEF IsMerge
  <2>5. merged[k].index = 0
    BY <1>8, <2>4 DEF Comes
  <2>6. Len(C[e]) \in Nat /\ merged[k].index = m - 1
    BY <1>1, <1>2, <2>2, EntriesAre, ContributedAre
  <2>7. m = 1
    BY <2>5, <2>6
  <2> QED
    BY <2>1, <2>2, <2>7
<1>11. /\ i \in 1..Len(merged) /\ j \in 1..Len(merged)
       /\ merged[i] = merged[j]
  BY <1>4, <1>5, <1>10
<1>12. ASSUME NEW k \in 1..Len(merged), NEW l \in 1..Len(merged),
              merged[k] = merged[l]
       PROVE  ~(k < l)
  <2>1. IsEntry(merged[k], C, Asked) /\ IsEntry(merged[l], C, Asked)
    BY <1>6 DEF IsMerge
  <2>2. ~Comes(merged[k], merged[l])
    BY <1>1, <1>2, <1>12, <2>1, ComesIsStrict
  <2> QED
    BY <1>6, <2>2 DEF IsMerge
<1> QED
  BY <1>5, <1>11, <1>12

LEMMA OrdersAre ==
  ASSUME RouterInv, NEW order \in SetToSeqs(Asked)
  PROVE  IsRequested(order) /\ ToSet(order) = Asked
<1> DEFINE n == Cardinality(Asked)
<1>1. Asked \subseteq Docs /\ IsFiniteSet(Asked) /\ n \in Nat
  <2>1. Asked \in SUBSET Docs
    BY RequestIs DEF RouterInv
  <2>2. IsFiniteSet(Asked)
    BY <2>1, RouterAssumption, FS_Subset
  <2> QED
    BY <2>1, <2>2, FS_CardinalityType
<1>2. /\ order \in [1..n -> Asked]
      /\ \A i, j \in 1..n : i # j => order[i] # order[j]
  BY DEF SetToSeqs
<1> HIDE DEF n
<1>3. order \in Seq(Docs) /\ Len(order) = n /\ DOMAIN order = 1..n
  BY <1>1, <1>2
<1>4. IsRequested(order)
  BY <1>2, <1>3 DEF IsRequested
<1>5. order \in Surjection(1..n, Asked)
  <2>1. order \in Injection(1..n, Asked)
    BY <1>2 DEF Injection, IsInjective
  <2>2. Cardinality(1..n) = n
    BY <1>1, FS_Interval
  <2> QED
    BY <1>1, <2>1, <2>2, FS_Injection DEF n
<1>6. ToSet(order) = Asked
  <2>1. \A d \in Asked : \E i \in 1..n : order[i] = d
    BY <1>5 DEF Surjection
  <2> QED
    BY <1>2, <1>3, <2>1 DEF ToSet
<1> QED
  BY <1>4, <1>6

LEMMA OrderIsNone == RouterInv => OrderDoesNotMatter
<1> SUFFICES ASSUME RouterInv, Routed, NEW order \in SetToSeqs(Asked)
             PROVE  MergeFairly(Contributions(order)) = answer.sections
  BY DEF OrderDoesNotMatter
<1>1. IsRequested(order) /\ IsRequested(request.order)
  BY OrdersAre, RequestIs DEF RouterInv
<1>2. ToSet(order) = ToSet(request.order)
  BY OrdersAre DEF Asked
<1>3. AreContributions(Contributing)
  BY ContributingAre DEF RouterInv
<1>4. MergeFairly(FlattenSeq(InTurn(Contributing, order))) =
        MergeFairly(FlattenSeq(InTurn(Contributing, request.order)))
  BY <1>1, <1>2, <1>3, OrderIsNaught
<1>5. /\ Contributions(order) = FlattenSeq(InTurn(Contributing, order))
      /\ Contributions(request.order) =
           FlattenSeq(InTurn(Contributing, request.order))
  BY <1>1, ContributionsAre
<1>6. answer.sections = MergeFairly(Contributions(request.order))
  BY AnswerIs
<1> QED
  BY <1>4, <1>5, <1>6, Zenon

(* No document gets a second place in an answer before every document that  *)
(* has something to show got one, and the order in which they are named     *)
(* does not change what is answered.                                        *)
THEOREM MergeFair == Spec => []MergeIsFair
<1>1. RouterInv => MergeIsFair
  BY EveryoneHeard, OrderIsNone DEF MergeIsFair
<1> QED
  BY <1>1, SpecInv, PTL

=============================================================================
