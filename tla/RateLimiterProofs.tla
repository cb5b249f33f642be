-------------------------- MODULE RateLimiterProofs --------------------------
(***************************************************************************)
(* What the limiter keeps to, for any numbers of buckets and threads, any   *)
(* limit, window, delay and cap: its table is bounded, however calls race,  *)
(* no bucket gets more than its budget into the time of a window, and none  *)
(* is refused that had not its limit.                                       *)
(***************************************************************************)
EXTENDS RateLimiter, SequenceLemmas

WindowType == [start: Times, count: Hits]

LEMMA TrackedIsFinite == IsFiniteSet(Tracked) /\ Tracked \subseteq Buckets
BY LimiterAssumption, FS_Subset DEF Tracked

LEMMA WindowIsTracked == Untracked \notin WindowType
<1>1. WindowType \subseteq [start: Nat, count: Nat]
  BY LimiterAssumption DEF WindowType, Times, Hits
<1> QED
  BY <1>1, LimiterAssumption

LEMMA BudgetIsNumber == Budget \in Nat
BY LimiterAssumption DEF Budget

(* The window in which a hit is counted starts no later than now.           *)
LEMMA CountedWindow ==
  ASSUME TypeOK, NEW h \in Threads, call[h] # Idle, NEW removed
  PROVE  LET w == Current(call[h].bucket, call[h].now, removed)
         IN /\ w \in WindowType
            /\ [w EXCEPT !.count = CountHit(w.count)] \in WindowType
            /\ call[h].now <= clock => w.start <= clock
<1> DEFINE b == call[h].bucket
           w == Current(b, call[h].now, removed)
<1>1. b \in Buckets /\ call[h].now \in Times
  BY DEF TypeOK
<1>2. windows[b] # Untracked => windows[b] \in WindowType /\ windows[b].start <= clock
  BY <1>1 DEF TypeOK, WindowType, Tracked
<1>3. 0 \in Hits
  BY LimiterAssumption DEF Hits
<1>4. w \in WindowType
  BY <1>1, <1>2, <1>3 DEF Current, WindowType
<1>5. CountHit(w.count) \in Hits
  BY <1>4, LimiterAssumption DEF WindowType, Hits, CountHit
<1>6. call[h].now <= clock => w.start <= clock
  BY <1>2 DEF Current
<1> QED
  BY <1>4, <1>5, <1>6 DEF WindowType

(* Room is made before a bucket is added.                                   *)
LEMMA RoomIsMade ==
  ASSUME TypeOK, NEW now \in Times, NEW removed \in Removable(now),
         NEW b \in Buckets
  PROVE  Cardinality((Tracked \ removed) \cup {b}) <= MaxEntries + 1
<1> DEFINE n == Cardinality(Tracked)
           left == Tracked \ removed
<1>1. n \in Nat /\ n <= MaxEntries + 1 /\ MaxEntries \in Nat \ {0}
  BY TrackedIsFinite, FS_CardinalityType, LimiterAssumption DEF TypeOK
<1>2. IsFiniteSet(left) /\ Cardinality(left) \in Nat
  BY TrackedIsFinite, FS_Difference, FS_CardinalityType
<1>3. Cardinality(left) <= MaxEntries
  <2>1. CASE Overfull
    <3>1. /\ removed \subseteq Tracked
          /\ Cardinality(removed) = n \div 2
      BY <2>1 DEF Removable, OlderHalf
    <3>2. Cardinality(left) = n - Cardinality(removed)
      <4>1. Tracked \cap removed = removed
        BY <3>1
      <4>2. Cardinality(left) = Cardinality(Tracked) - Cardinality(Tracked \cap removed)
        BY TrackedIsFinite, FS_Difference
      <4> QED
        BY <4>1, <4>2
    <3>3. n >= 2
      BY <1>1, <2>1 DEF Overfull
    <3>4. n \div 2 >= 1
      BY <1>1, <3>3
    <3> HIDE DEF n
    <3> QED
      BY <1>1, <3>1, <3>2, <3>4
  <2>2. CASE ~Overfull
    <3>1. n <= MaxEntries
      BY <1>1, <2>2 DEF Overfull
    <3>2. Cardinality(left) <= n
      BY TrackedIsFinite, FS_Subset
    <3> QED
      BY <1>1, <1>2, <3>1, <3>2
  <2> QED
    BY <2>1, <2>2
<1>4. Cardinality(left \cup {b}) <= Cardinality(left) + 1
  <2> HIDE DEF left
  <2>1. Cardinality(left \cup {b}) =
          IF b \in left THEN Cardinality(left) ELSE Cardinality(left) + 1
    BY <1>2, FS_AddElement
  <2> QED
    BY <1>2, <2>1
<1>5. Cardinality(left \cup {b}) \in Nat
  BY <1>2, FS_AddElement, FS_CardinalityType
<1> HIDE DEF left
<1> SUFFICES Cardinality(left \cup {b}) <= MaxEntries + 1
  BY DEF left
<1> QED
  BY <1>1, <1>2, <1>3, <1>4, <1>5

LEMMA CountTypeOK ==
  ASSUME TypeOK, \A g \in Threads : call[g] # Idle => call[g].now <= clock,
         NEW h \in Threads, Count(h)
  PROVE  TypeOK'
<1> DEFINE b == call[h].bucket
<1>1. PICK removed \in Removable(call[h].now) :
        LET window == Current(b, call[h].now, removed)
            hits == CountHit(window.count)
        IN /\ windows' =
                [c \in Buckets |->
                   IF c = b THEN [window EXCEPT !.count = hits]
                   ELSE IF c \in removed THEN Untracked
                   ELSE windows[c]]
           /\ admitted' =
                IF b = Watched /\ hits <= Limit
                THEN [admitted EXCEPT ![0] = IF @ <= Budget THEN @ + 1 ELSE @]
                ELSE admitted
           /\ forgotten' =
                (forgotten \/ /\ Watched \in removed
                              /\ clock < Passed(windows[Watched]))
  BY DEF Count
<1> DEFINE window == Current(b, call[h].now, removed)
           new == [window EXCEPT !.count = CountHit(window.count)]
<1>2. /\ call[h] # Idle /\ b \in Buckets /\ call[h].now \in Times
      /\ call[h].now <= clock
      /\ checks' = (checks + 1) % Interval
      /\ call' = [call EXCEPT ![h] = Idle]
      /\ clock' = clock
  BY DEF Count, TypeOK
<1>3. window \in WindowType /\ new \in WindowType /\ window.start <= clock
  BY <1>2, CountedWindow
<1>4. windows' = [c \in Buckets |-> IF c = b THEN new
                                    ELSE IF c \in removed THEN Untracked
                                    ELSE windows[c]]
  BY <1>1
<1>5. new.start = window.start
  BY <1>3 DEF WindowType
<1> HIDE DEF window, new
<1>6. windows' \in [Buckets -> {Untracked} \cup WindowType]
  BY <1>3, <1>4 DEF TypeOK, WindowType
<1>7. \A c \in Tracked' : windows'[c].start <= clock'
  BY <1>2, <1>3, <1>4, <1>5 DEF TypeOK, Tracked
<1>8. Tracked' = (Tracked \ removed) \cup {b}
  BY <1>2, <1>3, <1>4, WindowIsTracked DEF Tracked
<1>9. Cardinality(Tracked') <= MaxEntries + 1
  BY <1>1, <1>2, <1>8, RoomIsMade
<1>10. checks' \in 0..(Interval - 1)
  BY <1>2, LimiterAssumption DEF TypeOK
<1>11. admitted' \in [Ages -> 0..(Budget + 1)]
  <2>1. 0 \in Ages /\ admitted[0] \in 0..(Budget + 1)
    BY LimiterAssumption DEF TypeOK, Ages
  <2>2. (IF admitted[0] <= Budget THEN admitted[0] + 1 ELSE admitted[0])
          \in 0..(Budget + 1)
    BY <2>1, BudgetIsNumber
  <2> QED
    BY <1>1, <2>1, <2>2 DEF TypeOK
<1>12. forgotten' \in BOOLEAN
  BY <1>1 DEF TypeOK
<1> QED
  BY <1>2, <1>6, <1>7, <1>9, <1>10, <1>11, <1>12 DEF TypeOK, WindowType

(* A call counts with a time that has been.                                 *)
PastInv == \A h \in Threads : call[h] # Idle => call[h].now <= clock

LEMMA InitTypeOK == Init => TypeOK /\ PastInv
<1> SUFFICES ASSUME Init PROVE TypeOK /\ PastInv
  OBVIOUS
<1>1. Tracked = {}
  BY DEF Init, Tracked
<1>2. Cardinality(Tracked) = 0
  BY <1>1, FS_EmptySet
<1>3. PastInv
  BY DEF Init, PastInv
<1>4. 0 \in Times /\ 0 \in 0..(Interval - 1) /\ 0 <= MaxEntries + 1
  BY LimiterAssumption DEF Times
<1>5. admitted \in [Ages -> 0..(Budget + 1)]
  BY BudgetIsNumber DEF Init
<1>6. \A b \in Tracked : windows[b].start <= clock
  BY <1>1
<1>7. /\ windows \in [Buckets -> {Untracked} \cup WindowType]
      /\ call \in [Threads -> {Idle} \cup
                    [at: {"lock"}, bucket: Buckets, now: Times]]
      /\ clock = 0 /\ checks = 0 /\ forgotten \in BOOLEAN
  BY DEF Init
<1> QED
  BY <1>2, <1>3, <1>4, <1>5, <1>6, <1>7 DEF TypeOK, WindowType

LEMMA NextTypeOK == TypeOK /\ PastInv /\ [Next]_vars => TypeOK' /\ PastInv'
<1> SUFFICES ASSUME TypeOK, PastInv, [Next]_vars PROVE TypeOK' /\ PastInv'
  OBVIOUS
<1>1. CASE UNCHANGED vars
  BY <1>1 DEF vars, TypeOK, PastInv, Tracked
<1>2. ASSUME NEW h \in Threads, ReadClock(h)
      PROVE  TypeOK' /\ PastInv'
  <2>1. PICK b \in Buckets :
          call' = [call EXCEPT ![h] = [at |-> "lock", bucket |-> b, now |-> clock]]
    BY <1>2 DEF ReadClock
  <2>2. UNCHANGED <<clock, windows, checks, admitted, forgotten>>
    BY <1>2 DEF ReadClock
  <2>3. clock \in Times /\ Times \subseteq Int
    BY LimiterAssumption DEF TypeOK, Times
  <2>4. PastInv'
    BY <2>1, <2>2, <2>3 DEF TypeOK, PastInv
  <2>5. call' \in [Threads -> {Idle} \cup
                     [at: {"lock"}, bucket: Buckets, now: Times]]
    BY <2>1, <2>3 DEF TypeOK
  <2> QED
    BY <2>2, <2>4, <2>5 DEF TypeOK, Tracked
<1>3. ASSUME NEW h \in Threads, Count(h)
      PROVE  TypeOK' /\ PastInv'
  <2>1. PastInv'
    BY <1>3 DEF Count, PastInv, TypeOK
  <2> QED
    BY <1>3, <2>1, CountTypeOK DEF PastInv
<1>4. CASE Tick
  <2>1. /\ clock' = clock + 1 /\ clock < MaxTime
        /\ UNCHANGED <<windows, checks, call, forgotten>>
        /\ admitted' = [a \in Ages |-> IF a = 0 THEN 0 ELSE admitted[a - 1]]
    BY <1>4 DEF Tick
  <2>2. clock' \in Times /\ clock \in Times
    BY <2>1, LimiterAssumption DEF TypeOK, Times
  <2>3. admitted' \in [Ages -> 0..(Budget + 1)]
    <3>1. \A a \in Ages : a # 0 => a - 1 \in Ages
      BY LimiterAssumption DEF Ages
    <3> QED
      BY <2>1, <3>1, BudgetIsNumber DEF TypeOK
  <2>4. \A b \in Tracked : windows[b].start \in Times
    BY WindowIsTracked DEF TypeOK, Tracked, WindowType
  <2>5. \A b \in Tracked : windows[b].start <= clock + 1
    BY <2>2, <2>4, LimiterAssumption DEF TypeOK, Times
  <2>6. \A h \in Threads : call[h] # Idle => call[h].now \in Times
    BY DEF TypeOK
  <2>7. PastInv'
    BY <2>1, <2>2, <2>6, LimiterAssumption DEF PastInv, Times
  <2> QED
    BY <2>1, <2>2, <2>3, <2>5, <2>7 DEF TypeOK, Tracked
<1> QED
  BY <1>1, <1>2, <1>3, <1>4 DEF Next

(* The table of windows never holds more than one bucket over its cap, no   *)
(* window starts in the future, and all counts keep to their bounds.        *)
THEOREM TypeCorrect == Spec => []TypeOK
BY InitTypeOK, NextTypeOK, PTL DEF Spec
-----------------------------------------------------------------------------
(* The hits of a bucket.                                                    *)

Counts == [Ages -> Nat]
Oldest == Window + MaxDelay

LEMMA AgesAre == Ages = 0..Oldest /\ Oldest \in Nat
BY LimiterAssumption DEF Ages, Oldest

IsRunningSum(f, n, g) ==
  /\ g \in [0..n -> Nat]
  /\ \A a \in 0..n : g[a] = f[a] + IF a = 0 THEN 0 ELSE g[a - 1]

(* The recursive definition defines a function: its values up to any age    *)
(* exist, and so there is one to choose.                                    *)
LEMMA RunningSumIs ==
  ASSUME NEW f \in Counts
  PROVE  IsRunningSum(f, Oldest, RunningSum(f))
<1> DEFINE P == {n \in 0..Oldest : \E g : IsRunningSum(f, n, g)}
           Step(g) == [a \in Ages |-> f[a] + IF a = 0 THEN 0 ELSE g[a - 1]]
<1>a. Ages = 0..Oldest /\ Oldest \in Nat
  BY AgesAre
<1>1. 0 \in P
  <2>1. IsRunningSum(f, 0, [a \in 0..0 |-> f[0]])
    BY <1>a DEF IsRunningSum, Counts
  <2> QED
    BY <1>a, <2>1
<1>2. ASSUME NEW n \in 1..Oldest, n - 1 \in P
      PROVE  n \in P
  <2>1. PICK g : IsRunningSum(f, n - 1, g)
    BY <1>2
  <2> DEFINE h == [a \in 0..n |-> IF a = n THEN f[n] + g[n - 1] ELSE g[a]]
  <2>2. f[n] \in Nat /\ n - 1 \in 0..(n - 1) /\ n \in Nat /\ 0 \in 0..(n - 1)
    BY <1>a DEF Counts
  <2>3. h \in [0..n -> Nat]
    BY <2>1, <2>2 DEF IsRunningSum
  <2>4. ASSUME NEW a \in 0..n
        PROVE  h[a] = f[a] + IF a = 0 THEN 0 ELSE h[a - 1]
    <3>1. CASE a = n
      BY <2>2, <3>1
    <3>2. CASE a # n
      <4>1. a \in 0..(n - 1) /\ a - 1 # n /\ (a # 0 => a - 1 \in 0..n)
        BY <3>2, <2>2
      <4> QED
        BY <2>1, <3>2, <4>1 DEF IsRunningSum
    <3> QED
      BY <3>1, <3>2
  <2>5. IsRunningSum(f, n, h)
    BY <2>3, <2>4 DEF IsRunningSum
  <2> QED
    BY <2>5
<1>3. Oldest \in P
  <2> HIDE DEF P
  <2>1. 0..Oldest \subseteq P
    BY <1>a, <1>1, <1>2, UpToBound
  <2> QED
    BY <1>a, <2>1
<1>4. PICK g : IsRunningSum(f, Oldest, g)
  BY <1>3
<1>5. g = Step(g)
  BY <1>a, <1>4 DEF IsRunningSum
<1>6. RunningSum(f) = CHOOSE u : u = Step(u)
  BY DEF RunningSum, Counts
<1> DEFINE s == RunningSum(f)
<1>7. s = Step(s)
  BY <1>5, <1>6
<1>8. \A a \in 0..Oldest : s[a] = f[a] + IF a = 0 THEN 0 ELSE s[a - 1]
  BY <1>7, <1>a
<1> DEFINE Q == {n \in 0..Oldest : s[n] \in Nat}
<1> HIDE DEF s
<1>9. 0..Oldest \subseteq Q
  <2>1. 0 \in Q
    BY <1>8, <1>a DEF Counts
  <2>2. \A n \in 1..Oldest : n - 1 \in Q => n \in Q
    BY <1>8, <1>a DEF Counts
  <2> HIDE DEF Q
  <2> QED
    BY <1>a, <2>1, <2>2, UpToBound
<1>10. s \in [0..Oldest -> Nat]
  BY <1>7, <1>9, <1>a
<1> QED
  BY <1>8, <1>10 DEF IsRunningSum, s

LEMMA RunningSumGrows ==
  ASSUME NEW f \in Counts, NEW a \in Ages, NEW b \in Ages, a <= b
  PROVE  RunningSum(f)[a] <= RunningSum(f)[b]
<1> DEFINE s == RunningSum(f)
           P == {n \in 0..Oldest : \A k \in 0..n : s[k] <= s[n]}
<1>1. /\ Ages = 0..Oldest /\ Oldest \in Nat
      /\ s \in [0..Oldest -> Nat]
      /\ \A n \in 0..Oldest : s[n] = f[n] + IF n = 0 THEN 0 ELSE s[n - 1]
  BY AgesAre, RunningSumIs DEF IsRunningSum
<1> HIDE DEF s
<1>2. 0 \in P
  BY <1>1
<1>3. ASSUME NEW n \in 1..Oldest, n - 1 \in P
      PROVE  n \in P
  <2>1. n - 1 \in 0..Oldest /\ n \in 0..Oldest /\ n # 0
    BY <1>1
  <2>2. s[n - 1] \in Nat /\ s[n] \in Nat /\ s[n - 1] <= s[n]
    BY <1>1, <2>1 DEF Counts
  <2>3. ASSUME NEW k \in 0..n
        PROVE  s[k] <= s[n]
    <3>1. CASE k = n
      BY <2>2, <3>1
    <3>2. CASE k # n
      <4>1. k \in 0..(n - 1) /\ k \in 0..Oldest
        BY <1>1, <3>2
      <4>2. s[k] <= s[n - 1] /\ s[k] \in Nat
        BY <1>1, <1>3, <4>1
      <4> QED
        BY <2>2, <4>2
    <3> QED
      BY <3>1, <3>2
  <2> QED
    BY <2>1, <2>3
<1>4. b \in P
  <2> HIDE DEF P
  <2> QED
    BY <1>1, <1>2, <1>3, UpToBound
<1> QED
  BY <1>1, <1>4 DEF s

(* Time makes all hits one tick older.                                      *)
LEMMA RunningSumShifts ==
  ASSUME NEW f \in Counts, NEW g \in Counts,
         g = [a \in Ages |-> IF a = 0 THEN 0 ELSE f[a - 1]]
  PROVE  /\ RunningSum(g)[0] = 0
         /\ \A a \in 1..Oldest : RunningSum(g)[a] = RunningSum(f)[a - 1]
<1> DEFINE s == RunningSum(f)
           t == RunningSum(g)
           P == {n \in 0..Oldest : n = 0 \/ t[n] = s[n - 1]}
<1>1. /\ Ages = 0..Oldest /\ Oldest \in Nat
      /\ s \in [0..Oldest -> Nat] /\ t \in [0..Oldest -> Nat]
      /\ \A n \in 0..Oldest : s[n] = f[n] + IF n = 0 THEN 0 ELSE s[n - 1]
      /\ \A n \in 0..Oldest : t[n] = g[n] + IF n = 0 THEN 0 ELSE t[n - 1]
  BY AgesAre, RunningSumIs DEF IsRunningSum
<1> HIDE DEF s, t
<1>2. t[0] = 0
  BY <1>1
<1>3. ASSUME NEW n \in 1..Oldest, n - 1 \in P
      PROVE  n \in P
  <2>1. n - 1 \in 0..Oldest /\ n \in 0..Oldest /\ n # 0
    BY <1>1
  <2>2. g[n] = f[n - 1] /\ f[n - 1] \in Nat
    BY <1>1, <2>1 DEF Counts
  <2>3. CASE n = 1
    <3>1. t[1] = g[1] + t[0] /\ s[0] = f[0] + 0
      BY <1>1, <2>1, <2>3
    <3> QED
      BY <1>2, <2>1, <2>2, <2>3, <3>1
  <2>4. CASE n # 1
    <3>1. t[n - 1] = s[n - 2] /\ n - 1 # 0
      BY <1>3, <2>1, <2>4
    <3>2. t[n] = g[n] + t[n - 1] /\ s[n - 1] = f[n - 1] + s[n - 2]
      BY <1>1, <2>1, <3>1
    <3> QED
      BY <2>1, <2>2, <3>1, <3>2
  <2> QED
    BY <2>3, <2>4
<1>4. 0..Oldest \subseteq P
  <2>1. 0 \in P
    BY <1>1
  <2> HIDE DEF P
  <2> QED
    BY <1>1, <1>3, <2>1, UpToBound
<1>5. \A a \in 1..Oldest : a \in 0..Oldest /\ a # 0
  BY <1>1
<1> QED
  BY <1>2, <1>4, <1>5 DEF s, t

(* A hit counts in every stretch of time that reaches to now.               *)
LEMMA RunningSumHit ==
  ASSUME NEW f \in Counts, NEW n \in Nat, NEW g \in Counts,
         g = [f EXCEPT ![0] = n]
  PROVE  \A a \in Ages : RunningSum(g)[a] = RunningSum(f)[a] - f[0] + n
<1> DEFINE s == RunningSum(f)
           t == RunningSum(g)
           P == {k \in 0..Oldest : t[k] = s[k] - f[0] + n}
<1>1. /\ Ages = 0..Oldest /\ Oldest \in Nat
      /\ s \in [0..Oldest -> Nat] /\ t \in [0..Oldest -> Nat]
      /\ \A k \in 0..Oldest : s[k] = f[k] + IF k = 0 THEN 0 ELSE s[k - 1]
      /\ \A k \in 0..Oldest : t[k] = g[k] + IF k = 0 THEN 0 ELSE t[k - 1]
  BY AgesAre, RunningSumIs DEF IsRunningSum
<1> HIDE DEF s, t
<1>2. f[0] \in Nat /\ g[0] = n
  BY <1>1 DEF Counts
<1>3. 0 \in P
  BY <1>1, <1>2
<1>4. ASSUME NEW k \in 1..Oldest, k - 1 \in P
      PROVE  k \in P
  <2>1. k - 1 \in 0..Oldest /\ k \in 0..Oldest /\ k # 0
    BY <1>1
  <2>2. g[k] = f[k] /\ f[k] \in Nat
    BY <1>1, <2>1 DEF Counts
  <2>3. t[k] = g[k] + t[k - 1] /\ s[k] = f[k] + s[k - 1]
    BY <1>1, <2>1
  <2>4. s[k - 1] \in Nat /\ t[k - 1] = s[k - 1] - f[0] + n
    BY <1>1, <1>4, <2>1
  <2> QED
    BY <1>2, <2>1, <2>2, <2>3, <2>4
<1>5. 0..Oldest \subseteq P
  <2> HIDE DEF P
  <2> QED
    BY <1>1, <1>3, <1>4, UpToBound
<1> QED
  BY <1>1, <1>5 DEF s, t

(* Hits at time t and later, as far back as hits are remembered.            *)
Since(f, now, t) ==
  IF t > now THEN 0
  ELSE RunningSum(f)[IF now - t <= Oldest THEN now - t ELSE Oldest]

LEMMA SinceFalls ==
  ASSUME NEW f \in Counts, NEW now \in Int, NEW t \in Int, NEW u \in Int, t <= u
  PROVE  /\ Since(f, now, t) \in Nat
         /\ Since(f, now, u) \in Nat
         /\ Since(f, now, u) <= Since(f, now, t)
<1> DEFINE Back(v) == IF now - v <= Oldest THEN now - v ELSE Oldest
<1>1. Ages = 0..Oldest /\ Oldest \in Nat /\ RunningSum(f) \in [Ages -> Nat]
  BY AgesAre, RunningSumIs DEF IsRunningSum
<1>2. \A v \in Int : v <= now => Back(v) \in Ages
  BY <1>1
<1>3. Since(f, now, t) \in Nat /\ Since(f, now, u) \in Nat
  BY <1>1, <1>2 DEF Since
<1>4. CASE u > now
  <2>1. Since(f, now, u) = 0
    BY <1>4 DEF Since
  <2> QED
    BY <1>3, <2>1
<1>5. CASE ~(u > now)
  <2>1. u <= now /\ t <= now /\ Back(u) \in Ages /\ Back(t) \in Ages /\ ~(t > now)
    BY <1>2, <1>5
  <2>2. Back(u) <= Back(t)
    BY <1>1, <2>1
  <2>3. RunningSum(f)[Back(u)] <= RunningSum(f)[Back(t)]
    BY <2>1, <2>2, RunningSumGrows
  <2> QED
    BY <1>3, <1>5, <2>1, <2>3 DEF Since
<1> QED
  BY <1>4, <1>5

LEMMA SinceTick ==
  ASSUME NEW f \in Counts, NEW g \in Counts, NEW now \in Int, NEW t \in Int,
         g = [a \in Ages |-> IF a = 0 THEN 0 ELSE f[a - 1]]
  PROVE  /\ Since(g, now + 1, t) <= Since(f, now, t)
         /\ now + 1 - t <= Oldest => Since(g, now + 1, t) = Since(f, now, t)
<1>1. /\ Ages = 0..Oldest /\ Oldest \in Nat /\ Oldest >= 1
      /\ RunningSum(f) \in [Ages -> Nat]
  BY AgesAre, RunningSumIs, LimiterAssumption DEF IsRunningSum, Oldest
<1>2. /\ RunningSum(g)[0] = 0
      /\ \A a \in 1..Oldest : RunningSum(g)[a] = RunningSum(f)[a - 1]
  BY RunningSumShifts
<1>3. CASE t > now + 1
  BY <1>3 DEF Since
<1>4. CASE t = now + 1
  <2>1. ~(t > now + 1) /\ now + 1 - t = 0 /\ t > now
    BY <1>4
  <2> QED
    BY <1>1, <1>2, <2>1 DEF Since
<1>5. CASE t <= now /\ now + 1 - t <= Oldest
  <2>1. now + 1 - t \in 1..Oldest /\ (now + 1 - t) - 1 = now - t /\ now - t <= Oldest
        /\ ~(t > now + 1) /\ ~(t > now) /\ now - t \in Ages
    BY <1>1, <1>5
  <2>2. RunningSum(g)[now + 1 - t] = RunningSum(f)[now - t]
    BY <1>2, <2>1
  <2>3. /\ Since(g, now + 1, t) = RunningSum(g)[now + 1 - t]
        /\ Since(f, now, t) = RunningSum(f)[now - t]
    BY <1>5, <2>1 DEF Since
  <2>4. RunningSum(f)[now - t] \in Nat
    BY <1>1, <2>1
  <2> QED
    BY <2>2, <2>3, <2>4
<1>6. CASE t <= now /\ now + 1 - t > Oldest
  <2>1. /\ Since(g, now + 1, t) = RunningSum(g)[Oldest]
        /\ now - t >= Oldest /\ ~(t > now) /\ ~(now + 1 - t <= Oldest)
    BY <1>1, <1>6 DEF Since
  <2>2. Since(f, now, t) = RunningSum(f)[Oldest]
    BY <1>1, <2>1 DEF Since
  <2>3. Oldest \in 1..Oldest /\ Oldest - 1 \in Ages /\ Oldest \in Ages /\ Oldest - 1 <= Oldest
    BY <1>1
  <2>4. RunningSum(f)[Oldest - 1] <= RunningSum(f)[Oldest]
    BY <2>3, RunningSumGrows
  <2> QED
    BY <1>2, <2>1, <2>2, <2>3, <2>4
<1> QED
  BY <1>1, <1>3, <1>4, <1>5, <1>6

(* What putting n in the place of the present changes.                      *)
FirstPut(f, g, n) == g = [f EXCEPT ![0] = n]

LEMMA SinceHit ==
  ASSUME NEW f \in Counts, NEW n \in Nat, NEW g \in Counts,
         FirstPut(f, g, n), NEW now \in Int, NEW t \in Int, t <= now
  PROVE  Since(g, now, t) = Since(f, now, t) - f[0] + n
<1>1. Ages = 0..Oldest /\ Oldest \in Nat
  BY AgesAre
<1>2. (IF now - t <= Oldest THEN now - t ELSE Oldest) \in Ages /\ ~(t > now)
  BY <1>1
<1> QED
  BY <1>2, RunningSumHit DEF Since, FirstPut

-----------------------------------------------------------------------------
(* The budget.                                                              *)

Lesser(a, b) == IF a <= b THEN a ELSE b

(* What a window that starts at s and has let c hits through says of the    *)
(* hits that came so late.  Its own come less than a window after s, but    *)
(* for their delay, and the first comes no later than the delay; those of   *)
(* the window before, and of the one before that, lie a window further back.*)
WindowBounds(f, now, s, c) ==
  /\ Since(f, now, s + Window + MaxDelay) = 0
  /\ Since(f, now, s + MaxDelay) <= c
  /\ Since(f, now, s + MaxDelay + 1) <= c - 1
  /\ Since(f, now, s - Window + MaxDelay) <= c + Limit
  /\ Since(f, now, s - Window + MaxDelay + 1) <= c + Limit - 1
  /\ Since(f, now, s - 2 * Window + MaxDelay + 1) <= c + 2 * Limit - 1

LEMMA Numbers ==
  /\ Window \in Nat /\ Window >= 1
  /\ MaxDelay \in Nat /\ MaxDelay < Window
  /\ Limit \in Nat /\ Limit >= 1
  /\ Oldest \in Nat /\ Oldest = Window + MaxDelay
BY LimiterAssumption DEF Oldest

LEMMA BoundsRelax ==
  ASSUME NEW f \in Counts, NEW now \in Int, NEW s \in Int, NEW c \in Int,
         NEW t \in Int, NEW d \in Int, s <= t, c <= d,
         WindowBounds(f, now, s, c)
  PROVE  WindowBounds(f, now, t, d)
<1> DEFINE Falls(u, v) == /\ Since(f, now, u) \in Nat
                          /\ Since(f, now, v) \in Nat
                          /\ Since(f, now, v) <= Since(f, now, u)
<1>1. \A u, v \in Int : u <= v => Falls(u, v)
  BY SinceFalls
<1>2. /\ Falls(s + Window + MaxDelay, t + Window + MaxDelay)
      /\ Falls(s + MaxDelay, t + MaxDelay)
      /\ Falls(s + MaxDelay + 1, t + MaxDelay + 1)
      /\ Falls(s - Window + MaxDelay, t - Window + MaxDelay)
      /\ Falls(s - Window + MaxDelay + 1, t - Window + MaxDelay + 1)
      /\ Falls(s - 2 * Window + MaxDelay + 1, t - 2 * Window + MaxDelay + 1)
  <2> HIDE DEF Falls
  <2> QED
    BY <1>1, Numbers
<1> QED
  BY <1>2, Numbers DEF WindowBounds

LEMMA BoundsTick ==
  ASSUME NEW f \in Counts, NEW g \in Counts, NEW now \in Int, NEW s \in Int,
         NEW c \in Int, g = [a \in Ages |-> IF a = 0 THEN 0 ELSE f[a - 1]],
         WindowBounds(f, now, s, c)
  PROVE  WindowBounds(g, now + 1, s, c)
<1> DEFINE Less(t) == /\ Since(g, now + 1, t) <= Since(f, now, t)
                      /\ Since(g, now + 1, t) \in Nat
                      /\ Since(f, now, t) \in Nat
<1>1. \A t \in Int : Less(t)
  BY SinceTick, SinceFalls
<1>2. /\ Less(s + Window + MaxDelay)
      /\ Less(s + MaxDelay)
      /\ Less(s + MaxDelay + 1)
      /\ Less(s - Window + MaxDelay)
      /\ Less(s - Window + MaxDelay + 1)
      /\ Less(s - 2 * Window + MaxDelay + 1)
  <2> HIDE DEF Less
  <2> QED
    BY <1>1, Numbers
<1> QED
  BY <1>2, Numbers DEF WindowBounds

(* A hit adds one at most, and is remembered unless its tick is full.       *)
IsHit(f, g) ==
  g = [f EXCEPT ![0] = IF f[0] <= Budget THEN f[0] + 1 ELSE f[0]]

LEMMA HitCounts ==
  ASSUME NEW f \in Counts, NEW g \in Counts, IsHit(f, g), NEW now \in Int
  PROVE  \A t \in Int :
           /\ Since(g, now, t) \in Nat /\ Since(f, now, t) \in Nat
           /\ Since(g, now, t) <= Since(f, now, t) + 1
           /\ Since(g, now, t) >= Since(f, now, t)
           /\ t > now => Since(g, now, t) = 0
           /\ t <= now => Since(g, now, t) >= Lesser(Since(f, now, t) + 1, Limit)
<1> DEFINE n == IF f[0] <= Budget THEN f[0] + 1 ELSE f[0]
<1>1. 0 \in Ages /\ f[0] \in Nat /\ Budget \in Nat /\ Budget >= Limit
  BY AgesAre, Numbers DEF Counts, Budget
<1>2. n \in Nat /\ f[0] <= n /\ n <= f[0] + 1
  BY <1>1
<1>3. g = [f EXCEPT ![0] = n]
  BY DEF IsHit
<1> TAKE t \in Int
<1>4. Since(g, now, t) \in Nat /\ Since(f, now, t) \in Nat
  BY SinceFalls
<1>5. CASE t > now
  BY <1>4, <1>5 DEF Since
<1>6. CASE t <= now
  <2>1. Since(g, now, t) = Since(f, now, t) - f[0] + n
    <3>1. n \in Nat /\ FirstPut(f, g, n)
      BY <1>2, <1>3 DEF FirstPut
    <3> HIDE DEF n
    <3> QED
      BY <1>6, <3>1, SinceHit
  <2>2. n = f[0] => Since(f, now, t) >= Limit
    <3> SUFFICES ASSUME n = f[0] PROVE Since(f, now, t) >= Limit
      OBVIOUS
    <3>1. f[0] > Budget
      BY <1>1
    <3>2. Since(f, now, now) <= Since(f, now, t) /\ Since(f, now, now) \in Nat
      BY <1>6, SinceFalls
    <3>3. Since(f, now, now) = f[0]
      <4>1. ~(now > now) /\ now - now = 0 /\ 0 <= Oldest /\ 0 \in 0..Oldest
        BY Numbers
      <4>2. RunningSum(f)[0] = f[0] + 0
        BY <4>1, RunningSumIs DEF IsRunningSum
      <4>3. Since(f, now, now) = RunningSum(f)[0]
        BY <4>1 DEF Since
      <4> QED
        BY <1>1, <4>2, <4>3
    <3> QED
      BY <1>1, <1>4, <3>1, <3>2, <3>3, Numbers
  <2>3. n = f[0] \/ n = f[0] + 1
    BY <1>1
  <2> HIDE DEF n
  <2>4. /\ Since(g, now, t) <= Since(f, now, t) + 1
        /\ Since(g, now, t) >= Since(f, now, t)
    BY <1>1, <1>2, <1>4, <2>1
  <2>5. Since(g, now, t) >= Lesser(Since(f, now, t) + 1, Limit)
    BY <1>1, <1>4, <2>1, <2>2, <2>3, Numbers DEF Lesser
  <2> QED
    BY <1>4, <1>6, <2>4, <2>5
<1> QED
  BY <1>4, <1>5, <1>6

(* A hit counts in the window, so its call is less than a window old.       *)
LEMMA BoundsHit ==
  ASSUME NEW f \in Counts, NEW g \in Counts, IsHit(f, g), NEW now \in Int,
         NEW s \in Int, NEW c \in Int, now < s + Window + MaxDelay,
         WindowBounds(f, now, s, c)
  PROVE  WindowBounds(g, now, s, c + 1)
<1> DEFINE More(t) == /\ Since(g, now, t) <= Since(f, now, t) + 1
                      /\ Since(g, now, t) \in Nat
                      /\ Since(f, now, t) \in Nat
<1>1. \A t \in Int : More(t)
  BY HitCounts
<1>2. /\ More(s + MaxDelay)
      /\ More(s + MaxDelay + 1)
      /\ More(s - Window + MaxDelay)
      /\ More(s - Window + MaxDelay + 1)
      /\ More(s - 2 * Window + MaxDelay + 1)
  <2> HIDE DEF More
  <2> QED
    BY <1>1, Numbers
<1>3. Since(g, now, s + Window + MaxDelay) = 0
  BY HitCounts, Numbers
<1> QED
  BY <1>2, <1>3, Numbers DEF WindowBounds

(* A hit opens a window, at least one window after the last started.        *)
LEMMA BoundsOpen ==
  ASSUME NEW f \in Counts, NEW g \in Counts, IsHit(f, g), NEW now \in Int,
         NEW s \in Int, NEW t \in Int, s + Window <= t,
         now <= t + MaxDelay, WindowBounds(f, now, s, Limit)
  PROVE  WindowBounds(g, now, t, 1)
<1> DEFINE More(u) == /\ Since(g, now, u) <= Since(f, now, u) + 1
                      /\ Since(g, now, u) \in Nat
                      /\ Since(f, now, u) \in Nat
           Falls(u, v) == Since(f, now, v) <= Since(f, now, u)
<1>1. /\ \A u \in Int : More(u)
      /\ \A u, v \in Int : u <= v => Falls(u, v)
  BY HitCounts, SinceFalls
<1>2. /\ More(t + MaxDelay)
      /\ More(t - Window + MaxDelay)
      /\ More(t - Window + MaxDelay + 1)
      /\ More(t - 2 * Window + MaxDelay + 1)
      /\ More(s + Window + MaxDelay)
      /\ More(s + MaxDelay)
      /\ More(s + MaxDelay + 1)
      /\ More(s - Window + MaxDelay + 1)
      /\ Falls(s + Window + MaxDelay, t + MaxDelay)
      /\ Falls(s + MaxDelay, t - Window + MaxDelay)
      /\ Falls(s + MaxDelay + 1, t - Window + MaxDelay + 1)
      /\ Falls(s - Window + MaxDelay + 1, t - 2 * Window + MaxDelay + 1)
  <2> HIDE DEF More, Falls
  <2> QED
    BY <1>1, Numbers
<1>3. /\ Since(g, now, t + Window + MaxDelay) = 0
      /\ Since(g, now, t + MaxDelay + 1) = 0
  BY HitCounts, Numbers
<1> QED
  BY <1>2, <1>3, Numbers DEF WindowBounds

LEMMA BoundsBudget ==
  ASSUME NEW f \in Counts, NEW now \in Int, NEW s \in Int, s <= now,
         WindowBounds(f, now, s, Limit)
  PROVE  RunningSum(f)[Window - 1] <= Budget
<1> DEFINE From == now - Window + 1
           Falls(u, v) == /\ Since(f, now, v) <= Since(f, now, u)
                          /\ Since(f, now, u) \in Nat
                          /\ Since(f, now, v) \in Nat
<1>1. \A u, v \in Int : u <= v => Falls(u, v)
  BY SinceFalls
<1>2. Since(f, now, From) = RunningSum(f)[Window - 1]
  <2>1. ~(From > now) /\ now - From = Window - 1 /\ now - From <= Oldest
    BY Numbers
  <2> QED
    BY <2>1 DEF Since
<1>3. CASE MaxDelay <= 1
  <2>1. MaxDelay = 0 \/ MaxDelay = 1
    BY <1>3, Numbers
  <2>2. MaxDelay = 0 => Falls(s - Window + MaxDelay + 1, From)
    <3> HIDE DEF Falls
    <3> QED
      BY <1>1, Numbers
  <2>3. MaxDelay = 1 => Falls(s - Window + MaxDelay, From)
    <3> HIDE DEF Falls
    <3> QED
      BY <1>1, Numbers
  <2>4. Budget = 2 * Limit
    BY <1>3 DEF Budget
  <2> HIDE DEF From
  <2> QED
    BY <1>2, <2>1, <2>2, <2>3, <2>4, Numbers DEF WindowBounds
<1>4. CASE MaxDelay > 1
  <2>1. Falls(s - 2 * Window + MaxDelay + 1, From)
    <3> HIDE DEF Falls
    <3> QED
      BY <1>1, Numbers
  <2>2. Budget = 3 * Limit - 1
    BY <1>4, Numbers DEF Budget
  <2> HIDE DEF From
  <2> QED
    BY <1>2, <2>1, <2>2, Numbers DEF WindowBounds
<1> QED
  BY <1>3, <1>4, Numbers

-----------------------------------------------------------------------------
(* The steps.                                                               *)

(* No call waits longer than the delay.                                     *)
LateInv == \A h \in Threads : call[h] # Idle => clock <= call[h].now + MaxDelay

(* Unless it was evicted too early, what the window of the watched bucket   *)
(* says of its hits.  Without a window, all hits are as old as if one that  *)
(* was full had passed.                                                     *)
HitsBounded ==
  forgotten \/
  IF windows[Watched] = Untracked
  THEN WindowBounds(admitted, clock, clock - Oldest, Limit)
  ELSE WindowBounds(admitted, clock, windows[Watched].start,
                    Lesser(windows[Watched].count, Limit))

(* The count of a window is made of hits since its start.                   *)
CountIsOfHits ==
  windows[Watched] # Untracked =>
    /\ windows[Watched].count >= 1
    /\ clock - windows[Watched].start <= Oldest =>
         Since(admitted, clock, windows[Watched].start) >=
           Lesser(windows[Watched].count, Limit)

LimiterInv == TypeOK /\ PastInv /\ LateInv /\ HitsBounded /\ CountIsOfHits

LEMMA TypedState ==
  ASSUME TypeOK
  PROVE  /\ admitted \in Counts
         /\ clock \in Nat
         /\ windows[Watched] # Untracked =>
              /\ windows[Watched] \in WindowType
              /\ windows[Watched].start \in Nat
              /\ windows[Watched].count \in Nat
              /\ windows[Watched].start <= clock
         /\ \A h \in Threads : call[h] # Idle =>
              call[h].now \in Nat /\ call[h].bucket \in Buckets
<1>1. Times \subseteq Nat /\ Hits \subseteq Nat /\ Watched \in Buckets
      /\ 0..(Budget + 1) \subseteq Nat
  BY LimiterAssumption, BudgetIsNumber DEF Times, Hits
<1>2. admitted \in Counts
  BY <1>1 DEF TypeOK, Counts
<1>3. clock \in Nat
  BY <1>1 DEF TypeOK
<1>4. windows[Watched] # Untracked =>
        windows[Watched] \in WindowType /\ windows[Watched].start <= clock
  BY <1>1 DEF TypeOK, WindowType, Tracked
<1>5. \A w \in WindowType : w.start \in Nat /\ w.count \in Nat
  BY <1>1 DEF WindowType
<1>6. \A h \in Threads : call[h] # Idle =>
        call[h].now \in Nat /\ call[h].bucket \in Buckets
  BY <1>1 DEF TypeOK
<1> QED
  BY <1>2, <1>3, <1>4, <1>5, <1>6

LEMMA InitLimiterInv == Init => LimiterInv
<1> SUFFICES ASSUME Init PROVE LimiterInv
  OBVIOUS
<1>1. TypeOK /\ PastInv
  BY InitTypeOK
<1>2. LateInv
  BY DEF Init, LateInv
<1>3. windows[Watched] = Untracked
  BY LimiterAssumption DEF Init
<1>4. \A t \in Int : Since(admitted, clock, t) = 0
  <2> DEFINE P == {n \in 0..Oldest : RunningSum(admitted)[n] = 0}
  <2>1. /\ Ages = 0..Oldest /\ Oldest \in Nat /\ admitted \in Counts
        /\ clock = 0 /\ \A a \in Ages : admitted[a] = 0
    BY <1>1, AgesAre, TypedState DEF Init
  <2>2. \A n \in 0..Oldest :
          RunningSum(admitted)[n] =
            admitted[n] + IF n = 0 THEN 0 ELSE RunningSum(admitted)[n - 1]
    BY <2>1, RunningSumIs DEF IsRunningSum
  <2>3. 0 \in P
    BY <2>1, <2>2
  <2>4. \A n \in 1..Oldest : n - 1 \in P => n \in P
    BY <2>1, <2>2
  <2>5. 0..Oldest \subseteq P
    <3> HIDE DEF P
    <3> QED
      BY <2>1, <2>3, <2>4, UpToBound
  <2> QED
    BY <2>1, <2>5 DEF Since
<1>5. WindowBounds(admitted, clock, clock - Oldest, Limit)
  BY <1>1, <1>4, TypedState, Numbers DEF WindowBounds
<1> QED
  BY <1>1, <1>2, <1>3, <1>5 DEF LimiterInv, HitsBounded, CountIsOfHits

(* Without a window of its own, with one just removed or with one that has  *)
(* passed, a bucket's hits are bounded as if a full window had passed.      *)
LEMMA ReadyToOpen ==
  ASSUME LimiterInv, ~forgotten, NEW now \in Nat, now <= clock,
         clock <= now + MaxDelay,
         \/ windows[Watched] = Untracked
         \/ clock >= Passed(windows[Watched])
         \/ now - windows[Watched].start >= Window
  PROVE  \E s \in Int : s + Window <= now /\ WindowBounds(admitted, clock, s, Limit)
<1> DEFINE w == windows[Watched]
<1>1. admitted \in Counts /\ clock \in Nat
  BY TypedState DEF LimiterInv
<1>2. CASE w = Untracked
  <2>1. WindowBounds(admitted, clock, clock - Oldest, Limit)
    BY <1>2 DEF LimiterInv, HitsBounded
  <2>2. clock - Oldest \in Int /\ (clock - Oldest) + Window <= now
    BY <1>1, Numbers
  <2> QED
    BY <2>1, <2>2
<1>3. CASE w # Untracked
  <2>1. w.start \in Nat /\ w.count \in Nat
    BY <1>3, TypedState DEF LimiterInv
  <2>2. WindowBounds(admitted, clock, w.start, Lesser(w.count, Limit))
    BY <1>3 DEF LimiterInv, HitsBounded
  <2>3. Lesser(w.count, Limit) \in Int /\ Lesser(w.count, Limit) <= Limit
    BY <2>1, Numbers DEF Lesser
  <2>4. w.start + Window <= now
    BY <1>1, <1>3, <2>1, Numbers DEF Passed
  <2>5. WindowBounds(admitted, clock, w.start, Limit)
    BY <1>1, <2>1, <2>2, <2>3, BoundsRelax, Numbers
  <2> QED
    BY <2>1, <2>4, <2>5
<1> QED
  BY <1>2, <1>3

(* What a count does to the watched bucket: its window moves or goes, or a  *)
(* hit is let through or refused in the window it has, or in a new one.     *)
LEMMA CountOfWatched ==
  ASSUME LimiterInv, NEW h \in Threads, Count(h)
  PROVE  /\ clock' = clock
         /\ call[h] # Idle /\ call' = [call EXCEPT ![h] = Idle]
         /\ forgotten => forgotten'
         /\ \/ /\ call[h].bucket # Watched
               /\ admitted' = admitted
               /\ \/ windows'[Watched] = windows[Watched]
                  \/ /\ windows'[Watched] = Untracked
                     /\ \/ forgotten'
                        \/ windows[Watched] = Untracked
                        \/ clock >= Passed(windows[Watched])
            \/ /\ call[h].bucket = Watched
               /\ windows[Watched] # Untracked
               /\ call[h].now - windows[Watched].start < Window
               /\ windows[Watched].count < Limit
               /\ windows'[Watched] =
                    [windows[Watched] EXCEPT !.count = @ + 1]
               /\ IsHit(admitted, admitted')
            \/ /\ call[h].bucket = Watched
               /\ windows[Watched] # Untracked
               /\ call[h].now - windows[Watched].start < Window
               /\ windows[Watched].count >= Limit
               /\ \E n \in Nat : /\ n >= Limit
                                 /\ windows'[Watched] =
                                      [windows[Watched] EXCEPT !.count = n]
               /\ admitted' = admitted
            \/ /\ call[h].bucket = Watched
               /\ windows'[Watched] = [start |-> call[h].now, count |-> 1]
               /\ IsHit(admitted, admitted')
               /\ \/ forgotten'
                  \/ windows[Watched] = Untracked
                  \/ clock >= Passed(windows[Watched])
                  \/ call[h].now - windows[Watched].start >= Window
<1> DEFINE b == call[h].bucket
           w == windows[Watched]
<1>1. PICK removed \in Removable(call[h].now) :
        LET window == Current(b, call[h].now, removed)
            hits == CountHit(window.count)
        IN /\ windows' =
                [c \in Buckets |->
                   IF c = b THEN [window EXCEPT !.count = hits]
                   ELSE IF c \in removed THEN Untracked
                   ELSE windows[c]]
           /\ admitted' =
                IF b = Watched /\ hits <= Limit
                THEN [admitted EXCEPT ![0] = IF @ <= Budget THEN @ + 1 ELSE @]
                ELSE admitted
           /\ forgotten' =
                (forgotten \/ /\ Watched \in removed
                              /\ clock < Passed(windows[Watched]))
  BY DEF Count
<1> DEFINE window == Current(b, call[h].now, removed)
           hits == CountHit(window.count)
<1>2. /\ call[h] # Idle /\ call' = [call EXCEPT ![h] = Idle] /\ clock' = clock
      /\ b \in Buckets /\ call[h].now \in Nat /\ Watched \in Buckets
      /\ clock \in Nat
      /\ w # Untracked => w \in WindowType /\ w.start \in Nat /\ w.count \in Nat
  BY TypedState, LimiterAssumption DEF Count, LimiterInv
<1>3. windows'[Watched] = IF Watched = b THEN [window EXCEPT !.count = hits]
                          ELSE IF Watched \in removed THEN Untracked
                          ELSE w
  BY <1>1, <1>2
<1>4. /\ admitted' = IF b = Watched /\ hits <= Limit
                     THEN [admitted EXCEPT ![0] = IF @ <= Budget THEN @ + 1 ELSE @]
                     ELSE admitted
      /\ forgotten' = (forgotten \/ /\ Watched \in removed
                                    /\ clock < Passed(w))
  BY <1>1
<1>5. (forgotten => forgotten')
      /\ (Watched \in removed => forgotten' \/ ~(clock < Passed(w)))
  BY <1>4
<1>6. Watched \in removed => w # Untracked
  BY <1>1 DEF Removable, Expired, OlderHalf, Tracked
<1>7. Watched \in removed => forgotten' \/ clock >= Passed(w)
  BY <1>2, <1>5, <1>6, Numbers DEF Passed
<1>8. CASE b # Watched
  <2>1. admitted' = admitted
    BY <1>4, <1>8
  <2>2. windows'[Watched] = IF Watched \in removed THEN Untracked ELSE w
    BY <1>3, <1>8
  <2> QED
    BY <1>2, <1>5, <1>7, <1>8, <2>1, <2>2
<1>9. CASE b = Watched /\ (\/ Watched \in removed
                           \/ w = Untracked
                           \/ call[h].now - w.start >= Window)
  <2>1. window = [start |-> call[h].now, count |-> 0]
    BY <1>9 DEF Current
  <2>2. hits = 1
    BY <2>1, Numbers DEF CountHit
  <2>3. windows'[Watched] = [start |-> call[h].now, count |-> 1]
    <3>1. [window EXCEPT !.count = hits] = [start |-> call[h].now, count |-> 1]
      BY <2>1, <2>2
    <3> QED
      BY <1>3, <1>9, <3>1
  <2>4. IsHit(admitted, admitted')
    BY <1>4, <1>9, <2>2, Numbers DEF IsHit
  <2> HIDE DEF window, hits
  <2> QED
    BY <1>2, <1>5, <1>7, <1>9, <2>3, <2>4
<1>10. CASE b = Watched /\ ~(\/ Watched \in removed
                             \/ w = Untracked
                             \/ call[h].now - w.start >= Window)
  <2>1. window = w /\ w # Untracked
    BY <1>10 DEF Current
  <2>2. call[h].now - w.start < Window
    BY <1>2, <1>10, Numbers
  <2>3. windows'[Watched] = [w EXCEPT !.count = hits]
    BY <1>3, <1>10, <2>1
  <2>4. hits = IF w.count <= Limit THEN w.count + 1 ELSE w.count
    BY <2>1 DEF CountHit
  <2> HIDE DEF window, hits
  <2>5. CASE w.count < Limit
    <3>1. hits = w.count + 1 /\ hits <= Limit
      BY <1>2, <2>1, <2>4, <2>5, Numbers
    <3>2. IsHit(admitted, admitted')
      BY <1>4, <1>10, <3>1 DEF IsHit, hits
    <3>3. windows'[Watched] = [w EXCEPT !.count = @ + 1]
      BY <2>3, <3>1
    <3> QED
      BY <1>2, <1>5, <1>10, <2>1, <2>2, <2>5, <3>2, <3>3
  <2>6. CASE w.count >= Limit
    <3>1. hits \in Nat /\ hits > Limit /\ hits >= Limit /\ ~(hits <= Limit)
      BY <1>2, <2>1, <2>4, <2>6, Numbers
    <3>2. admitted' = admitted
      BY <1>4, <3>1 DEF hits
    <3> QED
      BY <1>2, <1>5, <1>10, <2>1, <2>2, <2>3, <2>6, <3>1, <3>2
  <2> QED
    BY <1>2, <2>1, <2>5, <2>6, Numbers
<1> QED
  BY <1>8, <1>9, <1>10

LEMMA CountLimiterInv ==
  ASSUME LimiterInv, NEW h \in Threads, Count(h), TypeOK'
  PROVE  LateInv' /\ HitsBounded' /\ CountIsOfHits'
<1> DEFINE w == windows[Watched]
           now == call[h].now
<1>1. /\ admitted \in Counts /\ admitted' \in Counts /\ clock \in Nat
      /\ w # Untracked => /\ w \in WindowType /\ w.start \in Nat
                          /\ w.count \in Nat /\ w.start <= clock
  <2>1. admitted' \in Counts
    BY BudgetIsNumber DEF TypeOK, Counts
  <2> QED
    BY <2>1, TypedState DEF LimiterInv
<1>2. /\ clock' = clock /\ call[h] # Idle /\ call' = [call EXCEPT ![h] = Idle]
      /\ forgotten => forgotten'
  BY CountOfWatched
<1>3. now \in Nat /\ now <= clock /\ clock <= now + MaxDelay
  BY <1>2, TypedState DEF LimiterInv, PastInv, LateInv
<1>4. LateInv'
  BY <1>2 DEF LimiterInv, LateInv, TypeOK
<1>5. CASE /\ call[h].bucket # Watched
           /\ admitted' = admitted
           /\ \/ windows'[Watched] = w
              \/ /\ windows'[Watched] = Untracked
                 /\ \/ forgotten'
                    \/ w = Untracked
                    \/ clock >= Passed(w)
  <2>1. CASE windows'[Watched] = w
    <3>1. HitsBounded'
      BY <1>2, <1>5, <2>1 DEF LimiterInv, HitsBounded
    <3>2. CountIsOfHits'
      BY <1>2, <1>5, <2>1 DEF LimiterInv, CountIsOfHits
    <3> QED
      BY <1>4, <3>1, <3>2
  <2>2. CASE windows'[Watched] = Untracked /\ windows'[Watched] # w
    <3>1. CountIsOfHits'
      BY <2>2 DEF CountIsOfHits
    <3>2. ASSUME ~forgotten'
          PROVE  WindowBounds(admitted, clock, clock - Oldest, Limit)
      <4>1. w # Untracked /\ w.start + Oldest <= clock
        BY <1>1, <1>5, <2>2, <3>2, Numbers DEF Passed
      <4>2. WindowBounds(admitted, clock, w.start, Lesser(w.count, Limit))
        BY <1>2, <3>2, <4>1 DEF LimiterInv, HitsBounded
      <4>3. /\ Lesser(w.count, Limit) \in Int /\ Lesser(w.count, Limit) <= Limit
            /\ w.start \in Int /\ clock - Oldest \in Int /\ w.start <= clock - Oldest
            /\ Limit \in Int /\ clock \in Int
        BY <1>1, <4>1, Numbers DEF Lesser
      <4> QED
        BY <1>1, <4>2, <4>3, BoundsRelax
    <3>3. HitsBounded'
      BY <1>2, <1>5, <2>2, <3>2 DEF HitsBounded
    <3> QED
      BY <1>4, <3>1, <3>3
  <2> QED
    BY <1>5, <2>1, <2>2
<1>6. CASE /\ call[h].bucket = Watched
           /\ w # Untracked
           /\ now - w.start < Window
           /\ w.count < Limit
           /\ windows'[Watched] = [w EXCEPT !.count = @ + 1]
           /\ IsHit(admitted, admitted')
  <2>1. /\ windows'[Watched] # Untracked
        /\ windows'[Watched].start = w.start
        /\ windows'[Watched].count = w.count + 1
    <3>1. windows'[Watched] \in [start: Nat, count: Nat]
      BY <1>1, <1>6 DEF WindowType
    <3>2. windows'[Watched] # Untracked
      BY <3>1, LimiterAssumption
    <3> QED
      BY <1>1, <1>6, <3>2 DEF WindowType
  <2>2. /\ Lesser(w.count, Limit) = w.count
        /\ Lesser(w.count + 1, Limit) = w.count + 1
        /\ clock < w.start + Window + MaxDelay
        /\ clock \in Int /\ w.start \in Int /\ w.count \in Int
    BY <1>1, <1>3, <1>6, Numbers DEF Lesser
  <2>3. ~forgotten => WindowBounds(admitted', clock, w.start, w.count + 1)
    <3> SUFFICES ASSUME ~forgotten
                 PROVE  WindowBounds(admitted', clock, w.start, w.count + 1)
      OBVIOUS
    <3>1. WindowBounds(admitted, clock, w.start, w.count)
      BY <1>6, <2>2 DEF LimiterInv, HitsBounded
    <3> QED
      BY <1>1, <1>6, <2>2, <3>1, BoundsHit
  <2>4. HitsBounded'
    BY <1>2, <2>1, <2>2, <2>3 DEF HitsBounded
  <2>5. clock - w.start <= Oldest => Since(admitted, clock, w.start) >= w.count
    BY <1>6, <2>2 DEF LimiterInv, CountIsOfHits
  <2>6. /\ Since(admitted, clock, w.start) \in Nat
        /\ Since(admitted', clock, w.start) \in Nat
        /\ Since(admitted', clock, w.start) >=
             Lesser(Since(admitted, clock, w.start) + 1, Limit)
    BY <1>1, <1>6, <2>2, HitCounts
  <2>7. clock - w.start <= Oldest =>
          Since(admitted', clock, w.start) >= w.count + 1
    BY <1>1, <1>6, <2>5, <2>6, Numbers DEF Lesser
  <2>8. CountIsOfHits'
    <3>1. w.count + 1 >= 1
      BY <1>1, <1>6
    <3>2. clock - w.start <= Oldest =>
            Since(admitted', clock, w.start) >= Lesser(w.count + 1, Limit)
      BY <2>2, <2>7
    <3> QED
      BY <1>2, <2>1, <3>1, <3>2 DEF CountIsOfHits
  <2> QED
    BY <1>4, <2>4, <2>8
<1>7. CASE /\ call[h].bucket = Watched
           /\ w # Untracked
           /\ now - w.start < Window
           /\ w.count >= Limit
           /\ \E n \in Nat : n >= Limit /\ windows'[Watched] = [w EXCEPT !.count = n]
           /\ admitted' = admitted
  <2>1. PICK n \in Nat : n >= Limit /\ windows'[Watched] = [w EXCEPT !.count = n]
    BY <1>7
  <2>2. /\ windows'[Watched] # Untracked
        /\ windows'[Watched].start = w.start
        /\ windows'[Watched].count = n
    <3>1. windows'[Watched] \in [start: Nat, count: Nat]
      BY <1>1, <1>7, <2>1 DEF WindowType
    <3>2. windows'[Watched] # Untracked
      BY <3>1, LimiterAssumption
    <3> QED
      BY <1>1, <1>7, <2>1, <3>2 DEF WindowType
  <2>3. Lesser(n, Limit) = Limit /\ Lesser(w.count, Limit) = Limit /\ n >= 1
    BY <1>1, <1>7, <2>1, Numbers DEF Lesser
  <2>4. HitsBounded'
    BY <1>2, <1>7, <2>2, <2>3 DEF LimiterInv, HitsBounded
  <2>5. CountIsOfHits'
    BY <1>2, <1>7, <2>2, <2>3 DEF LimiterInv, CountIsOfHits
  <2> QED
    BY <1>4, <2>4, <2>5
<1>8. CASE /\ call[h].bucket = Watched
           /\ windows'[Watched] = [start |-> now, count |-> 1]
           /\ IsHit(admitted, admitted')
           /\ \/ forgotten'
              \/ w = Untracked
              \/ clock >= Passed(w)
              \/ now - w.start >= Window
  <2>1. /\ windows'[Watched] # Untracked
        /\ windows'[Watched].start = now
        /\ windows'[Watched].count = 1
        /\ Lesser(1, Limit) = 1
    <3>1. windows'[Watched] \in [start: Nat, count: Nat]
      BY <1>3, <1>8
    <3> QED
      BY <1>8, <3>1, LimiterAssumption, Numbers DEF Lesser
  <2>2. ASSUME ~forgotten'
        PROVE  WindowBounds(admitted', clock, now, 1)
    <3>1. ~forgotten
      BY <1>2, <2>2
    <3>2. PICK s \in Int : /\ s + Window <= now
                           /\ WindowBounds(admitted, clock, s, Limit)
      BY <1>3, <1>8, <2>2, <3>1, ReadyToOpen
    <3> QED
      BY <1>1, <1>3, <1>8, <3>2, BoundsOpen
  <2>3. HitsBounded'
    BY <1>2, <2>1, <2>2 DEF HitsBounded
  <2>4. Since(admitted', clock, now) >= 1
    <3>1. /\ Since(admitted, clock, now) \in Nat
          /\ Since(admitted', clock, now) \in Nat
          /\ Since(admitted', clock, now) >=
               Lesser(Since(admitted, clock, now) + 1, Limit)
      <4>1. clock \in Int /\ now \in Int
        BY <1>1, <1>3
      <4> QED
        BY <1>1, <1>3, <1>8, <4>1, HitCounts
    <3> QED
      BY <3>1, Numbers DEF Lesser
  <2>5. CountIsOfHits'
    BY <1>2, <2>1, <2>4 DEF CountIsOfHits
  <2> QED
    BY <1>4, <2>3, <2>5
<1> QED
  BY <1>5, <1>6, <1>7, <1>8, CountOfWatched

LEMMA TickLimiterInv ==
  ASSUME LimiterInv, Tick, TypeOK'
  PROVE  LateInv' /\ HitsBounded' /\ CountIsOfHits'
<1> DEFINE w == windows[Watched]
<1>1. /\ admitted \in Counts /\ admitted' \in Counts /\ clock \in Nat
      /\ w # Untracked => w.start \in Nat /\ w.count \in Nat
  <2>1. admitted' \in Counts
    BY BudgetIsNumber DEF TypeOK, Counts
  <2> QED
    BY <2>1, TypedState DEF LimiterInv
<1>2. /\ clock' = clock + 1
      /\ windows' = windows /\ call' = call /\ forgotten' = forgotten
      /\ admitted' = [a \in Ages |-> IF a = 0 THEN 0 ELSE admitted[a - 1]]
      /\ \A h \in Threads : call[h] # Idle => clock < call[h].now + MaxDelay
  BY DEF Tick
<1>3. LateInv'
  <2>1. \A h \in Threads : call[h] # Idle => call[h].now \in Nat
    BY TypedState DEF LimiterInv
  <2> QED
    BY <1>1, <1>2, <2>1, Numbers DEF LateInv
<1>4. HitsBounded'
  <2>1. CASE w = Untracked
    <3>1. ~forgotten => WindowBounds(admitted, clock, clock - Oldest, Limit)
      BY <2>1 DEF LimiterInv, HitsBounded
    <3>2. /\ clock \in Int /\ clock - Oldest \in Int /\ clock + 1 - Oldest \in Int
          /\ clock - Oldest <= clock + 1 - Oldest /\ Limit \in Int /\ Limit <= Limit
          /\ clock + 1 \in Int
      BY <1>1, Numbers
    <3>3. ~forgotten => WindowBounds(admitted', clock + 1, clock - Oldest, Limit)
      BY <1>1, <1>2, <3>1, <3>2, BoundsTick
    <3>4. ~forgotten => WindowBounds(admitted', clock + 1, clock + 1 - Oldest, Limit)
      BY <1>1, <3>2, <3>3, BoundsRelax
    <3>5. ~forgotten' => WindowBounds(admitted', clock', clock' - Oldest, Limit)
      <4>1. clock' = clock + 1 /\ clock' - Oldest = clock + 1 - Oldest
        BY <1>1, <1>2, Numbers
      <4> QED
        BY <1>2, <3>4, <4>1
    <3> QED
      BY <1>2, <2>1, <3>5 DEF HitsBounded
  <2>2. CASE w # Untracked
    <3>1. ~forgotten =>
            WindowBounds(admitted, clock, w.start, Lesser(w.count, Limit))
      BY <2>2 DEF LimiterInv, HitsBounded
    <3>2. clock \in Int /\ w.start \in Int /\ Lesser(w.count, Limit) \in Int
      BY <1>1, <2>2, Numbers DEF Lesser
    <3>3. ~forgotten =>
            WindowBounds(admitted', clock + 1, w.start, Lesser(w.count, Limit))
      BY <1>1, <1>2, <3>1, <3>2, BoundsTick
    <3> QED
      BY <1>2, <2>2, <3>3 DEF HitsBounded
  <2> QED
    BY <2>1, <2>2
<1>5. CountIsOfHits'
  <2> SUFFICES ASSUME w # Untracked
               PROVE  /\ w.count >= 1
                      /\ clock + 1 - w.start <= Oldest =>
                           Since(admitted', clock + 1, w.start) >=
                             Lesser(w.count, Limit)
    <3>1. clock' = clock + 1 /\ windows'[Watched] = w
      BY <1>2
    <3>2. w # Untracked => clock' - w.start = clock + 1 - w.start
      BY <1>1, <3>1
    <3> QED
      BY <3>1, <3>2 DEF CountIsOfHits
  <2>1. /\ w.count >= 1
        /\ clock - w.start <= Oldest =>
             Since(admitted, clock, w.start) >= Lesser(w.count, Limit)
    BY DEF LimiterInv, CountIsOfHits
  <2>2. clock + 1 - w.start <= Oldest =>
          /\ Since(admitted', clock + 1, w.start) = Since(admitted, clock, w.start)
          /\ clock - w.start <= Oldest
    <3>1. clock \in Int /\ w.start \in Int
      BY <1>1
    <3>2. clock + 1 - w.start <= Oldest =>
            Since(admitted', clock + 1, w.start) = Since(admitted, clock, w.start)
      BY <1>1, <1>2, <3>1, SinceTick
    <3> QED
      BY <3>1, <3>2, Numbers
  <2> QED
    BY <2>1, <2>2
<1> QED
  BY <1>3, <1>4, <1>5

LEMMA NextLimiterInv == LimiterInv /\ [Next]_vars => LimiterInv'
<1> SUFFICES ASSUME LimiterInv, [Next]_vars PROVE LimiterInv'
  OBVIOUS
<1>1. TypeOK' /\ PastInv'
  BY NextTypeOK DEF LimiterInv
<1>2. CASE UNCHANGED vars
  BY <1>1, <1>2 DEF vars, LimiterInv, LateInv, HitsBounded, CountIsOfHits
<1>3. ASSUME NEW h \in Threads, ReadClock(h)
      PROVE  LimiterInv'
  <2>1. UNCHANGED <<clock, windows, checks, admitted, forgotten>>
    BY <1>3 DEF ReadClock
  <2>2. \A g \in Threads : call'[g] # Idle =>
          call'[g] = call[g] \/ call'[g].now = clock
    BY <1>3 DEF ReadClock, LimiterInv, TypeOK
  <2>3. LateInv'
    BY <2>1, <2>2, TypedState, Numbers DEF LimiterInv, LateInv
  <2> QED
    BY <1>1, <2>1, <2>3 DEF LimiterInv, HitsBounded, CountIsOfHits
<1>4. ASSUME NEW h \in Threads, Count(h)
      PROVE  LimiterInv'
  BY <1>1, <1>4, CountLimiterInv DEF LimiterInv
<1>5. CASE Tick
  BY <1>1, <1>5, TickLimiterInv DEF LimiterInv
<1> QED
  BY <1>2, <1>3, <1>4, <1>5 DEF Next

LEMMA LimiterInvBudget == LimiterInv => BudgetHolds
<1> SUFFICES ASSUME LimiterInv, ~forgotten
             PROVE  RunningSum(admitted)[Window - 1] <= Budget
  BY DEF BudgetHolds, AdmittedLast
<1> DEFINE w == windows[Watched]
<1>1. /\ admitted \in Counts /\ clock \in Int /\ clock \in Nat
      /\ w # Untracked => w.start \in Nat /\ w.count \in Nat /\ w.start <= clock
  BY TypedState DEF LimiterInv
<1>2. CASE w = Untracked
  <2>1. WindowBounds(admitted, clock, clock - Oldest, Limit)
    BY <1>2 DEF LimiterInv, HitsBounded
  <2>2. clock - Oldest \in Int /\ clock - Oldest <= clock
    BY <1>1, Numbers
  <2> QED
    BY <1>1, <2>1, <2>2, BoundsBudget
<1>3. CASE w # Untracked
  <2>1. WindowBounds(admitted, clock, w.start, Lesser(w.count, Limit))
    BY <1>3 DEF LimiterInv, HitsBounded
  <2>2. /\ Lesser(w.count, Limit) \in Int /\ Lesser(w.count, Limit) <= Limit
        /\ w.start \in Int /\ w.start <= w.start /\ Limit \in Int
    BY <1>1, <1>3, Numbers DEF Lesser
  <2>3. WindowBounds(admitted, clock, w.start, Limit)
    BY <1>1, <2>1, <2>2, BoundsRelax
  <2> QED
    BY <1>1, <1>3, <2>2, <2>3, BoundsBudget
<1> QED
  BY <1>2, <1>3

(* However many threads race, however late they get the lock, and whatever  *)
(* is evicted or cleaned up: no bucket gets more hits through in a stretch  *)
(* of time as long as a window than twice its limit, or just less than      *)
(* three times when a call may be two ticks late, unless its window was     *)
(* evicted while a call could still count in it.                            *)
THEOREM BudgetIsKept == Spec => []BudgetHolds
BY InitLimiterInv, NextLimiterInv, LimiterInvBudget, PTL DEF Spec

(* What a refusal takes.                                                    *)
Refused(h) ==
  /\ call[h] # Idle
  /\ call[h].bucket = Watched
  /\ call'[h] = Idle
  /\ admitted' = admitted

LEMMA RefusedIsOverLimit ==
  ASSUME LimiterInv, [Next]_vars, NEW h \in Threads, Refused(h)
  PROVE  AdmittedLast(Window + MaxDelay + 1) >= Limit
<1> DEFINE w == windows[Watched]
<1>1. Count(h)
  <2>1. CASE UNCHANGED vars
    BY <2>1 DEF vars, Refused
  <2>2. ASSUME NEW g \in Threads, ReadClock(g)
        PROVE  FALSE
    <3>1. call'[h] # Idle
      <4>1. PICK b \in Buckets : call' =
              [call EXCEPT ![g] = [at |-> "lock", bucket |-> b, now |-> clock]]
        BY <2>2 DEF ReadClock
      <4>2. [at |-> "lock", bucket |-> Watched, now |-> clock].at # Idle.at
        BY DEF Idle
      <4>3. g # h
        BY <2>2 DEF ReadClock, Refused
      <4> QED
        BY <4>1, <4>3 DEF Refused, LimiterInv, TypeOK
    <3> QED
      BY <3>1 DEF Refused
  <2>3. ASSUME NEW g \in Threads, Count(g), g # h
        PROVE  FALSE
    BY <2>3 DEF Count, Refused, LimiterInv, TypeOK
  <2>4. CASE Tick
    BY <2>4 DEF Tick, Refused
  <2> QED
    BY <2>1, <2>2, <2>3, <2>4 DEF Next
<1>2. /\ admitted \in Counts /\ clock \in Nat /\ call[h].now \in Nat
      /\ call[h].now <= clock /\ clock <= call[h].now + MaxDelay
      /\ w # Untracked => w.start \in Nat /\ w.count \in Nat /\ w.start <= clock
  BY TypedState DEF LimiterInv, PastInv, LateInv, Refused
<1>3. AdmittedLast(Window + MaxDelay + 1) = RunningSum(admitted)[Oldest]
  <2>1. (Window + MaxDelay + 1) - 1 = Oldest
    BY Numbers
  <2> QED
    BY <2>1 DEF AdmittedLast
<1>4. \A t \in Int : Since(admitted, clock, t) <= RunningSum(admitted)[Oldest]
  <2>1. /\ Since(admitted, clock, clock - Oldest) = RunningSum(admitted)[Oldest]
    <3>1. clock - (clock - Oldest) = Oldest /\ ~(clock - Oldest > clock)
      BY <1>2, Numbers
    <3> QED
      BY <3>1, Numbers DEF Since
  <2> TAKE t \in Int
  <2>2. CASE clock - Oldest <= t
    BY <1>2, <2>1, <2>2, SinceFalls, Numbers
  <2>3. CASE ~(clock - Oldest <= t)
    <3>1. ~(t > clock) /\ ~(clock - t <= Oldest)
      BY <1>2, <2>3, Numbers
    <3>2. Since(admitted, clock, t) = RunningSum(admitted)[Oldest]
      BY <3>1 DEF Since
    <3>3. Since(admitted, clock, t) \in Nat
      BY <1>2, SinceFalls
    <3> QED
      BY <3>2, <3>3
  <2> QED
    BY <2>2, <2>3
<1>5. Since(admitted, clock, clock) \in Nat /\ RunningSum(admitted)[Oldest] \in Nat
  <2>1. RunningSum(admitted) \in [0..Oldest -> Nat] /\ Oldest \in 0..Oldest
    BY <1>2, RunningSumIs, Numbers DEF IsRunningSum
  <2> QED
    BY <1>2, <2>1, SinceFalls
<1>6. CASE IsHit(admitted, admitted')
  <2>1. Since(admitted, clock, clock) >= Lesser(Since(admitted, clock, clock) + 1, Limit)
    BY <1>2, <1>6, HitCounts DEF Refused
  <2>2. Since(admitted, clock, clock) >= Limit
    BY <1>5, <2>1, Numbers DEF Lesser
  <2>3. Since(admitted, clock, clock) <= RunningSum(admitted)[Oldest]
    BY <1>2, <1>4
  <2> QED
    BY <1>3, <1>5, <2>2, <2>3, Numbers
<1>7. CASE /\ w # Untracked
           /\ call[h].now - w.start < Window
           /\ w.count >= Limit
  <2>1. clock - w.start <= Oldest
    BY <1>2, <1>7, Numbers
  <2>2. Since(admitted, clock, w.start) >= Lesser(w.count, Limit)
    <3>1. CountIsOfHits
      BY DEF LimiterInv
    <3> QED
      BY <1>7, <2>1, <3>1 DEF CountIsOfHits
  <2>3. Lesser(w.count, Limit) = Limit
    <3>1. w.count \in Nat /\ w.count >= Limit
      BY <1>2, <1>7
    <3> HIDE DEF w
    <3> QED
      BY <3>1, Numbers DEF Lesser
  <2>4. /\ Since(admitted, clock, w.start) <= RunningSum(admitted)[Oldest]
        /\ Since(admitted, clock, w.start) \in Nat
    BY <1>2, <1>4, <1>7, SinceFalls
  <2> QED
    BY <1>3, <1>5, <2>2, <2>3, <2>4, Numbers
<1> QED
  BY <1>1, <1>6, <1>7, CountOfWatched DEF Refused

(* Nobody is refused without having had the full limit, within the last     *)
(* window and the delay of a thread.                                        *)
THEOREM RefusalIsEarned == Spec => RefusedOnlyOverLimit
<1>1. LimiterInv /\ [Next]_vars =>
        [\A h \in Threads :
           /\ call[h] # Idle
           /\ call[h].bucket = Watched
           /\ call'[h] = Idle
           /\ admitted' = admitted
           => AdmittedLast(Window + MaxDelay + 1) >= Limit]_vars
  BY RefusedIsOverLimit DEF Refused
<1> QED
  BY <1>1, InitLimiterInv, NextLimiterInv, PTL DEF Spec, RefusedOnlyOverLimit
=============================================================================
