----------------------------- MODULE RateLimiter -----------------------------
(***************************************************************************)
(* The fixed-window rate limiter every authenticated request passes,        *)
(* backend/app/security/rate_limit.py.  FastAPI runs the dependency in a    *)
(* thread pool: a thread reads the clock first and takes the lock later, so *)
(* the time it counts with may be old, and a younger call may have started  *)
(* a new window, evicted the key or cleaned it up in between.               *)
(***************************************************************************)
EXTENDS Integers, FiniteSets

CONSTANTS
  Buckets,       \* credentials with their scope, the keys of the windows
  Threads,       \* concurrent calls of check
  Limit,         \* hits a window admits
  Window,        \* _WINDOW_SECONDS, in ticks
  MaxEntries,    \* _MAX_WINDOW_ENTRIES
  Interval,      \* _CLEANUP_INTERVAL
  MaxDelay,      \* bound on the ticks a thread may wait for the lock
  MaxTime,       \* bound on the clock
  Watched,       \* the bucket whose hits are remembered, any of them
  Untracked      \* no window for that bucket

ASSUME LimiterAssumption ==
  /\ IsFiniteSet(Buckets)
  /\ Watched \in Buckets
  /\ Limit \in Nat \ {0}
  /\ Window \in Nat \ {0}
  /\ MaxEntries \in Nat \ {0}
  /\ Interval \in Nat \ {0}
  /\ MaxDelay \in 0..(Window - 1)
  /\ MaxTime \in Nat
  /\ Untracked \notin [start: Nat, count: Nat]

VARIABLES
  clock,      \* time.monotonic
  windows,    \* _windows: start and hits of each bucket
  checks,     \* _check_count modulo the cleanup interval
  call,       \* each thread's bucket and the time it read
  \* History, read by no action:
  admitted,   \* hits of the watched bucket let through, by ticks since
  forgotten   \* it was evicted while a call could count in its window

vars == <<clock, windows, checks, call, admitted, forgotten>>

Idle == [at |-> "idle"]
Times == 0..MaxTime

(* Ticks back to which hits are remembered.                                 *)
Ages == 0..(Window + MaxDelay)

(* Beyond the limit all counts are alike.                                   *)
Hits == 0..(Limit + 1)

CountHit(n) == IF n <= Limit THEN n + 1 ELSE n

(* A window admits Limit hits, and the hits of two windows may be less than *)
(* a window apart; of three, but for the hit that opened the first, when    *)
(* threads are delayed, as a window opens by the time its first call read   *)
(* and not by the time it is counted.                                       *)
Budget == IF MaxDelay <= 1 THEN 2 * Limit ELSE 3 * Limit - 1

Init ==
  /\ clock = 0
  /\ windows = [b \in Buckets |-> Untracked]
  /\ checks = 0
  /\ call = [h \in Threads |-> Idle]
  /\ admitted = [a \in Ages |-> 0]
  /\ forgotten = FALSE

Tracked == {b \in Buckets : windows[b] # Untracked}

(* The call of check up to the lock.                                        *)
ReadClock(h) ==
  /\ call[h] = Idle
  /\ \E b \in Buckets :
       call' = [call EXCEPT ![h] = [at |-> "lock", bucket |-> b, now |-> clock]]
  /\ UNCHANGED <<clock, windows, checks, admitted, forgotten>>

(* Faulty: more entries are tolerated than the cap.                         *)
LateOverfull == Cardinality(Tracked) > MaxEntries + 1

Overfull == Cardinality(Tracked) > MaxEntries

(* The older half goes, whatever is left of its windows.                    *)
OlderHalf(old) ==
  /\ Cardinality(old) = Cardinality(Tracked) \div 2
  /\ \A a \in old, b \in Tracked \ old : windows[a].start <= windows[b].start

Expired(now) == {b \in Tracked : now - windows[b].start >= 2 * Window}

CleanupDue == (checks + 1) % Interval = 0

(* What the locked section removes before it counts the hit.                *)
Removable(now) ==
  IF Overfull THEN {old \in SUBSET Tracked : OlderHalf(old)}
  ELSE IF CleanupDue THEN {Expired(now)}
  ELSE {{}}

(* Faulty: the hits of a passed window are counted on.                      *)
CurrentUnexpired(b, now, removed) ==
  IF b \in removed \/ windows[b] = Untracked
  THEN [start |-> now, count |-> 0]
  ELSE windows[b]

(* Faulty: a passed window starts over without moving.                      *)
CurrentUnmoved(b, now, removed) ==
  IF b \in removed \/ windows[b] = Untracked
  THEN [start |-> now, count |-> 0]
  ELSE IF now - windows[b].start >= Window
       THEN [windows[b] EXCEPT !.count = 0]
       ELSE windows[b]

(* The window a hit of bucket b is counted in.                              *)
Current(b, now, removed) ==
  IF \/ b \in removed
     \/ windows[b] = Untracked
     \/ now - windows[b].start >= Window
  THEN [start |-> now, count |-> 0]
  ELSE windows[b]

(* From this time on no call is so late that it still counts in the window. *)
Passed(window) == window.start + Window + MaxDelay

(* The locked section: remove, count, and admit or answer 429.              *)
Count(h) ==
  /\ call[h] # Idle
  /\ \E removed \in Removable(call[h].now) :
       LET b == call[h].bucket
           window == Current(b, call[h].now, removed)
           hits == CountHit(window.count)
       IN /\ windows' =
               [c \in Buckets |->
                  IF c = b THEN [window EXCEPT !.count = hits]
                  ELSE IF c \in removed THEN Untracked
                  ELSE windows[c]]
          /\ admitted' =
               IF b = Watched /\ hits <= Limit
               THEN [admitted EXCEPT ![0] = IF @ <= Budget THEN @ + 1 ELSE @]
               ELSE admitted
          /\ forgotten' =
               (forgotten \/ /\ Watched \in removed
                             /\ clock < Passed(windows[Watched]))
  /\ checks' = (checks + 1) % Interval
  /\ call' = [call EXCEPT ![h] = Idle]
  /\ UNCHANGED clock

(* Time passes; no thread waits longer than MaxDelay.                       *)
Tick ==
  /\ clock < MaxTime
  /\ \A h \in Threads : call[h] # Idle => clock < call[h].now + MaxDelay
  /\ clock' = clock + 1
  /\ admitted' = [a \in Ages |-> IF a = 0 THEN 0 ELSE admitted[a - 1]]
  /\ UNCHANGED <<windows, checks, call, forgotten>>

Next ==
  \/ \E h \in Threads : ReadClock(h) \/ Count(h)
  \/ Tick

Spec == Init /\ [][Next]_vars

-----------------------------------------------------------------------------
(* Properties.                                                              *)

(* State has its types, no window starts in the future, and the cap on      *)
(* tracked windows is overshot by one at most: the bucket that is counted   *)
(* after the eviction test.                                                 *)
TypeOK ==
  /\ clock \in Times
  /\ windows \in [Buckets -> {Untracked} \cup [start: Times, count: Hits]]
  /\ \A b \in Tracked : windows[b].start <= clock
  /\ checks \in 0..(Interval - 1)
  /\ call \in [Threads -> {Idle} \cup
                 [at: {"lock"}, bucket: Buckets, now: Times]]
  /\ admitted \in [Ages -> 0..(Budget + 1)]
  /\ forgotten \in BOOLEAN
  /\ Cardinality(Tracked) <= MaxEntries + 1

(* The sum of the values of f up to each.                                   *)
RunningSum(f) ==
  LET upTo[a \in DOMAIN f] == f[a] + IF a = 0 THEN 0 ELSE upTo[a - 1]
  IN upTo

(* Hits of the watched bucket let through in the last ticks, this included. *)
AdmittedLast(ticks) == RunningSum(admitted)[ticks - 1]

(* Unless its window was evicted while calls could count in it, no bucket   *)
(* gets more than its budget into any stretch of time as long as a window,  *)
(* however its calls are delayed and whenever the cleanup runs.             *)
BudgetHolds == forgotten \/ AdmittedLast(Window) <= Budget

(* A 429 is answered only to a bucket that had its full limit within the    *)
(* last window and the delay a thread may have: retrying against a full     *)
(* window never prolongs it.                                                *)
RefusedOnlyOverLimit ==
  [][\A h \in Threads :
       /\ call[h] # Idle
       /\ call[h].bucket = Watched
       /\ call'[h] = Idle
       /\ admitted' = admitted
       => AdmittedLast(Window + MaxDelay + 1) >= Limit]_vars

=============================================================================
