---------------------------- MODULE ColdStartProofs ----------------------------
(***************************************************************************)
(* Theorems about ColdStart for all actors, collaborators, keys and fields. *)
(***************************************************************************)
EXTENDS ColdStart, TLAPS

(* The blocks of a lock that an actor is in: one of its own cell, and that  *)
(* of the router around the document store's.                               *)
InBlock(a, l) == job[a].at \in {"check", "build"} /\ LockOf(job[a].cell) = l

Around(a, l) ==
  /\ job[a].at \in {"lock", "check", "build", "return"}
  /\ job[a].within
  /\ l = "singletons"

Held(a, l) ==
  (IF InBlock(a, l) THEN 1 ELSE 0) + (IF Around(a, l) THEN 1 ELSE 0)

LocksAreHeld ==
  \A l \in Locks :
    /\ holder[l] = Nobody => depth[l] = 0
    /\ \A a \in Actors :
         /\ holder[l] = a => depth[l] = Held(a, l) /\ Held(a, l) > 0
         /\ holder[l] # a => Held(a, l) = 0

JobInv(a) ==
  /\ job[a].at \in {"look", "lock", "check"} => job[a].got = 0
  /\ job[a].at \in {"look", "lock", "check", "build", "return"}
     /\ job[a].within =>
       /\ job[a].cell = "document_store"
       /\ "router" \in Cells
       /\ cell["router"] = 0
       /\ job[a].at # "look"
  /\ job[a].at = "build" =>
       /\ cell[job[a].cell] = 0
       /\ job[a].got # 0 => /\ job[a].cell = "router"
                            /\ job[a].got = cell["document_store"]
  /\ job[a].at = "return" => cell[job[a].cell] # 0
  /\ job[a].at = "use" => /\ job[a].cell = "api_key_store"
                          /\ job[a].got = cell["api_key_store"]
                          /\ job[a].got # 0

CellInv == TypeOK /\ LocksAreHeld /\ \A a \in Actors : JobInv(a)

(* What a job is follows from the step it is at.                            *)
LEMMA JobKinds ==
  ASSUME TypeOK, NEW a \in Actors
  PROVE  /\ job[a].at \in {"look", "lock", "check", "build", "return", "use"}
              => /\ job[a] \in CellJob
                 /\ job[a].cell \in Cells
                 /\ job[a].within \in BOOLEAN
                 /\ job[a].got \in Nat
                 /\ LockOf(job[a].cell) \in Locks
         /\ job[a].at \in {"exists", "create", "verify", "index"}
              => job[a] \in RunJob /\ job[a].done \in SUBSET Fields
         /\ job[a] = Idle => job[a].at = "idle"
<1>1. job[a] \in {Idle} \cup CellJob \cup RunJob
  BY DEF TypeOK
<1>2. Idle.at = "idle"
  BY DEF Idle
<1>3. ASSUME job[a] \in CellJob
      PROVE  /\ job[a].at \notin {"idle", "exists", "create", "verify", "index"}
             /\ job[a].cell \in Cells
             /\ job[a].within \in BOOLEAN
             /\ job[a].got \in Nat
  BY <1>3 DEF CellJob
<1>4. ASSUME job[a] \in RunJob
      PROVE  /\ job[a].at \in {"exists", "create", "verify", "index"}
             /\ job[a].done \in SUBSET Fields
  BY <1>4 DEF RunJob
<1> QED
  BY <1>1, <1>2, <1>3, <1>4 DEF Locks

(* A step gives one actor another job and leaves the others theirs.         *)
LEMMA NewJob ==
  ASSUME TypeOK, NEW a \in Actors, NEW j, job' = [job EXCEPT ![a] = j]
  PROVE  /\ job'[a] = j
         /\ \A b \in Actors \ {a} : job'[b] = job[b]
         /\ j \in {Idle} \cup CellJob \cup RunJob =>
              job' \in [Actors -> {Idle} \cup CellJob \cup RunJob]
BY DEF TypeOK

(* Moving a job to another of its steps.                                    *)
LEMMA Advanced ==
  ASSUME TypeOK, NEW a \in Actors, NEW s, Advance(a, s)
  PROVE  /\ job[a] \in CellJob
            /\ s \in {"look", "lock", "check", "build", "return", "use"} =>
              /\ job'[a] \in CellJob
              /\ job'[a].at = s
              /\ job'[a].cell = job[a].cell
              /\ job'[a].within = job[a].within
              /\ job'[a].got = job[a].got
         /\ job[a] \in RunJob
            /\ s \in {"exists", "create", "verify", "index"} =>
              /\ job'[a] \in RunJob
              /\ job'[a].at = s
              /\ job'[a].done = job[a].done
         /\ \A b \in Actors \ {a} : job'[b] = job[b]
         /\ job'[a] \in CellJob \cup RunJob =>
              job' \in [Actors -> {Idle} \cup CellJob \cup RunJob]
<1>1. job' = [job EXCEPT ![a] = [job[a] EXCEPT !.at = s]]
  BY DEF Advance
<1>2. job'[a] = [job[a] EXCEPT !.at = s]
  BY <1>1, NewJob
<1>3. ASSUME job[a] \in CellJob,
             s \in {"look", "lock", "check", "build", "return", "use"}
      PROVE  /\ job'[a] \in CellJob
             /\ job'[a].at = s
             /\ job'[a].cell = job[a].cell
             /\ job'[a].within = job[a].within
             /\ job'[a].got = job[a].got
  BY <1>2, <1>3 DEF CellJob
<1>4. ASSUME job[a] \in RunJob, s \in {"exists", "create", "verify", "index"}
      PROVE  /\ job'[a] \in RunJob
             /\ job'[a].at = s
             /\ job'[a].done = job[a].done
  BY <1>2, <1>4 DEF RunJob
<1>5. \A b \in Actors \ {a} : job'[b] = job[b]
  BY <1>1, NewJob
<1>6. job'[a] \in CellJob \cup RunJob =>
        job' \in [Actors -> {Idle} \cup CellJob \cup RunJob]
  BY <1>1, <1>2, NewJob
<1> QED
  BY <1>3, <1>4, <1>5, <1>6

LEMMA Finished ==
  ASSUME TypeOK, NEW a \in Actors, Finish(a)
  PROVE  /\ job'[a] = Idle
         /\ job'[a].at = "idle"
         /\ \A b \in Actors \ {a} : job'[b] = job[b]
         /\ job' \in [Actors -> {Idle} \cup CellJob \cup RunJob]
BY NewJob DEF Finish, Idle

(* A job an actor is given counts for the locks by its fields alone.        *)
LEMMA OthersHold ==
  ASSUME NEW b \in Actors, job'[b] = job[b], NEW l
  PROVE  Held(b, l)' = Held(b, l)
BY DEF Held, InBlock, Around

-----------------------------------------------------------------------------
(* Locks.                                                                   *)

LEMMA LocksKept ==
  ASSUME LocksAreHeld, NEW a \in Actors,
         \A b \in Actors \ {a} : job'[b] = job[b],
         UNCHANGED <<holder, depth>>,
         \A l \in Locks : Held(a, l)' = Held(a, l)
  PROVE  LocksAreHeld'
<1>1. \A b \in Actors, l \in Locks : Held(b, l)' = Held(b, l)
  BY OthersHold
<1> QED
  BY <1>1 DEF LocksAreHeld

LEMMA LockTaken ==
  ASSUME TypeOK, LocksAreHeld, NEW a \in Actors, NEW l \in Locks,
         holder[l] \in {Nobody, a},
         holder' = [holder EXCEPT ![l] = a],
         depth' = [depth EXCEPT ![l] = @ + 1],
         \A b \in Actors \ {a} : job'[b] = job[b],
         Held(a, l)' = Held(a, l) + 1,
         \A k \in Locks \ {l} : Held(a, k)' = Held(a, k)
  PROVE  LocksAreHeld'
<1>1. \A b \in Actors \ {a}, k \in Locks : Held(b, k)' = Held(b, k)
  BY OthersHold
<1>2. \A b \in Actors, k \in Locks : Held(b, k) \in 0..2
  BY DEF Held
<1>3. depth[l] = Held(a, l)
  BY ConstantsAssumption DEF LocksAreHeld
<1>4. depth'[l] = Held(a, l)' /\ Held(a, l)' > 0 /\ holder'[l] = a
  BY <1>2, <1>3 DEF TypeOK
<1>5. \A b \in Actors \ {a} : Held(b, l)' = 0
  BY <1>1, ConstantsAssumption DEF LocksAreHeld
<1>6. \A k \in Locks \ {l} : holder'[k] = holder[k] /\ depth'[k] = depth[k]
  BY DEF TypeOK
<1> QED
  BY <1>1, <1>4, <1>5, <1>6, ConstantsAssumption DEF LocksAreHeld

LEMMA LockLeft ==
  ASSUME TypeOK, LocksAreHeld, NEW a \in Actors, NEW l \in Locks, NEW n \in Nat,
         Held(a, l) > 0,
         Release(l, n),
         \A b \in Actors \ {a} : job'[b] = job[b],
         Held(a, l)' = Held(a, l) - n,
         Held(a, l)' >= 0,
         \A k \in Locks \ {l} : Held(a, k)' = Held(a, k)
  PROVE  /\ LocksAreHeld'
         /\ holder' \in [Locks -> Actors \cup {Nobody}]
         /\ depth' \in [Locks -> 0..2]
<1>1. \A b \in Actors \ {a}, k \in Locks : Held(b, k)' = Held(b, k)
  BY OthersHold
<1>2. Held(a, l) \in 0..2 /\ Held(a, l)' \in 0..2
  BY DEF Held
<1>3. holder[l] = a /\ depth[l] = Held(a, l)
  BY <1>2 DEF LocksAreHeld
<1>4. depth' = [depth EXCEPT ![l] = Held(a, l)']
  BY <1>3 DEF Release
<1>5. holder' = IF Held(a, l)' = 0 THEN [holder EXCEPT ![l] = Nobody] ELSE holder
  BY <1>2, <1>3 DEF Release
<1>6. /\ depth'[l] = Held(a, l)'
      /\ Held(a, l)' = 0 => holder'[l] = Nobody
      /\ Held(a, l)' # 0 => holder'[l] = a
  BY <1>3, <1>4, <1>5 DEF TypeOK
<1>7. \A k \in Locks \ {l} : holder'[k] = holder[k] /\ depth'[k] = depth[k]
  BY <1>4, <1>5 DEF TypeOK
<1>8. \A b \in Actors \ {a} : Held(b, l)' = 0
  BY <1>1, <1>3 DEF LocksAreHeld
<1>9. LocksAreHeld'
  BY <1>1, <1>2, <1>6, <1>7, <1>8, ConstantsAssumption DEF LocksAreHeld
<1>10. holder' \in [Locks -> Actors \cup {Nobody}]
  BY <1>5 DEF TypeOK
<1>11. depth' \in [Locks -> 0..2]
  BY <1>2, <1>4 DEF TypeOK
<1> QED
  BY <1>9, <1>10, <1>11

(* Of a collaborator that is being built, one actor at most is the builder. *)
LEMMA OneBuilder ==
  ASSUME LocksAreHeld, NEW a \in Actors, NEW b \in Actors, a # b,
         NEW l \in Locks, Held(a, l) > 0
  PROVE  Held(b, l) = 0
BY DEF LocksAreHeld

-----------------------------------------------------------------------------
(* Each step keeps the types and the locks.                                 *)

(* A step that touches no lock, cell or history of one, of an actor that is *)
(* in no block before or after, or in the same.                             *)
LEMMA AsideKeeps ==
  ASSUME CellInv, NEW a \in Actors,
         \A b \in Actors \ {a} : job'[b] = job[b],
         job' \in [Actors -> {Idle} \cup CellJob \cup RunJob],
         UNCHANGED <<cell, parts, holder, depth, built>>,
         handed' \subseteq Cells \X Nat,
         \A l \in Locks : Held(a, l)' = Held(a, l),
         JobInv(a)',
         records' \subseteq Nat \X Keys \X {KeyOwner[k] : k \in Keys},
         issued' \subseteq Keys,
         collection' \in {"absent", "fits", "misfits"},
         indexes' \subseteq Fields,
         reported' \in BOOLEAN
  PROVE  CellInv'
<1>1. TypeOK'
  BY DEF CellInv, TypeOK
<1>2. LocksAreHeld'
  BY LocksKept DEF CellInv
<1>3. ASSUME NEW b \in Actors, b # a
      PROVE  JobInv(b)'
  BY <1>3 DEF CellInv, JobInv
<1> QED
  BY <1>1, <1>2, <1>3 DEF CellInv

LEMMA CallKeeps ==
  ASSUME CellInv, NEW a \in Actors, NEW c \in Cells, Call(a, c)
  PROVE  CellInv'
<1> DEFINE j == [at |-> FirstLook(c), cell |-> c, within |-> FALSE, got |-> 0]
<1>1. j \in CellJob /\ j.at \in {"look", "lock"}
  BY DEF FirstLook, CellJob
<1>2. /\ job[a] = Idle
      /\ job' = [job EXCEPT ![a] = j]
      /\ UNCHANGED <<process, keyring, qdrant>>
  BY DEF Call
<1>3. /\ job'[a] = j
      /\ \A b \in Actors \ {a} : job'[b] = job[b]
      /\ job' \in [Actors -> {Idle} \cup CellJob \cup RunJob]
  BY <1>1, <1>2, NewJob DEF CellInv
<1>4. job[a].at = "idle" /\ job'[a].within = FALSE /\ job'[a].got = 0
  BY <1>2, <1>3 DEF Idle
<1>5. \A l \in Locks : Held(a, l) = 0 /\ Held(a, l)' = 0
  BY <1>1, <1>3, <1>4 DEF Held, InBlock, Around
<1>6. JobInv(a)'
  BY <1>1, <1>3, <1>4 DEF JobInv
<1> QED
  BY <1>2, <1>3, <1>5, <1>6, AsideKeeps
  DEF process, keyring, qdrant, CellInv, TypeOK

LEMMA LookKeeps ==
  ASSUME CellInv, NEW a \in Actors, Look(a)
  PROVE  CellInv'
<1> DEFINE s == IF cell[job[a].cell] # 0 THEN "return" ELSE "lock"
<1>1. /\ job[a].at = "look"
      /\ Advance(a, s)
      /\ UNCHANGED <<process, keyring, qdrant>>
  BY DEF Look
<1>2. s \in {"return", "lock"}
  OBVIOUS
<1>3. /\ job[a] \in CellJob
      /\ job[a].cell \in Cells
      /\ ~job[a].within
      /\ job[a].got = 0
  BY <1>1, JobKinds DEF CellInv, JobInv
<1>4. /\ job'[a] \in CellJob
      /\ job'[a].at = s
      /\ job'[a].cell = job[a].cell
      /\ ~job'[a].within
      /\ job'[a].got = 0
      /\ \A b \in Actors \ {a} : job'[b] = job[b]
      /\ job' \in [Actors -> {Idle} \cup CellJob \cup RunJob]
  BY <1>1, <1>2, <1>3, Advanced DEF CellInv
<1>5. \A l \in Locks : Held(a, l) = 0 /\ Held(a, l)' = 0
  BY <1>1, <1>2, <1>3, <1>4 DEF Held, InBlock, Around
<1>6. JobInv(a)'
  BY <1>1, <1>2, <1>4 DEF JobInv, process
<1> QED
  BY <1>1, <1>4, <1>5, <1>6, AsideKeeps
  DEF process, keyring, qdrant, CellInv, TypeOK

LEMMA AcquireKeeps ==
  ASSUME CellInv, NEW a \in Actors, Acquire(a)
  PROVE  CellInv'
<1> DEFINE l == LockOf(job[a].cell)
<1>1. /\ job[a].at = "lock"
      /\ holder[l] \in {Nobody, a}
      /\ holder' = [holder EXCEPT ![l] = a]
      /\ depth' = [depth EXCEPT ![l] = @ + 1]
      /\ Advance(a, "check")
      /\ UNCHANGED <<cell, parts, built, handed, keyring, qdrant>>
  BY DEF Acquire
<1>2. /\ job[a] \in CellJob
      /\ job[a].cell \in Cells
      /\ l \in Locks
      /\ job[a].got = 0
      /\ job[a].within \in BOOLEAN
  BY <1>1, JobKinds DEF CellInv, JobInv
<1>3. /\ job'[a] \in CellJob
      /\ job'[a].at = "check"
      /\ job'[a].cell = job[a].cell
      /\ job'[a].within = job[a].within
      /\ job'[a].got = 0
      /\ \A b \in Actors \ {a} : job'[b] = job[b]
      /\ job' \in [Actors -> {Idle} \cup CellJob \cup RunJob]
  BY <1>1, <1>2, Advanced DEF CellInv
<1>4. /\ Held(a, l)' = Held(a, l) + 1
      /\ \A k \in Locks \ {l} : Held(a, k)' = Held(a, k)
  BY <1>1, <1>2, <1>3 DEF Held, InBlock, Around
<1>5. LocksAreHeld'
  BY <1>1, <1>2, <1>3, <1>4, LockTaken DEF CellInv
<1>6. depth[l] = Held(a, l) /\ Held(a, l) \in 0..1
  <2>1. Held(a, l) \in 0..1
    BY <1>1 DEF Held, InBlock
  <2>2. a # Nobody
    BY ConstantsAssumption
  <2>3. depth[l] = Held(a, l)
    <3> HIDE DEF l
    <3> QED
      BY <1>1, <1>2, <2>1, <2>2 DEF CellInv, LocksAreHeld
  <2> QED
    BY <2>1, <2>3
<1>7. depth' \in [Locks -> 0..2] /\ holder' \in [Locks -> Actors \cup {Nobody}]
  <2>1. depth[l] + 1 \in 0..2
    BY <1>6
  <2> HIDE DEF l
  <2> QED
    BY <1>1, <2>1 DEF CellInv, TypeOK
<1>8. TypeOK'
  BY <1>1, <1>3, <1>7 DEF CellInv, TypeOK, keyring, qdrant
<1>9. JobInv(a)'
  BY <1>1, <1>2, <1>3 DEF CellInv, JobInv
<1>10. ASSUME NEW b \in Actors, b # a
       PROVE  JobInv(b)'
  BY <1>1, <1>3, <1>10 DEF CellInv, JobInv
<1> QED
  BY <1>5, <1>8, <1>9, <1>10 DEF CellInv

(* A step that leaves n blocks of the lock of its cell.                     *)
LEMMA LeavingKeeps ==
  ASSUME CellInv, NEW a \in Actors,
         NEW l \in Locks, l = LockOf(job[a].cell),
         job[a].at \in {"check", "build"},
         NEW n \in Nat, n <= Held(a, l),
         Release(l, n),
         \A b \in Actors \ {a} : job'[b] = job[b],
         job' \in [Actors -> {Idle} \cup CellJob \cup RunJob],
         Held(a, l)' = Held(a, l) - n,
         \A k \in Locks \ {l} : Held(a, k)' = Held(a, k),
         cell' \in [Cells -> Nat],
         parts' \in [Cells -> SUBSET (Cells \X Nat)],
         built' \in [Cells -> Nat],
         UNCHANGED <<handed, keyring, qdrant>>,
         \A b \in Actors : JobInv(b)'
  PROVE  CellInv'
<1>1. Held(a, l) > 0 /\ Held(a, l) \in 0..2
  BY DEF Held, InBlock
<1>2. Held(a, l)' >= 0
  BY <1>1
<1>3. /\ LocksAreHeld'
      /\ holder' \in [Locks -> Actors \cup {Nobody}]
      /\ depth' \in [Locks -> 0..2]
  BY <1>1, <1>2, LockLeft DEF CellInv
<1>4. TypeOK'
  BY <1>3 DEF CellInv, TypeOK, keyring, qdrant
<1> QED
  BY <1>3, <1>4 DEF CellInv

LEMMA FoundKeeps ==
  ASSUME CellInv, NEW a \in Actors, Found(a)
  PROVE  CellInv'
<1>0. PICK l \in Locks : l = LockOf(job[a].cell)
  BY JobKinds DEF Found, CellInv
<1>1. /\ job[a].at = "check"
      /\ cell[job[a].cell] # 0
      /\ Release(l, 1)
      /\ Advance(a, "return")
      /\ UNCHANGED <<cell, parts, built, handed, keyring, qdrant>>
  BY <1>0 DEF Found
<1>2. /\ job[a] \in CellJob
      /\ job[a].cell \in Cells
      /\ job[a].got = 0
      /\ job[a].within \in BOOLEAN
  BY <1>1, JobKinds DEF CellInv, JobInv
<1>3. /\ job'[a] \in CellJob
      /\ job'[a].at = "return"
      /\ job'[a].cell = job[a].cell
      /\ job'[a].within = job[a].within
      /\ \A b \in Actors \ {a} : job'[b] = job[b]
      /\ job' \in [Actors -> {Idle} \cup CellJob \cup RunJob]
  BY <1>1, <1>2, Advanced DEF CellInv
<1>4. /\ Held(a, l)' = Held(a, l) - 1
      /\ Held(a, l) >= 1
      /\ \A k \in Locks \ {l} : Held(a, k)' = Held(a, k)
  BY <1>0, <1>1, <1>2, <1>3 DEF Held, InBlock, Around
<1>5. JobInv(a)'
  BY <1>1, <1>2, <1>3 DEF CellInv, JobInv
<1>6. ASSUME NEW b \in Actors, b # a
      PROVE  JobInv(b)'
  BY <1>1, <1>3, <1>6 DEF CellInv, JobInv
<1>7. \A b \in Actors : JobInv(b)'
  BY <1>5, <1>6
<1>8. /\ cell' \in [Cells -> Nat]
      /\ parts' \in [Cells -> SUBSET (Cells \X Nat)]
      /\ built' \in [Cells -> Nat]
  BY <1>1 DEF CellInv, TypeOK
<1> QED
  BY <1>0, <1>1, <1>3, <1>4, <1>7, <1>8, LeavingKeeps

LEMMA MissingKeeps ==
  ASSUME CellInv, NEW a \in Actors, Missing(a)
  PROVE  CellInv'
<1>1. /\ job[a].at = "check"
      /\ cell[job[a].cell] = 0
      /\ Advance(a, "build")
      /\ UNCHANGED <<process, keyring, qdrant>>
  BY DEF Missing
<1>2. /\ job[a] \in CellJob
      /\ job[a].got = 0
  BY <1>1, JobKinds DEF CellInv, JobInv
<1>3. /\ job'[a] \in CellJob
      /\ job'[a].at = "build"
      /\ job'[a].cell = job[a].cell
      /\ job'[a].within = job[a].within
      /\ job'[a].got = 0
      /\ \A b \in Actors \ {a} : job'[b] = job[b]
      /\ job' \in [Actors -> {Idle} \cup CellJob \cup RunJob]
  BY <1>1, <1>2, Advanced DEF CellInv
<1>4. \A l \in Locks : Held(a, l)' = Held(a, l)
  BY <1>1, <1>3 DEF Held, InBlock, Around
<1>5. JobInv(a)'
  BY <1>1, <1>2, <1>3 DEF CellInv, JobInv, process
<1> QED
  BY <1>1, <1>3, <1>4, <1>5, AsideKeeps
  DEF process, keyring, qdrant, CellInv, TypeOK

LEMMA CallPartKeeps ==
  ASSUME CellInv, NEW a \in Actors, CallPart(a)
  PROVE  CellInv'
<1> DEFINE p == "document_store"
           j == [at |-> "lock", cell |-> p, within |-> TRUE, got |-> 0]
<1>1. /\ job[a].at = "build"
      /\ job[a].cell = "router"
      /\ job[a].got = 0
      /\ job' = [job EXCEPT ![a] = j]
      /\ UNCHANGED <<process, keyring, qdrant>>
  BY DEF CallPart, PartOf, FirstLook, DoubleChecked
<1>2. /\ job[a] \in CellJob
      /\ job[a].cell \in Cells
      /\ job[a].within \in BOOLEAN
  BY <1>1, JobKinds DEF CellInv
<1>3. j \in CellJob /\ "router" \in Cells
  BY <1>1, <1>2, ConstantsAssumption DEF CellJob
<1>4. /\ job'[a] = j
      /\ \A b \in Actors \ {a} : job'[b] = job[b]
      /\ job' \in [Actors -> {Idle} \cup CellJob \cup RunJob]
  BY <1>1, <1>3, NewJob DEF CellInv
<1>5. ~job[a].within
  BY <1>1, <1>2 DEF CellInv, JobInv
<1>6. \A l \in Locks : Held(a, l)' = Held(a, l)
  BY <1>1, <1>4, <1>5 DEF Held, InBlock, Around, LockOf, Singletons
<1>7. JobInv(a)'
  BY <1>1, <1>3, <1>4 DEF CellInv, JobInv, process
<1> QED
  BY <1>1, <1>4, <1>6, <1>7, AsideKeeps
  DEF process, keyring, qdrant, CellInv, TypeOK

(* Building fills the cell, and disturbs nobody who was told of another     *)
(* value, because nobody else builds it.                                    *)
LEMMA BuildKeeps ==
  ASSUME CellInv, NEW a \in Actors, Build(a)
  PROVE  CellInv'
<1>0. PICK c \in Cells : c = job[a].cell
  BY JobKinds DEF Build, CellInv
<1>1. /\ job[a].at = "build"
      /\ PartOf(c) # {} => job[a].got # 0
      /\ built' = [built EXCEPT ![c] = @ + 1]
      /\ cell' = [cell EXCEPT ![c] = built[c] + 1]
      /\ parts' = [parts EXCEPT ![c] = {<<p, job[a].got>> : p \in PartOf(c)}]
      /\ Release(LockOf(c), 1)
      /\ Advance(a, "return")
      /\ UNCHANGED <<handed, keyring, qdrant>>
  BY <1>0 DEF Build
<1>2. /\ job[a] \in CellJob
      /\ LockOf(c) \in Locks
      /\ job[a].within \in BOOLEAN
      /\ job[a].got \in Nat
      /\ cell[c] = 0
  BY <1>0, <1>1, JobKinds DEF CellInv, JobInv
<1>3. /\ job'[a] \in CellJob
      /\ job'[a].at = "return"
      /\ job'[a].cell = c
      /\ job'[a].within = job[a].within
      /\ \A b \in Actors \ {a} : job'[b] = job[b]
      /\ job' \in [Actors -> {Idle} \cup CellJob \cup RunJob]
  BY <1>0, <1>1, <1>2, Advanced DEF CellInv
<1>4. PICK l \in Locks : l = LockOf(c)
  BY <1>2
<1>5. /\ Held(a, l)' = Held(a, l) - 1
      /\ Held(a, l) >= 1
      /\ \A k \in Locks \ {l} : Held(a, k)' = Held(a, k)
  BY <1>0, <1>1, <1>2, <1>3, <1>4 DEF Held, InBlock, Around
<1>6. /\ cell'[c] = built[c] + 1
      /\ cell'[c] # 0
      /\ cell' \in [Cells -> Nat]
      /\ \A d \in Cells \ {c} : cell'[d] = cell[d]
      /\ built' \in [Cells -> Nat]
  BY <1>1 DEF CellInv, TypeOK
<1>7. parts' \in [Cells -> SUBSET (Cells \X Nat)]
  <2>1. {<<p, job[a].got>> : p \in PartOf(c)} \in SUBSET (Cells \X Nat)
    BY <1>2, ConstantsAssumption DEF PartOf
  <2> QED
    BY <1>1, <2>1 DEF CellInv, TypeOK
<1>8. JobInv(a)'
  BY <1>0, <1>1, <1>3, <1>6 DEF CellInv, JobInv
<1>9. ASSUME NEW b \in Actors, b # a
      PROVE  JobInv(b)'
  <2>1. Held(b, l) = 0
    BY <1>5, <1>9, OneBuilder DEF CellInv, Held
  <2>2. ~(job[b].at = "build" /\ job[b].cell = c)
    BY <1>4, <2>1 DEF Held, InBlock
  <2>3. ~(job[b].at \in {"look", "lock", "check", "build", "return"}
          /\ job[b].within /\ c = "router")
    <3>1. c = "router" => l = "singletons"
      BY <1>4 DEF LockOf, Singletons
    <3>2. job[b].at = "look" => ~job[b].within
      BY JobKinds DEF CellInv, JobInv
    <3> QED
      BY <2>1, <3>1, <3>2 DEF Held, Around
  <2>4. job[b].at \in {"look", "lock", "check", "build", "return", "use"}
          => job[b].cell \in Cells
    BY JobKinds DEF CellInv
  <2>5. "router" \in Cells => "document_store" \in Cells
    BY ConstantsAssumption
  <2>6. JobInv(b)
    BY DEF CellInv
  <2>7. job'[b] = job[b]
    BY <1>3, <1>9
  <2>8. job[b].at \in {"look", "lock", "check", "build", "return"}
        /\ job[b].within => cell'["router"] = cell["router"]
    BY <1>6, <2>3, <2>6 DEF JobInv
  <2>9. job[b].at = "build" => cell'[job[b].cell] = cell[job[b].cell]
    BY <1>6, <2>2, <2>4
  <2>10. job[b].at = "build" /\ job[b].got # 0 =>
           cell'["document_store"] = cell["document_store"]
    BY <1>2, <1>6, <2>4, <2>5, <2>6 DEF JobInv
  <2>11. job[b].at = "return" => cell'[job[b].cell] # 0
    BY <1>6, <2>4, <2>6 DEF JobInv
  <2>12. job[b].at = "use" => cell'["api_key_store"] = cell["api_key_store"]
    BY <1>2, <1>6, <2>4, <2>6 DEF JobInv
  <2> QED
    BY <2>6, <2>7, <2>8, <2>9, <2>10, <2>11, <2>12 DEF JobInv
<1>10. \A b \in Actors : JobInv(b)'
  BY <1>8, <1>9
<1>11. l = LockOf(job[a].cell) /\ Release(l, 1)
  BY <1>0, <1>1, <1>4
<1> QED
  BY <1>1, <1>3, <1>5, <1>6, <1>7, <1>10, <1>11, LeavingKeeps

LEMMA BuildFailsKeeps ==
  ASSUME CellInv, NEW a \in Actors, BuildFails(a)
  PROVE  CellInv'
<1>0. PICK l \in Locks : l = LockOf(job[a].cell)
  BY JobKinds DEF BuildFails, CellInv
<1> DEFINE n == IF job[a].within THEN 2 ELSE 1
<1>1. /\ job[a].at = "build"
      /\ Release(l, n)
      /\ Finish(a)
      /\ UNCHANGED <<cell, parts, built, handed, keyring, qdrant>>
  BY <1>0 DEF BuildFails
<1>2. /\ job'[a].at = "idle"
      /\ \A b \in Actors \ {a} : job'[b] = job[b]
      /\ job' \in [Actors -> {Idle} \cup CellJob \cup RunJob]
  BY <1>1, Finished DEF CellInv
<1>3. job[a].within \in BOOLEAN /\ (job[a].within => l = "singletons")
  BY <1>0, <1>1, JobKinds DEF CellInv, JobInv, LockOf, Singletons
<1>4. /\ Held(a, l)' = Held(a, l) - n
      /\ n <= Held(a, l)
      /\ \A k \in Locks \ {l} : Held(a, k)' = Held(a, k)
  BY <1>0, <1>1, <1>2, <1>3 DEF Held, InBlock, Around
<1>5. JobInv(a)'
  BY <1>2 DEF JobInv
<1>6. ASSUME NEW b \in Actors, b # a
      PROVE  JobInv(b)'
  BY <1>1, <1>2, <1>6 DEF CellInv, JobInv
<1>7. \A b \in Actors : JobInv(b)'
  BY <1>5, <1>6
<1>8. /\ cell' \in [Cells -> Nat]
      /\ parts' \in [Cells -> SUBSET (Cells \X Nat)]
      /\ built' \in [Cells -> Nat]
  BY <1>1 DEF CellInv, TypeOK
<1>9. n \in Nat
  OBVIOUS
<1> HIDE DEF n
<1> QED
  BY <1>0, <1>1, <1>2, <1>4, <1>7, <1>8, <1>9, LeavingKeeps

LEMMA ReturnPartKeeps ==
  ASSUME CellInv, NEW a \in Actors, ReturnPart(a)
  PROVE  CellInv'
<1> DEFINE j == [at |-> "build", cell |-> "router", within |-> FALSE,
                 got |-> cell[job[a].cell]]
<1>1. /\ job[a].at = "return"
      /\ job[a].within
      /\ job' = [job EXCEPT ![a] = j]
      /\ UNCHANGED <<process, keyring, qdrant>>
  BY DEF ReturnPart
<1>2. /\ job[a].cell = "document_store"
      /\ "router" \in Cells
      /\ "document_store" \in Cells
      /\ cell["router"] = 0
  BY <1>1, ConstantsAssumption DEF CellInv, JobInv
<1>3. cell[job[a].cell] \in Nat
  BY <1>2 DEF CellInv, TypeOK
<1>4. j \in CellJob
  BY <1>2, <1>3 DEF CellJob
<1>5. /\ job'[a] = j
      /\ \A b \in Actors \ {a} : job'[b] = job[b]
      /\ job' \in [Actors -> {Idle} \cup CellJob \cup RunJob]
  BY <1>1, <1>4, NewJob DEF CellInv
<1>6. \A l \in Locks : Held(a, l)' = Held(a, l)
  BY <1>1, <1>5 DEF Held, InBlock, Around, LockOf, Singletons
<1>7. JobInv(a)'
  BY <1>1, <1>2, <1>5 DEF JobInv, process
<1> QED
  BY <1>1, <1>5, <1>6, <1>7, AsideKeeps
  DEF process, keyring, qdrant, CellInv, TypeOK

LEMMA ReturnKeeps ==
  ASSUME CellInv, NEW a \in Actors, Return(a)
  PROVE  CellInv'
<1>0. PICK c \in Cells : c = job[a].cell
  BY JobKinds DEF Return, CellInv
<1>1. /\ job[a].at = "return"
      /\ ~job[a].within
      /\ handed' = handed \cup {<<c, cell[c]>>}
      /\ UNCHANGED <<cell, parts, holder, depth, built, keyring, qdrant>>
  BY <1>0 DEF Return
<1>2. job[a] \in CellJob /\ cell[c] # 0 /\ cell[c] \in Nat
  BY <1>0, <1>1, JobKinds DEF CellInv, JobInv, TypeOK
<1>3. handed' \subseteq Cells \X Nat
  BY <1>1, <1>2 DEF CellInv, TypeOK
<1>4. /\ \A b \in Actors \ {a} : job'[b] = job[b]
      /\ job' \in [Actors -> {Idle} \cup CellJob \cup RunJob]
      /\ job'[a].at \in {"idle", "use"}
      /\ job'[a].at = "use" => /\ job'[a].cell = "api_key_store"
                               /\ job'[a].got = cell["api_key_store"]
                               /\ job'[a].got # 0
  <2>1. CASE c = "api_key_store"
    <3> DEFINE j == [job[a] EXCEPT !.at = "use", !.got = cell[c]]
    <3>1. job' = [job EXCEPT ![a] = j]
      BY <1>0, <2>1 DEF Return
    <3>2. j \in CellJob /\ j.at = "use" /\ j.cell = c /\ j.got = cell[c]
      BY <1>0, <1>2 DEF CellJob
    <3> HIDE DEF j
    <3> QED
      BY <1>2, <2>1, <3>1, <3>2, NewJob DEF CellInv
  <2>2. CASE c # "api_key_store"
    <3>1. Finish(a)
      BY <1>0, <2>2 DEF Return
    <3> QED
      BY <3>1, Finished DEF CellInv
  <2> QED
    BY <2>1, <2>2
<1>5. \A l \in Locks : Held(a, l)' = Held(a, l)
  BY <1>1, <1>4 DEF Held, InBlock, Around
<1>6. JobInv(a)'
  BY <1>1, <1>4 DEF JobInv
<1> QED
  BY <1>1, <1>3, <1>4, <1>5, <1>6, AsideKeeps
  DEF keyring, qdrant, CellInv, TypeOK

(* Keys and provisioning runs take no lock of a collaborator's.             *)
LEMMA OutsideKeeps ==
  ASSUME CellInv, NEW a \in Actors,
         job[a].at \in {"idle", "use", "exists", "create", "verify", "index"},
         job'[a].at \in {"idle", "exists", "create", "verify", "index"},
         \A b \in Actors \ {a} : job'[b] = job[b],
         job' \in [Actors -> {Idle} \cup CellJob \cup RunJob],
         UNCHANGED process,
         records' \subseteq Nat \X Keys \X {KeyOwner[k] : k \in Keys},
         issued' \subseteq Keys,
         collection' \in {"absent", "fits", "misfits"},
         indexes' \subseteq Fields,
         reported' \in BOOLEAN
  PROVE  CellInv'
<1>1. \A l \in Locks : Held(a, l)' = Held(a, l)
  BY DEF Held, InBlock, Around
<1>2. JobInv(a)'
  BY DEF JobInv
<1>3. handed' \subseteq Cells \X Nat
  BY DEF process, CellInv, TypeOK
<1> QED
  BY <1>1, <1>2, <1>3, AsideKeeps DEF process

LEMMA KeyStepKeeps ==
  ASSUME CellInv, NEW a \in Actors, KeyStep(a)
  PROVE  CellInv'
<1> DEFINE Entries == Nat \X Keys \X {KeyOwner[k] : k \in Keys}
<1>1. /\ job[a].at = "use"
      /\ Finish(a)
      /\ UNCHANGED <<process, qdrant>>
  BY DEF KeyStep, Register, Rotate, ReadKeys
<1>2. job[a].got \in Nat
  BY <1>1, JobKinds DEF CellInv
<1>3. /\ job'[a].at = "idle"
      /\ \A b \in Actors \ {a} : job'[b] = job[b]
      /\ job' \in [Actors -> {Idle} \cup CellJob \cup RunJob]
  BY <1>1, Finished DEF CellInv
<1>4. records \subseteq Entries /\ issued \subseteq Keys
  BY DEF CellInv, TypeOK
<1>5. records' \subseteq Entries /\ issued' \subseteq Keys
  <2>1. CASE Register(a)
    <3>1. PICK k \in Keys :
            /\ records' = Without(job[a].got, k)
                            \cup {<<job[a].got, k, KeyOwner[k]>>}
            /\ issued' = issued \cup {k}
      BY <2>1 DEF Register
    <3> QED
      BY <1>2, <1>4, <3>1 DEF Without
  <2>2. CASE Rotate(a)
    <3>1. PICK old \in Keys, new \in Keys :
            /\ records' = Rotated(job[a].got, old, new)
            /\ issued' = (issued \ {old}) \cup {new}
      BY <2>2 DEF Rotate
    <3>2. Resolve(job[a].got, old) \subseteq {KeyOwner[k] : k \in Keys}
      BY <1>4 DEF Resolve
    <3>3. Rotated(job[a].got, old, new) \subseteq Entries
      BY <1>2, <1>4, <3>2 DEF Rotated, Without
    <3> QED
      BY <1>4, <3>1, <3>3
  <2>3. CASE ReadKeys(a)
    BY <1>4, <2>3 DEF ReadKeys, keyring
  <2> QED
    BY <2>1, <2>2, <2>3 DEF KeyStep
<1> QED
  BY <1>1, <1>3, <1>5, OutsideKeeps DEF qdrant, CellInv, TypeOK

(* What a step of provisioning does to the job of its run.                  *)
LEMMA RunStepJob ==
  ASSUME CellInv, NEW a \in Actors, StartRun(a) \/ RunStep(a)
  PROVE  /\ job[a].at \in {"idle", "exists", "create", "verify", "index"}
         /\ job'[a].at \in {"idle", "exists", "create", "verify", "index"}
         /\ \A b \in Actors \ {a} : job'[b] = job[b]
         /\ job' \in [Actors -> {Idle} \cup CellJob \cup RunJob]
         /\ UNCHANGED <<process, keyring>>
         /\ collection' \in {collection, "fits"}
         /\ collection = "fits" => collection' = "fits"
         /\ indexes \subseteq indexes' /\ indexes' \subseteq Fields
<1>0. TypeOK /\ indexes \subseteq Fields
  BY DEF CellInv, TypeOK
<1>1. CASE StartRun(a)
  <2> DEFINE j == [at |-> "exists", done |-> {}]
  <2>1. job[a] = Idle /\ job' = [job EXCEPT ![a] = j]
    BY <1>1 DEF StartRun
  <2>2. j \in RunJob
    BY DEF RunJob
  <2>3. UNCHANGED <<process, keyring, qdrant>>
    BY <1>1 DEF StartRun
  <2>4. job[a].at = "idle" /\ j.at = "exists"
    BY <2>1 DEF Idle
  <2> HIDE DEF j
  <2>5. /\ job'[a] = j
        /\ \A b \in Actors \ {a} : job'[b] = job[b]
        /\ job' \in [Actors -> {Idle} \cup CellJob \cup RunJob]
    BY <1>0, <2>1, <2>2, NewJob
  <2> QED
    BY <1>0, <2>3, <2>4, <2>5 DEF qdrant
<1>2. CASE CollectionExists(a) \/ CreateCollection(a) \/ VerifyVectorSize(a)
  <2>1. PICK s \in {"create", "verify", "index"} : Advance(a, s)
    BY <1>2 DEF CollectionExists, CreateCollection, VerifyVectorSize
  <2>2. job[a].at \in {"exists", "create", "verify"}
    BY <1>2 DEF CollectionExists, CreateCollection, VerifyVectorSize
  <2>3. /\ job'[a].at = s
        /\ \A b \in Actors \ {a} : job'[b] = job[b]
        /\ job' \in [Actors -> {Idle} \cup CellJob \cup RunJob]
    BY <1>0, <2>1, <2>2, JobKinds, Advanced
  <2>4. /\ UNCHANGED <<process, keyring, indexes>>
        /\ collection' \in {collection, "fits"}
        /\ collection = "fits" => collection' = "fits"
    BY <1>2 DEF CollectionExists, CreateCollection, VerifyVectorSize, qdrant
  <2> QED
    BY <1>0, <2>2, <2>3, <2>4
<1>3. CASE EnsurePayloadIndex(a)
  <2>1. PICK f \in Fields :
          /\ indexes' = indexes \cup {f}
          /\ job' = [job EXCEPT ![a].done = @ \cup {f}]
    BY <1>3 DEF EnsurePayloadIndex
  <2>2. /\ job[a].at = "index"
        /\ UNCHANGED <<collection, reported, process, keyring>>
    BY <1>3 DEF EnsurePayloadIndex
  <2> DEFINE j == [job[a] EXCEPT !.done = @ \cup {f}]
  <2>3. job[a] \in RunJob
    BY <1>0, <2>2, JobKinds
  <2>4. j \in RunJob /\ j.at = "index"
    BY <2>2, <2>3 DEF RunJob
  <2>5. job' = [job EXCEPT ![a] = j]
    BY <2>1
  <2> HIDE DEF j
  <2>6. job'[a] = j
    BY <1>0, <2>5, NewJob
  <2> QED
    BY <1>0, <2>1, <2>2, <2>4, <2>5, <2>6, NewJob
<1>4. CASE ReportProvisioned(a) \/ RunFails(a) \/ ReplyLost(a)
  <2>1. /\ Finish(a)
        /\ job[a].at \in {"exists", "create", "verify", "index"}
    BY <1>4 DEF ReportProvisioned, RunFails, ReplyLost
  <2>2. /\ UNCHANGED <<process, keyring>>
        /\ collection' \in {collection, "fits"}
        /\ collection = "fits" => collection' = "fits"
        /\ indexes \subseteq indexes' /\ indexes' \subseteq Fields
    BY <1>0, <1>4 DEF ReportProvisioned, RunFails, ReplyLost, qdrant
  <2> QED
    BY <1>0, <2>1, <2>2, Finished
<1> QED
  BY <1>1, <1>2, <1>3, <1>4 DEF RunStep

LEMMA RunStepKeeps ==
  ASSUME CellInv, NEW a \in Actors, StartRun(a) \/ RunStep(a)
  PROVE  CellInv'
<1>1. reported' \in BOOLEAN
  BY DEF StartRun, RunStep, CollectionExists, CreateCollection,
         VerifyVectorSize, EnsurePayloadIndex, ReportProvisioned, RunFails,
         ReplyLost, qdrant, CellInv, TypeOK
<1> QED
  BY <1>1, RunStepJob, OutsideKeeps DEF keyring, CellInv, TypeOK

LEMMA StepKeepsCellInv == CellInv /\ [Next]_vars => CellInv'
<1> SUFFICES ASSUME CellInv, [Next]_vars
             PROVE  CellInv'
  OBVIOUS
<1>1. CASE UNCHANGED vars
  <2>1. UNCHANGED <<cell, parts, holder, depth, job, records, collection,
                    indexes, built, handed, issued, reported>>
    BY <1>1 DEF vars, process, keyring, qdrant
  <2>2. TypeOK'
    BY <2>1 DEF CellInv, TypeOK
  <2>3. LocksAreHeld'
    BY <2>1 DEF CellInv, LocksAreHeld, Held, InBlock, Around
  <2>4. \A a \in Actors : JobInv(a)'
    BY <2>1 DEF CellInv, JobInv
  <2> QED
    BY <2>2, <2>3, <2>4 DEF CellInv
<1>2. ASSUME NEW a \in Actors, NEW c \in Cells, Call(a, c)
      PROVE  CellInv'
  BY <1>2, CallKeeps
<1>3. ASSUME NEW a \in Actors, CellStep(a)
      PROVE  CellInv'
  BY <1>3, LookKeeps, AcquireKeeps, FoundKeeps, MissingKeeps, CallPartKeeps,
     BuildKeeps, BuildFailsKeeps, ReturnPartKeeps, ReturnKeeps DEF CellStep
<1> QED
  BY <1>1, <1>2, <1>3, KeyStepKeeps, RunStepKeeps DEF Next

LEMMA InitCellInv == Init => CellInv
<1> SUFFICES ASSUME Init
             PROVE  CellInv
  OBVIOUS
<1>1. Idle.at = "idle"
  BY DEF Idle
<1>2. \A a \in Actors : job[a].at = "idle"
  BY <1>1 DEF Init
<1>3. TypeOK
  <2>1. /\ cell \in [Cells -> Nat]
        /\ parts \in [Cells -> SUBSET (Cells \X Nat)]
        /\ built \in [Cells -> Nat]
    BY DEF Init
  <2>2. /\ holder \in [Locks -> Actors \cup {Nobody}]
        /\ depth \in [Locks -> 0..2]
        /\ job \in [Actors -> {Idle} \cup CellJob \cup RunJob]
    BY DEF Init
  <2>3. /\ records \subseteq Nat \X Keys \X {KeyOwner[k] : k \in Keys}
        /\ handed \subseteq Cells \X Nat
        /\ issued \subseteq Keys
        /\ indexes \subseteq Fields
    BY DEF Init
  <2>4. collection \in {"absent", "fits", "misfits"} /\ reported \in BOOLEAN
    BY DEF Init
  <2> QED
    BY <2>1, <2>2, <2>3, <2>4 DEF TypeOK
<1>4. LocksAreHeld
  BY <1>2, ConstantsAssumption
  DEF Init, LocksAreHeld, Held, InBlock, Around
<1>5. \A a \in Actors : JobInv(a)
  BY <1>2 DEF JobInv
<1> QED
  BY <1>3, <1>4, <1>5 DEF CellInv

LEMMA CellInvHolds == Spec => []CellInv
BY InitCellInv, StepKeepsCellInv, PTL DEF Spec

(* Globals, locks, jobs, keys and the collection hold only values of their  *)
(* types, and no lock is taken more than twice, however many first requests *)
(* race.                                                                    *)
THEOREM TypeCorrect == Spec => []TypeOK
<1>1. CellInv => TypeOK
  BY DEF CellInv
<1> QED
  BY <1>1, CellInvHolds, PTL

-----------------------------------------------------------------------------
(* Once-cells.                                                              *)

LEMMA InitIsOnceCells == Init => Collaborators!Init
BY DEF Init, Collaborators!Init

LEMMA StepIsOnceCells ==
  ASSUME CellInv, [Next]_vars
  PROVE  [Collaborators!Next]_<<cell, parts, handed>>
<1>1. CASE UNCHANGED vars
  BY <1>1 DEF vars, process
<1>2. ASSUME NEW a \in Actors, Build(a)
      PROVE  Collaborators!Next
  <2>0. PICK c \in Cells : c = job[a].cell
    BY <1>2, JobKinds DEF Build, CellInv
  <2>1. /\ job[a].at = "build"
        /\ PartOf(c) # {} => job[a].got # 0
        /\ cell' = [cell EXCEPT ![c] = built[c] + 1]
        /\ parts' = [parts EXCEPT ![c] = {<<p, job[a].got>> : p \in PartOf(c)}]
        /\ UNCHANGED handed
    BY <1>2, <2>0 DEF Build
  <2>2. cell[c] = 0
    BY <2>0, <2>1 DEF CellInv, JobInv
  <2>3. \A p \in PartOf(c) : cell[p] # 0 /\ job[a].got = cell[p]
    BY <2>0, <2>1 DEF CellInv, JobInv, PartOf
  <2>4. {<<p, job[a].got>> : p \in PartOf(c)}
          = {<<p, cell[p]>> : p \in PartOf(c)}
    BY <2>3
  <2>5. cell'[c] = built[c] + 1 /\ cell'[c] \in Nat \ {0}
    BY <2>1 DEF CellInv, TypeOK
  <2>6. Collaborators!Fill(c)
    BY <2>1, <2>2, <2>3, <2>4, <2>5 DEF Collaborators!Fill
  <2> QED
    BY <2>6 DEF Collaborators!Next
<1>3. ASSUME NEW a \in Actors, Return(a)
      PROVE  Collaborators!Next
  <2>0. PICK c \in Cells : c = job[a].cell
    BY <1>3, JobKinds DEF Return, CellInv
  <2>1. /\ cell[c] # 0
        /\ handed' = handed \cup {<<c, cell[c]>>}
        /\ UNCHANGED <<cell, parts>>
    BY <1>3, <2>0 DEF Return, CellInv, JobInv
  <2>2. Collaborators!Hand(c)
    BY <2>1 DEF Collaborators!Hand
  <2> QED
    BY <2>2 DEF Collaborators!Next
<1>4. ASSUME NEW a \in Actors, NEW c \in Cells, Call(a, c)
      PROVE  UNCHANGED <<cell, parts, handed>>
  BY <1>4 DEF Call, process
<1>5. ASSUME NEW a \in Actors, CellStep(a), ~Build(a), ~Return(a)
      PROVE  UNCHANGED <<cell, parts, handed>>
  BY <1>5 DEF CellStep, Look, Acquire, Found, Missing, CallPart, BuildFails,
              ReturnPart, process
<1>6. ASSUME NEW a \in Actors, KeyStep(a)
      PROVE  UNCHANGED <<cell, parts, handed>>
  BY <1>6 DEF KeyStep, Register, Rotate, ReadKeys, process
<1>7. ASSUME NEW a \in Actors, StartRun(a) \/ RunStep(a)
      PROVE  UNCHANGED <<cell, parts, handed>>
  BY <1>7, RunStepJob DEF process
<1> QED
  BY <1>1, <1>2, <1>3, <1>4, <1>5, <1>6, <1>7 DEF Next

(* However threads race and builds fail, every collaborator is filled once, *)
(* with the part the other requests use, and handed out as filled.          *)
THEOREM ImplementsOnceCells == Spec => AreOnceCells
<1>1. CellInv /\ [Next]_vars => [Collaborators!Next]_<<cell, parts, handed>>
  BY StepIsOnceCells
<1> QED
  BY <1>1, InitIsOnceCells, CellInvHolds, PTL
  DEF Spec, AreOnceCells, Collaborators!Spec

-----------------------------------------------------------------------------
(* Keys.                                                                    *)

KeyInv ==
  "api_key_store" \in Cells =>
    /\ records = {<<cell["api_key_store"], k, KeyOwner[k]>> : k \in issued}
    /\ cell["api_key_store"] = 0 => issued = {}

LEMMA KeyStepKeepsKeys ==
  ASSUME CellInv, KeyInv, NEW a \in Actors, KeyStep(a)
  PROVE  KeyInv'
<1>1. /\ job[a].at = "use"
      /\ UNCHANGED cell
  BY DEF KeyStep, Register, Rotate, ReadKeys, process
<1>2. PICK s \in Nat \ {0} : s = job[a].got
  BY <1>1, JobKinds DEF CellInv, JobInv
<1>3. "api_key_store" \in Cells /\ cell["api_key_store"] = s
  BY <1>1, <1>2, JobKinds DEF CellInv, JobInv
<1>4. records = {<<s, k, KeyOwner[k]>> : k \in issued}
  BY <1>3 DEF KeyInv
<1>5. CASE Register(a)
  <2>1. PICK k \in Keys :
          /\ records' = Without(s, k) \cup {<<s, k, KeyOwner[k]>>}
          /\ issued' = issued \cup {k}
    BY <1>2, <1>5 DEF Register
  <2>2. Without(s, k) = {<<s, l, KeyOwner[l]>> : l \in issued \ {k}}
    BY <1>4 DEF Without
  <2>3. records' = {<<s, l, KeyOwner[l]>> : l \in issued'}
    BY <2>1, <2>2
  <2> QED
    BY <1>1, <1>2, <1>3, <2>3 DEF KeyInv
<1>6. CASE Rotate(a)
  <2>1. PICK old \in Keys, new \in Keys :
          /\ KeyOwner[old] = KeyOwner[new]
          /\ Resolve(s, old) # {}
          /\ records' = Rotated(s, old, new)
          /\ issued' = (issued \ {old}) \cup {new}
    BY <1>2, <1>6 DEF Rotate
  <2>2. old \in issued /\ Resolve(s, old) = {KeyOwner[new]}
    BY <1>4, <2>1 DEF Resolve
  <2>3. Without(s, new) = {<<s, l, KeyOwner[l]>> : l \in issued \ {new}}
    BY <1>4 DEF Without
  <2>4. {r \in Without(s, new) : ~(r[1] = s /\ r[2] = old)}
          = {<<s, l, KeyOwner[l]>> : l \in issued \ {new, old}}
    BY <2>3
  <2>5. {<<s, new, o>> : o \in Resolve(s, old)} = {<<s, new, KeyOwner[new]>>}
    BY <2>2
  <2>6. records' = {<<s, l, KeyOwner[l]>> : l \in issued'}
    BY <2>1, <2>4, <2>5 DEF Rotated
  <2> QED
    BY <1>1, <1>2, <1>3, <2>6 DEF KeyInv
<1>7. CASE ReadKeys(a)
  BY <1>7 DEF ReadKeys, KeyInv, process, keyring
<1> QED
  BY <1>5, <1>6, <1>7 DEF KeyStep

LEMMA StepKeepsKeys ==
  ASSUME CellInv, KeyInv, [Next]_vars
  PROVE  KeyInv'
<1>1. CASE UNCHANGED vars
  BY <1>1 DEF vars, process, keyring, KeyInv
<1>2. ASSUME NEW a \in Actors, Build(a)
      PROVE  KeyInv'
  <2>0. PICK c \in Cells : c = job[a].cell
    BY <1>2, JobKinds DEF Build, CellInv
  <2>1. /\ job[a].at = "build"
        /\ cell' = [cell EXCEPT ![c] = built[c] + 1]
        /\ UNCHANGED <<records, issued>>
    BY <1>2, <2>0 DEF Build, keyring
  <2>2. cell[c] = 0 /\ built[c] \in Nat
    BY <2>0, <2>1 DEF CellInv, JobInv, TypeOK
  <2>3. CASE c = "api_key_store"
    <3>1. issued = {} /\ records = {}
      BY <2>2, <2>3 DEF KeyInv
    <3> QED
      BY <2>1, <3>1 DEF KeyInv
  <2>4. CASE c # "api_key_store"
    BY <2>1, <2>4 DEF KeyInv, CellInv, TypeOK
  <2> QED
    BY <2>3, <2>4
<1>3. ASSUME NEW a \in Actors, NEW c \in Cells, Call(a, c)
      PROVE  KeyInv'
  BY <1>3 DEF Call, process, keyring, KeyInv
<1>4. ASSUME NEW a \in Actors, CellStep(a), ~Build(a)
      PROVE  KeyInv'
  BY <1>4 DEF CellStep, Look, Acquire, Found, Missing, CallPart, BuildFails,
              ReturnPart, Return, process, keyring, KeyInv
<1>5. ASSUME NEW a \in Actors, KeyStep(a)
      PROVE  KeyInv'
  BY <1>5, KeyStepKeepsKeys
<1>6. ASSUME NEW a \in Actors, StartRun(a) \/ RunStep(a)
      PROVE  KeyInv'
  BY <1>6, RunStepJob DEF process, keyring, KeyInv
<1> QED
  BY <1>1, <1>2, <1>3, <1>4, <1>5, <1>6 DEF Next

LEMMA KeyInvIsEnough == KeyInv => IssuedKeysResolve
<1> SUFFICES ASSUME KeyInv, "api_key_store" \in Cells, NEW k \in Keys
             PROVE  Resolve(cell["api_key_store"], k) =
                      IF k \in issued THEN {KeyOwner[k]} ELSE {}
  BY DEF IssuedKeysResolve
<1> DEFINE s == cell["api_key_store"]
<1>1. records = {<<s, l, KeyOwner[l]>> : l \in issued}
  BY DEF KeyInv
<1> HIDE DEF s
<1>2. Resolve(s, k) = IF k \in issued THEN {KeyOwner[k]} ELSE {}
  <2>1. {x \in records : x[1] = s /\ x[2] = k}
          = IF k \in issued THEN {<<s, k, KeyOwner[k]>>} ELSE {}
    BY <1>1
  <2>2. CASE k \in issued
    <3>1. {x \in records : x[1] = s /\ x[2] = k} = {<<s, k, KeyOwner[k]>>}
      BY <2>1, <2>2
    <3>2. <<s, k, KeyOwner[k]>>[3] = KeyOwner[k]
      OBVIOUS
    <3> QED
      BY <2>2, <3>1, <3>2, Zenon DEF Resolve
  <2>3. CASE k \notin issued
    <3>1. {x \in records : x[1] = s /\ x[2] = k} = {}
      BY <2>1, <2>3
    <3> QED
      BY <2>3, <3>1 DEF Resolve
  <2> QED
    BY <2>2, <2>3
<1> QED
  BY <1>2 DEF s

(* Whoever registers or rotates keys, and whenever the store was built, the *)
(* keys that authenticate are those issued and not rotated out.             *)
THEOREM KeysResolve == Spec => []IssuedKeysResolve
<1>1. Init => KeyInv
  BY DEF Init, KeyInv
<1>2. CellInv /\ KeyInv /\ [Next]_vars => KeyInv'
  BY StepKeepsKeys
<1>3. Spec => []KeyInv
  BY <1>1, <1>2, CellInvHolds, PTL DEF Spec
<1> QED
  BY <1>3, KeyInvIsEnough, PTL

-----------------------------------------------------------------------------
(* Provisioning.                                                            *)

OfRun == {"exists", "create", "verify", "index"}

RunInv ==
  /\ \A a \in Actors :
       /\ job[a].at \in {"exists", "create", "verify"} => job[a].done = {}
       /\ job[a].at = "index" =>
            collection = "fits" /\ job[a].done \subseteq indexes
  /\ reported => collection = "fits" /\ indexes = Fields

LEMMA StepKeepsRuns ==
  ASSUME CellInv, RunInv, [Next]_vars
  PROVE  RunInv'
<1>1. CASE UNCHANGED vars
  BY <1>1 DEF vars, process, keyring, qdrant, RunInv
<1>2. ASSUME NEW a \in Actors, UNCHANGED qdrant, job'[a].at \notin OfRun,
             \A b \in Actors \ {a} : job'[b] = job[b]
      PROVE  RunInv'
  BY <1>2 DEF qdrant, RunInv, OfRun
<1>3. ASSUME NEW a \in Actors, NEW c \in Cells, Call(a, c)
      PROVE  RunInv'
  <2> DEFINE j == [at |-> FirstLook(c), cell |-> c, within |-> FALSE, got |-> 0]
  <2>1. job' = [job EXCEPT ![a] = j] /\ UNCHANGED qdrant
    BY <1>3 DEF Call
  <2>2. j.at \notin OfRun
    BY DEF FirstLook, OfRun
  <2> HIDE DEF j
  <2>3. job'[a] = j /\ \A b \in Actors \ {a} : job'[b] = job[b]
    BY <2>1, NewJob DEF CellInv
  <2> QED
    BY <1>2, <2>1, <2>2, <2>3
<1>4. ASSUME NEW a \in Actors, CellStep(a)
      PROVE  RunInv'
  <2>1. CellInv' /\ UNCHANGED qdrant
    BY <1>4, StepKeepsCellInv DEF Next, CellStep, Look, Acquire, Found, Missing,
         CallPart, Build, BuildFails, ReturnPart, Return
  <2>2. PICK j : job' = [job EXCEPT ![a] = j] /\ j.at \notin OfRun
    <3>1. ASSUME NEW s \in {"lock", "check", "build", "return"}, Advance(a, s),
                 job[a] \in CellJob
          PROVE  \E j : job' = [job EXCEPT ![a] = j] /\ j.at \notin OfRun
      <4>1. [job[a] EXCEPT !.at = s].at = s
        BY <3>1 DEF CellJob
      <4> QED
        BY <3>1, <4>1 DEF Advance, OfRun
    <3>2. ASSUME Finish(a)
          PROVE  \E j : job' = [job EXCEPT ![a] = j] /\ j.at \notin OfRun
      <4>1. job' = [job EXCEPT ![a] = Idle]
        BY <3>2 DEF Finish
      <4>2. Idle.at \notin OfRun
        BY DEF Idle, OfRun
      <4> QED
        BY <4>1, <4>2, Zenon
    <3>3. job[a] \in CellJob
      BY <1>4, JobKinds DEF CellInv, CellStep, Look, Acquire, Found, Missing,
           CallPart, Build, BuildFails, ReturnPart, Return
    <3>4. CASE Look(a) \/ Acquire(a) \/ Found(a) \/ Missing(a) \/ Build(a)
      <4>1. PICK s \in {"lock", "check", "build", "return"} : Advance(a, s)
        BY <3>4 DEF Look, Acquire, Found, Missing, Build
      <4> QED
        BY <3>1, <3>3, <4>1
    <3>5. CASE BuildFails(a)
      BY <3>2, <3>5 DEF BuildFails
    <3>6. CASE CallPart(a)
      <4>1. PICK p : job' = [job EXCEPT ![a] = [at |-> FirstLook(p), cell |-> p,
                                                within |-> TRUE, got |-> 0]]
        BY <3>6 DEF CallPart
      <4> DEFINE j == [at |-> FirstLook(p), cell |-> p, within |-> TRUE,
                       got |-> 0]
      <4>2. j.at \notin OfRun
        BY DEF FirstLook, OfRun
      <4>3. job' = [job EXCEPT ![a] = j]
        BY <4>1
      <4> HIDE DEF j
      <4> QED
        BY <4>2, <4>3, Zenon
    <3>7. CASE ReturnPart(a)
      <4> DEFINE j == [at |-> "build", cell |-> "router", within |-> FALSE,
                       got |-> cell[job[a].cell]]
      <4>1. job' = [job EXCEPT ![a] = j]
        BY <3>7 DEF ReturnPart
      <4>2. j.at \notin OfRun
        BY DEF OfRun
      <4> HIDE DEF j
      <4> QED
        BY <4>1, <4>2, Zenon
    <3>8. CASE Return(a)
      <4>1. CASE job[a].cell = "api_key_store"
        <5> DEFINE j == [job[a] EXCEPT !.at = "use", !.got = cell[job[a].cell]]
        <5>1. job' = [job EXCEPT ![a] = j]
          BY <3>8, <4>1 DEF Return
        <5>2. j.at = "use"
          BY <3>3 DEF CellJob
        <5> HIDE DEF j
        <5> QED
          BY <5>1, <5>2 DEF OfRun
      <4>2. CASE job[a].cell # "api_key_store"
        BY <3>2, <3>8, <4>2 DEF Return
      <4> QED
        BY <4>1, <4>2
    <3> QED
      BY <1>4, <3>4, <3>5, <3>6, <3>7, <3>8 DEF CellStep
  <2>3. job'[a] = j /\ \A b \in Actors \ {a} : job'[b] = job[b]
    BY <2>2, NewJob DEF CellInv
  <2> QED
    BY <1>2, <2>1, <2>2, <2>3
<1>5. ASSUME NEW a \in Actors, KeyStep(a)
      PROVE  RunInv'
  <2>1. Finish(a) /\ UNCHANGED qdrant
    BY <1>5 DEF KeyStep, Register, Rotate, ReadKeys
  <2> QED
    BY <1>2, <2>1, Finished DEF CellInv, OfRun
<1>6. ASSUME NEW a \in Actors, StartRun(a) \/ RunStep(a)
      PROVE  RunInv'
  <2>1. /\ \A b \in Actors \ {a} : job'[b] = job[b]
        /\ collection = "fits" => collection' = "fits"
        /\ indexes \subseteq indexes' /\ indexes' \subseteq Fields
    BY <1>6, RunStepJob
  <2>2. \A b \in Actors \ {a} :
          /\ job'[b].at \in {"exists", "create", "verify"} => job'[b].done = {}
          /\ job'[b].at = "index" =>
               collection' = "fits" /\ job'[b].done \subseteq indexes'
    BY <2>1 DEF RunInv
  <2>3. /\ job'[a].at \in {"exists", "create", "verify"} => job'[a].done = {}
        /\ job'[a].at = "index" =>
             collection' = "fits" /\ job'[a].done \subseteq indexes'
    <3>0. TypeOK
      BY DEF CellInv
    <3>1. CASE StartRun(a)
      <4> DEFINE j == [at |-> "exists", done |-> {}]
      <4>1. job' = [job EXCEPT ![a] = j]
        BY <3>1 DEF StartRun
      <4>2. job'[a] = j
        BY <3>0, <4>1, NewJob
      <4> QED
        BY <4>2
    <3>2. CASE CollectionExists(a) \/ CreateCollection(a) \/ VerifyVectorSize(a)
      <4>1. PICK s \in {"create", "verify", "index"} :
              Advance(a, s) /\ (s = "index" => collection' = "fits")
        BY <3>2 DEF CollectionExists, CreateCollection, VerifyVectorSize, qdrant
      <4>2. job[a].at \in {"exists", "create", "verify"}
        BY <3>2 DEF CollectionExists, CreateCollection, VerifyVectorSize
      <4>3. job'[a].at = s /\ job'[a].done = {}
        BY <3>0, <4>1, <4>2, JobKinds, Advanced DEF RunInv
      <4> QED
        BY <4>1, <4>3
    <3>3. CASE EnsurePayloadIndex(a)
      <4>1. PICK f \in Fields :
              /\ indexes' = indexes \cup {f}
              /\ job' = [job EXCEPT ![a].done = @ \cup {f}]
        BY <3>3 DEF EnsurePayloadIndex
      <4>2. job[a].at = "index" /\ UNCHANGED collection
        BY <3>3 DEF EnsurePayloadIndex
      <4> DEFINE j == [job[a] EXCEPT !.done = @ \cup {f}]
      <4>3. job[a] \in RunJob
        BY <3>0, <4>2, JobKinds
      <4>4. j.at = "index" /\ j.done = job[a].done \cup {f}
        BY <4>2, <4>3 DEF RunJob
      <4>5. job' = [job EXCEPT ![a] = j]
        BY <4>1
      <4> HIDE DEF j
      <4>6. job'[a] = j
        BY <3>0, <4>5, NewJob
      <4> QED
        BY <4>1, <4>2, <4>4, <4>6 DEF RunInv
    <3>4. CASE ReportProvisioned(a) \/ RunFails(a) \/ ReplyLost(a)
      <4>1. Finish(a)
        BY <3>4 DEF ReportProvisioned, RunFails, ReplyLost
      <4> QED
        BY <3>0, <4>1, Finished
    <3> QED
      BY <1>6, <3>1, <3>2, <3>3, <3>4 DEF RunStep
  <2>4. reported' => collection' = "fits" /\ indexes' = Fields
    <3>1. CASE ReportProvisioned(a)
      <4>1. /\ job[a].at = "index" /\ job[a].done = Fields
            /\ UNCHANGED <<collection, indexes>>
        BY <3>1 DEF ReportProvisioned
      <4> QED
        BY <2>1, <4>1 DEF RunInv
    <3>2. CASE ~ReportProvisioned(a)
      <4>1. UNCHANGED reported
        BY <1>6, <3>2 DEF StartRun, RunStep, CollectionExists, CreateCollection,
             VerifyVectorSize, EnsurePayloadIndex, RunFails, ReplyLost, qdrant
      <4> QED
        BY <2>1, <4>1 DEF RunInv
    <3> QED
      BY <3>1, <3>2
  <2> QED
    BY <2>1, <2>2, <2>3, <2>4 DEF RunInv
<1> QED
  BY <1>1, <1>3, <1>4, <1>5, <1>6 DEF Next

(* A run that reports success leaves a collection that is fit to be used,   *)
(* whatever other runs did before, meanwhile and after.                     *)
THEOREM ReportsAreTrue == Spec => []ReportedIsProvisioned
<1>1. Init => RunInv
  BY DEF Init, RunInv, Idle
<1>2. CellInv /\ RunInv /\ [Next]_vars => RunInv'
  BY StepKeepsRuns
<1>3. RunInv => ReportedIsProvisioned
  BY DEF RunInv, ReportedIsProvisioned
<1> QED
  BY <1>1, <1>2, <1>3, CellInvHolds, PTL DEF Spec

=============================================================================
