------------------------------- MODULE ColdStart -------------------------------
(***************************************************************************)
(* What is made on first use, by whoever comes first.                       *)
(*                                                                          *)
(* In a process, shared collaborators are built by the first request that   *)
(* needs them: those of backend/app/api/dependencies.py under one           *)
(* re-entrant lock, the others (the API key store, the rate limiter, the    *)
(* router's graph, the clients of Qdrant, OpenAI, BGE-M3 and Anthropic)     *)
(* each under a lock of its own, looked at before it is taken.  The API key *)
(* store keeps keys, so that which store a thread holds matters.            *)
(*                                                                          *)
(* In Qdrant, the collection and its payload indexes are created by         *)
(* provisioning runs (db/qdrant_bootstrap.py), which share no lock.         *)
(*                                                                          *)
(* An actor is a thread that carries a request, or such a run.              *)
(***************************************************************************)
EXTENDS Naturals

CONSTANTS
  Actors,
  Nobody,     \* holds a lock that is free
  Cells,      \* the collaborators that are followed
  Keys,       \* API keys
  KeyOwner,   \* whom each key is made for
  Fields      \* PAYLOAD_INDEX_FIELDS

(* Built under _singleton_lock; the router while it holds a document store. *)
Singletons == {"document_store", "router", "ingestor", "generation_llm"}

DoubleChecked == {"api_key_store", "rate_limiter", "default_graph",
                  "qdrant_client", "openai_client", "bge_model",
                  "anthropic_client"}

ASSUME ConstantsAssumption ==
  /\ Nobody \notin Actors
  /\ Cells \subseteq Singletons \cup DoubleChecked
  /\ "router" \in Cells => "document_store" \in Cells

LockOf(c) == IF c \in Singletons THEN "singletons" ELSE c
Locks == {LockOf(c) : c \in Cells}

(* threading.RLock                                                          *)
Reentrant(l) == l = "singletons"

PartOf(c) == IF c = "router" THEN {"document_store"} ELSE {}

Idle == [at |-> "idle"]

(* at: look before locking; lock: wait for it; check: look under it; build; *)
(* return: the lock is released and the cell is read again.  within: the    *)
(* router is being built below.  got: what building or using needs, 0 none. *)
CellJob == [at: {"look", "lock", "check", "build", "return", "use"},
            cell: Cells, within: BOOLEAN, got: Nat]

RunJob == [at: {"exists", "create", "verify", "index"}, done: SUBSET Fields]

VARIABLES
  cell,        \* what each collaborator's global holds, 0 for None
  parts,       \* what it was built of
  holder,      \* who holds each lock
  depth,       \* how often
  job,         \* what each actor is doing
  records,     \* entries of key stores: store, key, owner
  collection,  \* the collection in Qdrant: absent, fits or misfits
  indexes,     \* its payload indexes
  \* History, read by no action but to number what is built:
  built,       \* how often each collaborator was built
  handed,      \* pairs of a collaborator and what was handed out for it
  issued,      \* keys that are registered and not rotated out
  reported     \* a provisioning run reported success

process == <<cell, parts, holder, depth, built, handed>>
keyring == <<records, issued>>
qdrant == <<collection, indexes, reported>>
vars == <<process, keyring, qdrant, job>>

Init ==
  /\ cell = [c \in Cells |-> 0]
  /\ parts = [c \in Cells |-> {}]
  /\ holder = [l \in Locks |-> Nobody]
  /\ depth = [l \in Locks |-> 0]
  /\ job = [a \in Actors |-> Idle]
  /\ records = {}
  /\ collection \in {"absent", "misfits"}
  /\ indexes = {}
  /\ built = [c \in Cells |-> 0]
  /\ handed = {}
  /\ issued = {}
  /\ reported = FALSE

Advance(a, step) == job' = [job EXCEPT ![a].at = step]
Finish(a) == job' = [job EXCEPT ![a] = Idle]

-----------------------------------------------------------------------------
(* Collaborators.                                                           *)

FirstLook(c) == IF c \in DoubleChecked THEN "look" ELSE "lock"

Call(a, c) ==
  /\ job[a] = Idle
  /\ job' = [job EXCEPT ![a] = [at |-> FirstLook(c), cell |-> c,
                                within |-> FALSE, got |-> 0]]
  /\ UNCHANGED <<process, keyring, qdrant>>

Look(a) ==
  /\ job[a].at = "look"
  /\ Advance(a, IF cell[job[a].cell] # 0 THEN "return" ELSE "lock")
  /\ UNCHANGED <<process, keyring, qdrant>>

Acquire(a) ==
  LET l == LockOf(job[a].cell)
  IN /\ job[a].at = "lock"
     /\ \/ holder[l] = Nobody
        \/ holder[l] = a /\ Reentrant(l)
     /\ holder' = [holder EXCEPT ![l] = a]
     /\ depth' = [depth EXCEPT ![l] = @ + 1]
     /\ Advance(a, "check")
     /\ UNCHANGED <<cell, parts, built, handed, keyring, qdrant>>

(* Faulty: leaving any with block frees the lock.                           *)
ReleaseWholly(l, n) ==
  /\ depth' = [depth EXCEPT ![l] = @ - n]
  /\ holder' = [holder EXCEPT ![l] = Nobody]

(* Leaving n nested with blocks.                                            *)
Release(l, n) ==
  /\ depth' = [depth EXCEPT ![l] = @ - n]
  /\ holder' = IF depth[l] = n THEN [holder EXCEPT ![l] = Nobody] ELSE holder

Found(a) ==
  /\ job[a].at = "check"
  /\ cell[job[a].cell] # 0
  /\ Release(LockOf(job[a].cell), 1)
  /\ Advance(a, "return")
  /\ UNCHANGED <<cell, parts, built, handed, keyring, qdrant>>

(* Faulty: what was seen before the lock is trusted.                        *)
MissingUnchecked(a) ==
  /\ job[a].at = "check"
  /\ Advance(a, "build")
  /\ UNCHANGED <<process, keyring, qdrant>>

Missing(a) ==
  /\ job[a].at = "check"
  /\ cell[job[a].cell] = 0
  /\ Advance(a, "build")
  /\ UNCHANGED <<process, keyring, qdrant>>

(* The router's builder asks for the document store as any caller would.    *)
CallPart(a) ==
  /\ job[a].at = "build"
  /\ PartOf(job[a].cell) # {}
  /\ job[a].got = 0
  /\ \E p \in PartOf(job[a].cell) :
       job' = [job EXCEPT ![a] = [at |-> FirstLook(p), cell |-> p,
                                  within |-> TRUE, got |-> 0]]
  /\ UNCHANGED <<process, keyring, qdrant>>

Build(a) ==
  LET c == job[a].cell
  IN /\ job[a].at = "build"
     /\ PartOf(c) # {} => job[a].got # 0
     /\ built' = [built EXCEPT ![c] = @ + 1]
     /\ cell' = [cell EXCEPT ![c] = built[c] + 1]
     /\ parts' = [parts EXCEPT ![c] = {<<p, job[a].got>> : p \in PartOf(c)}]
     /\ Release(LockOf(c), 1)
     /\ Advance(a, "return")
     /\ UNCHANGED <<handed, keyring, qdrant>>

(* Faulty: the part's builder lets go, the router's keeps its hold.         *)
BuildFailsInside(a) ==
  /\ job[a].at = "build"
  /\ PartOf(job[a].cell) # {} => job[a].got # 0
  /\ Release(LockOf(job[a].cell), 1)
  /\ Finish(a)
  /\ UNCHANGED <<cell, parts, built, handed, keyring, qdrant>>

(* Something is not configured or cannot be imported: the exception leaves  *)
(* every with block on its way to the caller, and no global is set.         *)
BuildFails(a) ==
  /\ job[a].at = "build"
  /\ PartOf(job[a].cell) # {} => job[a].got # 0
  /\ Release(LockOf(job[a].cell), IF job[a].within THEN 2 ELSE 1)
  /\ Finish(a)
  /\ UNCHANGED <<cell, parts, built, handed, keyring, qdrant>>

(* The document store is returned to the router's builder.                  *)
ReturnPart(a) ==
  /\ job[a].at = "return"
  /\ job[a].within
  /\ job' = [job EXCEPT ![a] = [at |-> "build", cell |-> "router",
                                within |-> FALSE, got |-> cell[job[a].cell]]]
  /\ UNCHANGED <<process, keyring, qdrant>>

Return(a) ==
  LET c == job[a].cell
  IN /\ job[a].at = "return"
     /\ ~job[a].within
     /\ handed' = handed \cup {<<c, cell[c]>>}
     /\ IF c = "api_key_store"
          THEN job' = [job EXCEPT ![a].at = "use", ![a].got = cell[c]]
          ELSE Finish(a)
     /\ UNCHANGED <<cell, parts, holder, depth, built, keyring, qdrant>>

-----------------------------------------------------------------------------
(* The API key store: each operation is one block under the store's lock.   *)

Resolve(s, k) == {r[3] : r \in {x \in records : x[1] = s /\ x[2] = k}}

Without(s, k) == {r \in records : ~(r[1] = s /\ r[2] = k)}

Register(a) ==
  /\ job[a].at = "use"
  /\ \E k \in Keys :
       /\ records' = Without(job[a].got, k)
                       \cup {<<job[a].got, k, KeyOwner[k]>>}
       /\ issued' = issued \cup {k}
  /\ Finish(a)
  /\ UNCHANGED <<process, qdrant>>

(* Faulty: the old record stays.                                            *)
OldKept(s, old, new) ==
  Without(s, new) \cup {<<s, new, o>> : o \in Resolve(s, old)}

(* The new key takes the old one's record over.                             *)
Rotated(s, old, new) ==
  {r \in Without(s, new) : ~(r[1] = s /\ r[2] = old)}
    \cup {<<s, new, o>> : o \in Resolve(s, old)}

(* Rotating a key that is not registered raises KeyError.                   *)
Rotate(a) ==
  /\ job[a].at = "use"
  /\ \E old, new \in Keys :
       /\ KeyOwner[old] = KeyOwner[new]
       /\ Resolve(job[a].got, old) # {}
       /\ records' = Rotated(job[a].got, old, new)
       /\ issued' = (issued \ {old}) \cup {new}
  /\ Finish(a)
  /\ UNCHANGED <<process, qdrant>>

(* A request is authenticated, or a rotation refused: nothing is written.   *)
ReadKeys(a) ==
  /\ job[a].at = "use"
  /\ Finish(a)
  /\ UNCHANGED <<process, keyring, qdrant>>

-----------------------------------------------------------------------------
(* Provisioning: bootstrap_collection.                                      *)

StartRun(a) ==
  /\ job[a] = Idle
  /\ job' = [job EXCEPT ![a] = [at |-> "exists", done |-> {}]]
  /\ UNCHANGED <<process, keyring, qdrant>>

CollectionExists(a) ==
  /\ job[a].at = "exists"
  /\ Advance(a, IF collection = "absent" THEN "create" ELSE "verify")
  /\ UNCHANGED <<process, keyring, qdrant>>

CreateCollection(a) ==
  /\ job[a].at = "create"
  /\ collection = "absent"
  /\ collection' = "fits"
  /\ Advance(a, "index")
  /\ UNCHANGED <<indexes, reported, process, keyring>>

(* Faulty: a collection that is there is taken to be provisioned.           *)
VerifyOnly(a) ==
  /\ job[a].at = "verify"
  /\ collection = "fits"
  /\ job' = [job EXCEPT ![a].at = "index", ![a].done = Fields]
  /\ UNCHANGED <<process, keyring, qdrant>>

VerifyVectorSize(a) ==
  /\ job[a].at = "verify"
  /\ collection = "fits"
  /\ Advance(a, "index")
  /\ UNCHANGED <<process, keyring, qdrant>>

(* An index that is there already is answered 400 or 409, which counts.     *)
EnsurePayloadIndex(a) ==
  /\ job[a].at = "index"
  /\ \E f \in Fields \ job[a].done :
       /\ indexes' = indexes \cup {f}
       /\ job' = [job EXCEPT ![a].done = @ \cup {f}]
  /\ UNCHANGED <<collection, reported, process, keyring>>

ReportProvisioned(a) ==
  /\ job[a].at = "index"
  /\ job[a].done = Fields
  /\ reported' = TRUE
  /\ Finish(a)
  /\ UNCHANGED <<collection, indexes, process, keyring>>

(* Another run created the collection first, its vectors have another size, *)
(* Qdrant cannot be reached, or the run is killed: it ends where it is.     *)
RunFails(a) ==
  /\ job[a].at \in {"exists", "create", "verify", "index"}
  /\ Finish(a)
  /\ UNCHANGED <<process, keyring, qdrant>>

(* Qdrant did what it was asked but its reply is lost.                      *)
ReplyLost(a) ==
  /\ \/ /\ job[a].at = "create"
        /\ collection = "absent"
        /\ collection' = "fits"
        /\ UNCHANGED indexes
     \/ /\ job[a].at = "index"
        /\ \E f \in Fields \ job[a].done : indexes' = indexes \cup {f}
        /\ UNCHANGED collection
  /\ Finish(a)
  /\ UNCHANGED <<reported, process, keyring>>

-----------------------------------------------------------------------------
CellStep(a) ==
  \/ Look(a) \/ Acquire(a) \/ Found(a) \/ Missing(a) \/ CallPart(a)
  \/ Build(a) \/ BuildFails(a) \/ ReturnPart(a) \/ Return(a)

KeyStep(a) == Register(a) \/ Rotate(a) \/ ReadKeys(a)

RunStep(a) ==
  \/ CollectionExists(a) \/ CreateCollection(a) \/ VerifyVectorSize(a)
  \/ EnsurePayloadIndex(a) \/ ReportProvisioned(a)
  \/ RunFails(a) \/ ReplyLost(a)

Next == \E a \in Actors :
          \/ \E c \in Cells : Call(a, c)
          \/ StartRun(a) \/ CellStep(a) \/ KeyStep(a) \/ RunStep(a)

Spec == Init /\ [][Next]_vars

(* A thread that can go on does; that it gets a lock others keep taking is  *)
(* not assumed, nor that anybody calls.                                     *)
FairSpec ==
  /\ Spec
  /\ \A a \in Actors : WF_vars(CellStep(a) \/ KeyStep(a) \/ RunStep(a))

-----------------------------------------------------------------------------
(* Properties.                                                              *)

TypeOK ==
  /\ cell \in [Cells -> Nat]
  /\ parts \in [Cells -> SUBSET (Cells \X Nat)]
  /\ holder \in [Locks -> Actors \cup {Nobody}]
  /\ depth \in [Locks -> 0..2]
  /\ job \in [Actors -> {Idle} \cup CellJob \cup RunJob]
  /\ records \subseteq Nat \X Keys \X {KeyOwner[k] : k \in Keys}
  /\ collection \in {"absent", "fits", "misfits"}
  /\ indexes \subseteq Fields
  /\ built \in [Cells -> Nat]
  /\ handed \subseteq Cells \X Nat
  /\ issued \subseteq Keys
  /\ reported \in BOOLEAN

(* Collaborators are once-cells: however first requests race and builds     *)
(* fail, each global is set once, everyone is handed what it holds and      *)
(* never None, and the router is joined to the document store that the      *)
(* other requests use.                                                      *)
Collaborators == INSTANCE OnceCells WITH
  Cells <- Cells, PartOf <- PartOf,
  value <- cell, parts <- parts, handed <- handed

AreOnceCells == Collaborators!Spec

(* Exactly the keys that were issued and not rotated out authenticate, each *)
(* as its owner: no key is left in a store that lost a race to be built.    *)
IssuedKeysResolve ==
  "api_key_store" \in Cells =>
    \A k \in Keys :
      Resolve(cell["api_key_store"], k) =
        IF k \in issued THEN {KeyOwner[k]} ELSE {}

(* Once a provisioning run has reported success, vectors fit and every      *)
(* field that retrieval filters by is indexed, whatever other runs did, and *)
(* wherever they failed.                                                    *)
ReportedIsProvisioned == reported => collection = "fits" /\ indexes = Fields

(* Whoever takes a lock lets go of it, also when the build fails and when   *)
(* one collaborator needs another: no first request waits for ever on one   *)
(* that is not going on.                                                    *)
LocksAreFreed ==
  \A l \in Locks, a \in Actors : holder[l] = a ~> holder[l] # a

=============================================================================
