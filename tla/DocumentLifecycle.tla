-------------------------- MODULE DocumentLifecycle --------------------------
(***************************************************************************)
(* Upload and erasure of documents over the two stores the service keeps:   *)
(* the Postgres structure store (documents, sections, erasure_outbox) and   *)
(* the Qdrant vector store.  Workers are the threads and coroutines that    *)
(* carry requests; each step of a worker is one transaction, one call to    *)
(* Qdrant, or one local computation, so that every interleaving of          *)
(* concurrent requests, and a failure between any two steps, is explored.   *)
(*                                                                          *)
(* ingestion/pipeline.py drives an upload, backend/app/adapters/stores.py   *)
(* holds its transactions, backend/app/adapters/document_store.py the       *)
(* erasure, backend/app/api/documents.py the answers.                       *)
(***************************************************************************)
EXTENDS Naturals, FiniteSets

CONSTANTS
  Tenants,        \* tenants whose uploads are followed
  Callers,        \* tenants that may ask for an erasure
  Contents,       \* distinct byte contents of uploads
  Shape,          \* what parsing finds in each content, see Shapes
  Workers,        \* concurrently running requests
  Regions,        \* residency regions a caller may ask for
  ForceModes,     \* values of IngestInput.force_reingest in use
  ErasureStores,  \* db.models.ERASURE_STORE_VALUES
  Faults,         \* kinds of failure that may happen, see FaultKinds
  NoRow           \* no row of that key in the documents table

(* sectioned: headings and text; blank: headings, no text to chunk; flat:   *)
(* no usable structure (Scenario C); unreadable: parsing raises ParseError. *)
Shapes == {"sectioned", "blank", "flat", "unreadable"}

FaultKinds == {"crash", "postgres", "embedder", "qdrant"}

(* ingestion/ids.py derives the key from the tenant and the content hash.   *)
DocIds == Tenants \X Contents

Owner(d) == d[1]
ShapeOf(d) == Shape[d[2]]
Structured(d) == ShapeOf(d) \in {"sectioned", "blank"}

Row == [status: {"indexed", "fallback_only", "ephemeral"},
        hashed: BOOLEAN, fallback: BOOLEAN, region: Regions,
        tombstoned: BOOLEAN]

(* The points of one document in Qdrant: a failed upsert may apply in part. *)
PointStates == {"none", "part", "all"}

Idle == [at |-> "idle"]

IngestJob == [at: {"find", "select", "insert", "embed", "upsert", "rollback",
                   "answer"},
              doc: DocIds, retain: BOOLEAN, force: BOOLEAN, region: Regions,
              existing: BOOLEAN]

DeleteJob == [at: {"tombstone", "receipt"}, doc: DocIds, by: Callers]

ASSUME ConstantsAssumption ==
  /\ Tenants \subseteq Callers
  /\ Shape \in [Contents -> Shapes]
  /\ ForceModes \subseteq BOOLEAN
  /\ Faults \subseteq FaultKinds
  /\ NoRow \notin Row
  /\ ErasureStores # {}

VARIABLES
  documents,   \* the documents table
  sections,    \* the documents that have rows in the sections table
  points,      \* the points of each document in Qdrant
  outbox,      \* pending rows of the erasure_outbox table
  job,         \* what each worker is doing
  \* History, written by no code and read by no action:
  offered,     \* documents some request asked to retain
  acked,       \* documents a request reported indexed after upserting
  receipts,    \* erasure receipts handed out, counted up to 2
  rolledBack   \* documents whose points a compensating rollback deleted

store == <<documents, sections, points, outbox>>
history == <<offered, acked, receipts, rolledBack>>
vars == <<documents, sections, points, outbox, job,
          offered, acked, receipts, rolledBack>>

Init ==
  /\ documents = [d \in DocIds |-> NoRow]
  /\ sections = {}
  /\ points = [d \in DocIds |-> "none"]
  /\ outbox = {}
  /\ job = [w \in Workers |-> Idle]
  /\ offered = {}
  /\ acked = {}
  /\ receipts = [d \in DocIds |-> 0]
  /\ rolledBack = {}

Exists(d) == documents[d] # NoRow
Live(d) == Exists(d) /\ ~documents[d].tombstoned
Tombstoned(d) == Exists(d) /\ documents[d].tombstoned

(* The lookup sees live rows with a content hash only.                      *)
FindDocIdByHash(d) == Live(d) /\ documents[d].hashed

Advance(w, step) == job' = [job EXCEPT ![w].at = step]
Finish(w) == job' = [job EXCEPT ![w] = Idle]
CountToTwo(n) == IF n < 2 THEN n + 1 ELSE 2

-----------------------------------------------------------------------------
(* Upload: lookup and parse.                                                *)

StartIngest(w) ==
  /\ job[w] = Idle
  /\ \E d \in DocIds, retain \in BOOLEAN, force \in ForceModes, r \in Regions :
       /\ job' = [job EXCEPT ![w] =
                    [at |-> "find", doc |-> d, retain |-> retain,
                     force |-> force, region |-> r, existing |-> FALSE]]
       /\ offered' = IF retain THEN offered \cup {d} ELSE offered
  /\ UNCHANGED <<store, acked, receipts, rolledBack>>

(* Faulty: the force flag is forgotten.                                     *)
IsDuplicateDespiteForce(j) == FindDocIdByHash(j.doc) /\ j.retain

(* An identical retained upload is answered from the existing row alone.    *)
IsDuplicate(j) == FindDocIdByHash(j.doc) /\ j.retain /\ ~j.force

AnswerDuplicate(w) ==
  /\ job[w].at = "find"
  /\ IsDuplicate(job[w])
  /\ job' = [job EXCEPT ![w].at = "answer", ![w].existing = TRUE]
  /\ UNCHANGED <<store, history>>

RejectUnreadable(w) ==
  /\ job[w].at = "find"
  /\ ~IsDuplicate(job[w])
  /\ ShapeOf(job[w].doc) = "unreadable"
  /\ Finish(w)
  /\ UNCHANGED <<store, history>>

(* Faulty: a no-retention duplicate goes on to write the row as well.       *)
LookupUpdatesDuplicates(w) ==
  LET j == job[w]
  IN /\ j.at = "find"
     /\ ~IsDuplicate(j)
     /\ ShapeOf(j.doc) # "unreadable"
     /\ job' = [job EXCEPT ![w].at = "select",
                           ![w].existing = FindDocIdByHash(j.doc)]
     /\ UNCHANGED <<store, history>>

(* A no-retention duplicate writes nothing; every other upload goes on to   *)
(* write the document row.                                                  *)
LookupAndParse(w) ==
  LET j == job[w]
      found == FindDocIdByHash(j.doc)
  IN /\ j.at = "find"
     /\ ~IsDuplicate(j)
     /\ ShapeOf(j.doc) # "unreadable"
     /\ job' = [job EXCEPT
                  ![w].at = IF found /\ ~j.retain THEN "answer" ELSE "select",
                  ![w].existing = found]
     /\ UNCHANGED <<store, history>>

-----------------------------------------------------------------------------
(* Upload: the transaction that writes the row and, when indexing, the      *)
(* sections.  SELECT ... FOR UPDATE holds a row that is there, so select    *)
(* and write are one step; it holds nothing when the row is absent.         *)

(* Faulty: no-retention uploads are indexed too.                            *)
IndexesWithoutRetention(j) == Structured(j.doc)

Indexes(j) == j.retain /\ Structured(j.doc)

(* Faulty: every flat upload is kept as indexed.                            *)
RowKeepsIndexed(j) ==
  LET flat == ~Structured(j.doc)
  IN [status |-> IF j.retain THEN "indexed" ELSE "ephemeral",
      hashed |-> j.retain, fallback |-> flat /\ ~j.retain,
      region |-> j.region, tombstoned |-> FALSE]

RowFor(j) ==
  LET flat == ~Structured(j.doc)
      keepsIndexed == j.existing /\ flat /\ j.retain
  IN [status |-> IF Indexes(j) \/ keepsIndexed THEN "indexed"
                 ELSE IF ~j.retain THEN "ephemeral" ELSE "fallback_only",
      hashed |-> j.retain,
      fallback |-> flat /\ ~keepsIndexed,
      region |-> j.region,
      tombstoned |-> FALSE]

(* Faulty: the old vectors are dropped before the new ones exist.           *)
CommitDropsVectors(j) ==
  /\ documents' = [documents EXCEPT ![j.doc] = RowFor(j)]
  /\ sections' = IF Indexes(j) THEN sections \cup {j.doc} ELSE sections
  /\ points' = [points EXCEPT ![j.doc] = "none"]
  /\ UNCHANGED <<outbox, history>>

CommitDocument(j) ==
  /\ documents' = [documents EXCEPT ![j.doc] = RowFor(j)]
  /\ sections' = IF Indexes(j) THEN sections \cup {j.doc} ELSE sections
  /\ UNCHANGED <<points, outbox, history>>

AfterCommit(j) ==
  IF Indexes(j) /\ ShapeOf(j.doc) = "sectioned" THEN "embed" ELSE "answer"

(* Faulty: the tombstone is not looked at.                                  *)
UpdateResurrects(w) ==
  /\ job[w].at = "select"
  /\ Exists(job[w].doc)
  /\ CommitDocument(job[w])
  /\ Advance(w, AfterCommit(job[w]))

(* Faulty: an update of a row is taken to have its vectors already.         *)
UpdateSkipsVectors(w) ==
  /\ job[w].at = "select"
  /\ Live(job[w].doc)
  /\ CommitDocument(job[w])
  /\ Advance(w, "answer")

UpdateDocument(w) ==
  /\ job[w].at = "select"
  /\ Live(job[w].doc)
  /\ CommitDocument(job[w])
  /\ Advance(w, AfterCommit(job[w]))

RefuseTombstoned(w) ==
  /\ job[w].at = "select"
  /\ Tombstoned(job[w].doc)
  /\ Finish(w)
  /\ UNCHANGED <<store, history>>

(* Faulty: the vectors are written before the row.                          *)
SelectAbsentVectorsFirst(w) ==
  /\ job[w].at = "select"
  /\ ~Exists(job[w].doc)
  /\ Advance(w, "embed")
  /\ UNCHANGED <<store, history>>

SelectAbsent(w) ==
  /\ job[w].at = "select"
  /\ ~Exists(job[w].doc)
  /\ Advance(w, "insert")
  /\ UNCHANGED <<store, history>>

(* Faulty: insert or overwrite, whatever is there by now.                   *)
InsertOverwrites(w) ==
  /\ job[w].at = "insert"
  /\ CommitDocument(job[w])
  /\ Advance(w, AfterCommit(job[w]))

InsertDocument(w) ==
  /\ job[w].at = "insert"
  /\ ~Exists(job[w].doc)
  /\ CommitDocument(job[w])
  /\ Advance(w, AfterCommit(job[w]))

(* Another upload of the same bytes inserted the row first: the primary key *)
(* is violated and the request is answered 503.                             *)
InsertConflict(w) ==
  /\ job[w].at = "insert"
  /\ Exists(job[w].doc)
  /\ Finish(w)
  /\ UNCHANGED <<store, history>>

-----------------------------------------------------------------------------
(* Upload: vectors, and the answer.                                         *)

(* What the two embedders may do with a batch: return vectors that fit the   *)
(* collection or not, raise what counts as their being unavailable, or raise*)
(* anything else.  BGE-M3 has 1024 dimensions and the collection 1536.      *)
OpenAIEmbedder == {"fits", "unavailable", "raises"}
BgeM3Embedder == {"misfits", "unavailable", "raises"}
FallbackEmbedder ==
  (OpenAIEmbedder \ {"unavailable"})
    \cup (IF "unavailable" \in OpenAIEmbedder THEN BgeM3Embedder ELSE {})

(* _validate_embed_dimension                                                *)
ValidDimension(result) == result = "fits"

EmbedChunks(w) ==
  /\ job[w].at = "embed"
  /\ \E result \in FallbackEmbedder : ValidDimension(result)
  /\ Advance(w, "upsert")
  /\ UNCHANGED <<store, history>>

SetPoints(d, s) ==
  /\ points' = [points EXCEPT ![d] = s]
  /\ UNCHANGED <<documents, sections, outbox>>

UpsertPoints(w) ==
  /\ job[w].at = "upsert"
  /\ SetPoints(job[w].doc, "all")
  /\ Advance(w, "answer")
  /\ UNCHANGED history

(* After a failed upsert every point of the document is deleted, whoever    *)
(* wrote it, and the request fails.                                         *)
RollBackPoints(w) ==
  /\ job[w].at = "rollback"
  /\ SetPoints(job[w].doc, "none")
  /\ rolledBack' = rolledBack \cup {job[w].doc}
  /\ Finish(w)
  /\ UNCHANGED <<offered, acked, receipts>>

WroteVectors(j) ==
  /\ Indexes(j)
  /\ ShapeOf(j.doc) = "sectioned"
  /\ j.existing => j.force

AnswerIngest(w) ==
  LET j == job[w]
  IN /\ j.at = "answer"
     /\ Finish(w)
     /\ acked' = IF WroteVectors(j) THEN acked \cup {j.doc} ELSE acked
     /\ UNCHANGED <<store, offered, receipts, rolledBack>>

-----------------------------------------------------------------------------
(* Erasure: the row is tombstoned and the outbox filled in one transaction. *)

StartDelete(w) ==
  /\ job[w] = Idle
  /\ \E d \in DocIds, t \in Callers :
       job' = [job EXCEPT ![w] = [at |-> "tombstone", doc |-> d, by |-> t]]
  /\ UNCHANGED <<store, history>>

MayErase(j) == Live(j.doc) /\ Owner(j.doc) = j.by

(* Faulty: only Qdrant is told.                                             *)
CommitTombstoneForQdrant(j) ==
  /\ documents' = [documents EXCEPT ![j.doc].tombstoned = TRUE]
  /\ outbox' = outbox \cup {<<j.doc, "qdrant">>}
  /\ UNCHANGED <<sections, points, history>>

(* Faulty: a store the outbox has no handler for is named as well.          *)
CommitTombstoneForCache(j) ==
  /\ documents' = [documents EXCEPT ![j.doc].tombstoned = TRUE]
  /\ outbox' = outbox \cup ({j.doc} \X (ErasureStores \cup {"cache"}))
  /\ UNCHANGED <<sections, points, history>>

CommitTombstone(j) ==
  /\ documents' = [documents EXCEPT ![j.doc].tombstoned = TRUE]
  /\ outbox' = outbox \cup ({j.doc} \X ErasureStores)
  /\ UNCHANGED <<sections, points, history>>

TombstoneDocument(w) ==
  /\ job[w].at = "tombstone"
  /\ MayErase(job[w])
  /\ CommitTombstone(job[w])
  /\ Advance(w, "receipt")

DeleteNotFound(w) ==
  /\ job[w].at = "tombstone"
  /\ ~MayErase(job[w])
  /\ Finish(w)
  /\ UNCHANGED <<store, history>>

AnswerDelete(w) ==
  /\ job[w].at = "receipt"
  /\ receipts' = [receipts EXCEPT ![job[w].doc] = CountToTwo(@)]
  /\ Finish(w)
  /\ UNCHANGED <<store, offered, acked, rolledBack>>

-----------------------------------------------------------------------------
(* Failures.                                                                *)

(* A transaction fails and is rolled back: the request is answered 503.     *)
DatabaseFails(w) ==
  /\ "postgres" \in Faults
  /\ job[w].at \in {"find", "select", "insert", "tombstone"}
  /\ Finish(w)
  /\ UNCHANGED <<store, history>>

(* A transaction commits but the connection is lost before its reply.       *)
CommitReplyLost(w) ==
  /\ "postgres" \in Faults
  /\ \/ job[w].at = "select" /\ Live(job[w].doc) /\ CommitDocument(job[w])
     \/ job[w].at = "insert" /\ ~Exists(job[w].doc) /\ CommitDocument(job[w])
     \/ job[w].at = "tombstone" /\ MayErase(job[w]) /\ CommitTombstone(job[w])
  /\ Finish(w)

(* Embedding raises, or yields vectors of the wrong dimension.  The row and *)
(* the sections are committed and stay.                                     *)
EmbedFails(w) ==
  /\ "embedder" \in Faults
  /\ job[w].at = "embed"
  /\ \E result \in FallbackEmbedder : ~ValidDimension(result)
  /\ Finish(w)
  /\ UNCHANGED <<store, history>>

(* Qdrant fails or answers something other than completed: the upsert may   *)
(* have applied wholly, in part, or not at all.                             *)
UpsertFails(w) ==
  /\ "qdrant" \in Faults
  /\ job[w].at = "upsert"
  /\ \E s \in {points[job[w].doc], "all"}
              \cup (IF points[job[w].doc] = "none" THEN {"part"} ELSE {}) :
       SetPoints(job[w].doc, s)
  /\ Advance(w, "rollback")
  /\ UNCHANGED history

RollbackFails(w) ==
  /\ "qdrant" \in Faults
  /\ job[w].at = "rollback"
  /\ Finish(w)
  /\ UNCHANGED <<store, history>>

(* The process dies: what it committed stays, nothing is undone.            *)
Crash(w) ==
  /\ "crash" \in Faults
  /\ job[w] # Idle
  /\ Finish(w)
  /\ UNCHANGED <<store, history>>

-----------------------------------------------------------------------------
IngestStep(w) ==
  \/ AnswerDuplicate(w) \/ RejectUnreadable(w) \/ LookupAndParse(w)
  \/ UpdateDocument(w) \/ RefuseTombstoned(w) \/ SelectAbsent(w)
  \/ InsertDocument(w) \/ InsertConflict(w)
  \/ EmbedChunks(w) \/ UpsertPoints(w) \/ RollBackPoints(w) \/ AnswerIngest(w)

DeleteStep(w) == TombstoneDocument(w) \/ DeleteNotFound(w) \/ AnswerDelete(w)

Start(w) == StartIngest(w) \/ StartDelete(w)

Fault(w) ==
  \/ DatabaseFails(w) \/ CommitReplyLost(w) \/ EmbedFails(w)
  \/ UpsertFails(w) \/ RollbackFails(w) \/ Crash(w)

Next == \E w \in Workers :
          Start(w) \/ IngestStep(w) \/ DeleteStep(w) \/ Fault(w)

Spec == Init /\ [][Next]_vars

-----------------------------------------------------------------------------
(* Properties.                                                              *)

TypeOK ==
  /\ documents \in [DocIds -> Row \cup {NoRow}]
  /\ sections \subseteq DocIds
  /\ points \in [DocIds -> PointStates]
  /\ outbox \subseteq DocIds \X ErasureStores
  /\ job \in [Workers -> {Idle} \cup IngestJob \cup DeleteJob]
  /\ offered \subseteq DocIds
  /\ acked \subseteq DocIds
  /\ receipts \in [DocIds -> 0..2]
  /\ rolledBack \subseteq DocIds

(* A document has vectors only once its row and the sections its chunks     *)
(* join to are committed, whatever fails or overlaps: the write order that  *)
(* pipeline.py argues for (Postgres before Qdrant).                         *)
VectorsHaveSections ==
  \A d \in DocIds : points[d] # "none" => Exists(d) /\ d \in sections

(* The outbox asks for exactly one deletion per store for each erased       *)
(* document, and for none of a document that is live: tombstone and outbox  *)
(* rows are one transaction, and no later upload clears the tombstone.      *)
OutboxMatchesTombstones ==
  outbox = {d \in DocIds : Tombstoned(d)} \X ErasureStores

(* However many deletes race, one erasure receipt is given per document,    *)
(* and only for a document that is erased; the others are answered 404.     *)
OneReceiptPerErasure ==
  \A d \in DocIds :
    /\ receipts[d] <= 1
    /\ receipts[d] = 1 => Tombstoned(d)

(* Only uploads that asked for retention leave sections, vectors or a       *)
(* content hash behind.                                                     *)
OnlyOfferedIsKept ==
  \A d \in DocIds :
    \/ d \in sections
    \/ points[d] # "none"
    \/ Exists(d) /\ documents[d].hashed
    => d \in offered

(* A document a client was told is indexed keeps all its vectors unless the *)
(* compensating rollback of some upload of it removed them: no crash, lost  *)
(* commit, embedder failure, no-retention upload or erasure does.           *)
AckedStaysSearchable ==
  \A d \in acked : points[d] = "all" \/ d \in rolledBack

(* What a request in progress relies on stays true while others run: a row  *)
(* and sections behind vectors on their way, a tombstone behind a receipt   *)
(* that only it will give, vectors behind an answer that will claim them.   *)
WriterHasSections(j) ==
  j.at \in {"embed", "upsert", "rollback"} =>
    Exists(j.doc) /\ j.doc \in sections

ReceiptIsDue(w) ==
  job[w].at = "receipt" =>
    /\ Tombstoned(job[w].doc)
    /\ receipts[job[w].doc] = 0
    /\ \A v \in Workers :
         job[v].at = "receipt" /\ job[v].doc = job[w].doc => v = w

AnswerIsTrue(j) ==
  j.at = "answer" /\ WroteVectors(j) =>
    points[j.doc] = "all" \/ j.doc \in rolledBack

RetentionIsOffered(j) ==
  j.at \notin {"idle", "tombstone", "receipt"} /\ j.retain => j.doc \in offered

(* Erasure is final: a tombstoned row and its sections never change again,  *)
(* so no upload in flight can resurrect the document.                       *)
ErasureIsFinal ==
  [][\A d \in DocIds : Tombstoned(d) =>
       /\ documents'[d] = documents[d]
       /\ d \in sections' <=> d \in sections]_vars

(* Vectors of an erased document change only by uploads that were writing   *)
(* them when it was erased.  No upload joins these, so that a clean-up made *)
(* once they have ended is final.                                           *)
Writers(d) ==
  {w \in Workers : /\ job[w].at \in {"embed", "upsert", "rollback"}
                   /\ job[w].doc = d}

LateVectorsAreInFlight ==
  [][\A d \in DocIds : Tombstoned(d) =>
       /\ Writers(d)' \subseteq Writers(d)
       /\ points'[d] # points[d] => Writers(d) # {}]_vars

(* The whole is an ErasableStore: whatever overlaps and fails, each step is *)
(* seen outside as one atomic step of it, or not at all.                    *)
StateOf(d) == IF ~Exists(d) THEN "absent"
              ELSE IF documents[d].tombstoned THEN "erased" ELSE "live"

Erasable == INSTANCE ErasableStore WITH
  Documents <- DocIds,
  state <- [d \in DocIds |-> StateOf(d)],
  vectors <- points,
  receipts <- receipts

IsErasableStore == Erasable!Spec

-----------------------------------------------------------------------------
(* What a comment of the repository says of these steps; the code differs.  *)

(* pipeline.py:510-515 says the rollback keeps Qdrant consistent with       *)
(* Postgres: what was reported indexed keeps its vectors.                   *)
RollbackKeepsAcked == \A d \in acked : points[d] = "all"

=============================================================================
