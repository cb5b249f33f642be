---------------------------- MODULE DocumentProofs ----------------------------
(***************************************************************************)
(* Theorems about the life of documents.  First of DocumentLifecycle, for   *)
(* all tenants, contents, shapes, workers, regions and kinds of failure.    *)
(*                                                                          *)
(* Then of DocumentService: it is the lifecycle, so that all of those hold  *)
(* of it, without forced re-ingestion a row tells what was kept, and where  *)
(* nothing fails the two stores agree.                                      *)
(*                                                                          *)
(* Last of DocumentReaders, for any readers, processes and caches: the      *)
(* readers only look, so that the lifecycle's theorems hold beside them; no *)
(* read that began after an erasure sees the document; and what a read      *)
(* shows was readable at one moment of it.  For these only what a request   *)
(* itself reads matters: the caches, the prompts that they fill and the     *)
(* totals of lists may be anything.  The caches are bounded and hold one    *)
(* entry of a document.                                                     *)
(***************************************************************************)
EXTENDS DocumentService, DocumentReaders, SequenceLemmas, FiniteSetTheorems


(* A worker that carries no request is not in any step of one.              *)
LEMMA IdleIsApart ==
  /\ Idle.at = "idle"
  /\ \A j \in IngestJob : j # Idle /\ j.at \notin {"idle", "tombstone", "receipt"}
  /\ \A j \in DeleteJob : j # Idle /\ j.at \in {"tombstone", "receipt"}
  /\ Idle \notin IngestJob /\ Idle \notin DeleteJob
BY DEF Idle, IngestJob, DeleteJob

(* The shape of a job follows from the step it is in.                       *)
LEMMA JobKinds ==
  ASSUME TypeOK, NEW w \in Workers
  PROVE  /\ job[w] # Idle =>
              job[w] \in IngestJob \/ job[w] \in DeleteJob
         /\ job[w].at \in {"find", "select", "insert", "embed", "upsert",
                           "rollback", "answer"} => job[w] \in IngestJob
         /\ job[w].at \in {"tombstone", "receipt"} => job[w] \in DeleteJob
         /\ job[w] \in IngestJob => job[w].doc \in DocIds
         /\ job[w] \in DeleteJob => job[w].doc \in DocIds
<1>1. job[w] \in {Idle} \cup IngestJob \cup DeleteJob
  BY DEF TypeOK
<1> QED
  BY <1>1, IdleIsApart DEF IngestJob, DeleteJob

(* The row an upload writes is a row of the table, never a tombstone.       *)
LEMMA RowForIsRow ==
  ASSUME NEW j \in IngestJob
  PROVE  /\ RowFor(j) \in Row
         /\ RowFor(j) # NoRow
         /\ ~RowFor(j).tombstoned
         /\ RowFor(j).hashed = j.retain
<1> DEFINE r == RowFor(j)
<1>1. r.status \in {"indexed", "fallback_only", "ephemeral"}
  BY DEF RowFor
<1>2. r.hashed = j.retain /\ j.retain \in BOOLEAN
  BY DEF RowFor, IngestJob
<1>3. r.fallback \in BOOLEAN
  BY DEF RowFor
<1>4. r.region \in Regions
  BY DEF RowFor, IngestJob
<1>5. r.tombstoned = FALSE
  BY DEF RowFor
<1>6. r = [status |-> r.status, hashed |-> r.hashed, fallback |-> r.fallback,
           region |-> r.region, tombstoned |-> r.tombstoned]
  BY Zenon DEF RowFor
<1>7. r \in Row
  <2> HIDE DEF r
  <2> QED
    BY <1>1, <1>2, <1>3, <1>4, <1>5, <1>6 DEF Row
<1> QED
  BY <1>2, <1>5, <1>7, ConstantsAssumption

(* Moving an upload to another of its steps leaves an upload.               *)
LEMMA AdvanceIngest ==
  ASSUME NEW j \in IngestJob,
         NEW s \in {"find", "select", "insert", "embed", "upsert",
                    "rollback", "answer"},
         NEW e \in BOOLEAN
  PROVE  /\ [j EXCEPT !.at = s] \in IngestJob
         /\ [j EXCEPT !.at = s, !.existing = e] \in IngestJob
BY DEF IngestJob

LEMMA InitTypeOK == Init => TypeOK
BY DEF Init, TypeOK, PointStates


(* Each step leaves a job of a known shape behind.                          *)
LEMMA JobStep ==
  ASSUME TypeOK, NEW w \in Workers
  PROVE  /\ Finish(w) =>
              job' \in [Workers -> {Idle} \cup IngestJob \cup DeleteJob]
         /\ \A s \in {"find", "select", "insert", "embed", "upsert",
                      "rollback", "answer"} :
              job[w] \in IngestJob /\ Advance(w, s) =>
                job' \in [Workers -> {Idle} \cup IngestJob \cup DeleteJob]
         /\ job[w] \in DeleteJob /\ Advance(w, "receipt") =>
              job' \in [Workers -> {Idle} \cup IngestJob \cup DeleteJob]
<1>1. job \in [Workers -> {Idle} \cup IngestJob \cup DeleteJob]
  BY DEF TypeOK
<1>2. \A s \in {"find", "select", "insert", "embed", "upsert", "rollback",
                "answer"} :
        job[w] \in IngestJob => [job[w] EXCEPT !.at = s] \in IngestJob
  BY DEF IngestJob
<1>3. job[w] \in DeleteJob => [job[w] EXCEPT !.at = "receipt"] \in DeleteJob
  BY DEF DeleteJob
<1> QED
  BY <1>1, <1>2, <1>3 DEF Finish, Advance

(* What moving or ending one job does to all jobs.                          *)
LEMMA AdvanceEffect ==
  ASSUME TypeOK, NEW w \in Workers,
         job[w] \in IngestJob \/ job[w] \in DeleteJob,
         NEW s, Advance(w, s)
  PROVE  /\ job'[w].at = s
         /\ job'[w].doc = job[w].doc
         /\ job[w] \in IngestJob => /\ job'[w].retain = job[w].retain
                                    /\ job'[w].force = job[w].force
                                    /\ job'[w].existing = job[w].existing
         /\ \A v \in Workers \ {w} : job'[v] = job[v]
<1>1. job'[w] = [job[w] EXCEPT !.at = s] /\ \A v \in Workers \ {w} : job'[v] = job[v]
  BY DEF Advance, TypeOK
<1> QED
  BY <1>1 DEF IngestJob, DeleteJob

LEMMA FinishEffect ==
  ASSUME TypeOK, NEW w \in Workers, Finish(w)
  PROVE  /\ job'[w] = Idle
         /\ job'[w].at = "idle"
         /\ \A v \in Workers \ {w} : job'[v] = job[v]
BY IdleIsApart DEF Finish, TypeOK

LEMMA LookupEffect ==
  ASSUME TypeOK, NEW w \in Workers, AnswerDuplicate(w) \/ LookupAndParse(w)
  PROVE  /\ job[w] \in IngestJob
         /\ \A v \in Workers \ {w} : job'[v] = job[v]
         /\ job'[w].at \in {"answer", "select"}
         /\ job'[w].doc = job[w].doc
         /\ job'[w].retain = job[w].retain
         /\ job'[w].force = job[w].force
<1>1. job[w] \in IngestJob
  BY JobKinds DEF AnswerDuplicate, LookupAndParse
<1> DEFINE found == FindDocIdByHash(job[w].doc)
           Moves(s, e) == job' = [job EXCEPT ![w].at = s, ![w].existing = e]
<1>2. Moves("answer", TRUE) \/ Moves("answer", found) \/ Moves("select", found)
  <2>1. CASE AnswerDuplicate(w)
    BY <2>1 DEF AnswerDuplicate
  <2>2. CASE LookupAndParse(w)
    BY <2>2 DEF LookupAndParse
  <2> QED
    BY <2>1, <2>2
<1> HIDE DEF found
<1>3. ASSUME NEW s \in {"answer", "select"}, NEW e, Moves(s, e)
      PROVE  /\ job'[w] = [job[w] EXCEPT !.at = s, !.existing = e]
             /\ \A v \in Workers \ {w} : job'[v] = job[v]
  BY <1>3 DEF TypeOK
<1> HIDE DEF Moves
<1>4. PICK s \in {"answer", "select"} : Moves(s, TRUE) \/ Moves(s, found)
  BY <1>2
<1> QED
  BY <1>1, <1>3, <1>4 DEF IngestJob

(* Writing a row and its sections keeps the tables well typed.              *)
LEMMA CommitStep ==
  ASSUME TypeOK, NEW j \in IngestJob, CommitDocument(j)
  PROVE  /\ documents' \in [DocIds -> Row \cup {NoRow}]
         /\ sections' \subseteq DocIds
<1>1. j.doc \in DocIds /\ RowFor(j) \in Row
  BY RowForIsRow DEF IngestJob
<1> QED
  BY <1>1 DEF CommitDocument, TypeOK

LEMMA TombstoneStep ==
  ASSUME TypeOK, NEW j \in DeleteJob, MayErase(j), CommitTombstone(j)
  PROVE  /\ documents' \in [DocIds -> Row \cup {NoRow}]
         /\ outbox' \subseteq DocIds \X ErasureStores
<1>1. j.doc \in DocIds
  BY DEF DeleteJob
<1>2. documents[j.doc] \in Row
  BY <1>1 DEF MayErase, Live, Exists, TypeOK
<1>3. [documents[j.doc] EXCEPT !.tombstoned = TRUE] \in Row
  BY <1>2 DEF Row
<1> QED
  BY <1>1, <1>3 DEF CommitTombstone, TypeOK

LEMMA NextTypeOK == TypeOK /\ [Next]_vars => TypeOK'
<1> SUFFICES ASSUME TypeOK, [Next]_vars
             PROVE  TypeOK'
  OBVIOUS
<1> USE DEF history, store
<1>1. ASSUME UNCHANGED vars
      PROVE  TypeOK'
  BY <1>1 DEF TypeOK, vars
<1>2. ASSUME NEW w \in Workers, Start(w)
      PROVE  TypeOK'
  <2>1. CASE StartIngest(w)
    <3>1. PICK d \in DocIds, retain \in BOOLEAN, force \in ForceModes,
               r \in Regions :
            /\ job' = [job EXCEPT ![w] =
                         [at |-> "find", doc |-> d, retain |-> retain,
                          force |-> force, region |-> r, existing |-> FALSE]]
            /\ offered' = IF retain THEN offered \cup {d} ELSE offered
      BY <2>1 DEF StartIngest
    <3>2. [at |-> "find", doc |-> d, retain |-> retain, force |-> force,
           region |-> r, existing |-> FALSE] \in IngestJob
      BY ConstantsAssumption DEF IngestJob
    <3> QED
      BY <2>1, <3>1, <3>2 DEF StartIngest, TypeOK
  <2>2. CASE StartDelete(w)
    <3>1. PICK d \in DocIds, t \in Callers :
            job' = [job EXCEPT ![w] = [at |-> "tombstone", doc |-> d, by |-> t]]
      BY <2>2 DEF StartDelete
    <3>2. [at |-> "tombstone", doc |-> d, by |-> t] \in DeleteJob
      BY DEF DeleteJob
    <3> QED
      BY <2>2, <3>1, <3>2 DEF StartDelete, TypeOK
  <2> QED
    BY <1>2, <2>1, <2>2 DEF Start
<1>3. ASSUME NEW w \in Workers, IngestStep(w)
      PROVE  TypeOK'
  <2>1. CASE AnswerDuplicate(w)
    <3>1. job[w] \in IngestJob
      BY <2>1, JobKinds DEF AnswerDuplicate
    <3>2. [job[w] EXCEPT !.at = "answer", !.existing = TRUE] \in IngestJob
      BY <3>1 DEF IngestJob
    <3> QED
      BY <2>1, <3>2 DEF AnswerDuplicate, TypeOK
  <2>2. CASE RejectUnreadable(w)
    BY <2>2, JobStep DEF RejectUnreadable, TypeOK
  <2>3. CASE LookupAndParse(w)
    <3> DEFINE found == FindDocIdByHash(job[w].doc)
               s == IF found /\ ~job[w].retain THEN "answer" ELSE "select"
    <3>1. job[w] \in IngestJob
      BY <2>3, JobKinds DEF LookupAndParse
    <3>2. found \in BOOLEAN
      BY DEF FindDocIdByHash, Live
    <3>3. /\ job' = [job EXCEPT ![w].at = s, ![w].existing = found]
          /\ UNCHANGED <<store, history>>
      BY <2>3 DEF LookupAndParse
    <3>4. s \in {"select", "answer"}
      OBVIOUS
    <3> HIDE DEF found, s
    <3>5. [job[w] EXCEPT !.at = s, !.existing = found] \in IngestJob
      BY <3>1, <3>2, <3>4 DEF IngestJob
    <3>6. job' = [job EXCEPT ![w] = [job[w] EXCEPT !.at = s, !.existing = found]]
      BY <3>3 DEF TypeOK
    <3> QED
      BY <3>3, <3>5, <3>6 DEF TypeOK
  <2>4. CASE UpdateDocument(w) \/ InsertDocument(w)
    <3>1. job[w] \in IngestJob /\ CommitDocument(job[w])
      BY <2>4, JobKinds DEF UpdateDocument, InsertDocument
    <3>2. job' \in [Workers -> {Idle} \cup IngestJob \cup DeleteJob]
      BY <2>4, <3>1, JobStep DEF UpdateDocument, InsertDocument, AfterCommit
    <3> QED
      BY <3>1, <3>2, CommitStep DEF CommitDocument, TypeOK
  <2>5. CASE RefuseTombstoned(w)
    BY <2>5, JobStep DEF RefuseTombstoned, TypeOK
  <2>6. CASE SelectAbsent(w)
    BY <2>6, JobKinds, JobStep DEF SelectAbsent, TypeOK
  <2>7. CASE InsertConflict(w)
    BY <2>7, JobStep DEF InsertConflict, TypeOK
  <2>8. CASE EmbedChunks(w)
    BY <2>8, JobKinds, JobStep DEF EmbedChunks, TypeOK
  <2>9. CASE UpsertPoints(w)
    BY <2>9, JobKinds, JobStep DEF UpsertPoints, SetPoints, PointStates, TypeOK
  <2>10. CASE RollBackPoints(w)
    BY <2>10, JobKinds, JobStep
       DEF RollBackPoints, SetPoints, PointStates, TypeOK
  <2>11. CASE AnswerIngest(w)
    BY <2>11, JobKinds, JobStep DEF AnswerIngest, CountToTwo, TypeOK
  <2> QED
    BY <1>3, <2>1, <2>2, <2>3, <2>4, <2>5, <2>6, <2>7, <2>8, <2>9, <2>10, <2>11
       DEF IngestStep
<1>4. ASSUME NEW w \in Workers, DeleteStep(w)
      PROVE  TypeOK'
  <2>1. CASE TombstoneDocument(w)
    <3>1. job[w] \in DeleteJob
      BY <2>1, JobKinds DEF TombstoneDocument
    <3> QED
      BY <2>1, <3>1, JobStep, TombstoneStep
         DEF TombstoneDocument, CommitTombstone, TypeOK
  <2>2. CASE DeleteNotFound(w)
    BY <2>2, JobStep DEF DeleteNotFound, TypeOK
  <2>3. CASE AnswerDelete(w)
    BY <2>3, JobKinds, JobStep DEF AnswerDelete, CountToTwo, TypeOK
  <2> QED
    BY <1>4, <2>1, <2>2, <2>3 DEF DeleteStep
<1>5. ASSUME NEW w \in Workers, Fault(w)
      PROVE  TypeOK'
  <2>1. CASE DatabaseFails(w) \/ EmbedFails(w) \/ RollbackFails(w) \/ Crash(w)
    BY <2>1, JobStep DEF DatabaseFails, EmbedFails, RollbackFails, Crash, TypeOK
  <2>2. CASE CommitReplyLost(w)
    <3>1. job' \in [Workers -> {Idle} \cup IngestJob \cup DeleteJob]
      BY <2>2, JobStep DEF CommitReplyLost
    <3>2. CASE CommitDocument(job[w]) /\ job[w].at \in {"select", "insert"}
      BY <3>1, <3>2, JobKinds, CommitStep DEF CommitDocument, TypeOK
    <3>3. CASE /\ CommitTombstone(job[w])
               /\ MayErase(job[w])
               /\ job[w].at = "tombstone"
      BY <3>1, <3>3, JobKinds, TombstoneStep DEF CommitTombstone, TypeOK
    <3> QED
      BY <2>2, <3>2, <3>3 DEF CommitReplyLost
  <2>3. CASE UpsertFails(w)
    <3>1. points' \in [DocIds -> PointStates]
      BY <2>3, JobKinds DEF UpsertFails, SetPoints, PointStates, TypeOK
    <3> QED
      BY <2>3, <3>1, JobKinds, JobStep DEF UpsertFails, SetPoints, TypeOK
  <2> QED
    BY <1>5, <2>1, <2>2, <2>3 DEF Fault
<1> QED
  BY <1>1, <1>2, <1>3, <1>4, <1>5 DEF Next

(* Every table, queue and job holds only values of its type.                *)
THEOREM TypeCorrect == Spec => []TypeOK
BY InitTypeOK, NextTypeOK, PTL DEF Spec

-----------------------------------------------------------------------------
(* Vectors never outrun the row and sections they join to.                  *)

VectorInv ==
  /\ VectorsHaveSections
  /\ \A w \in Workers : WriterHasSections(job[w])

LEMMA CommitEffect ==
  ASSUME TypeOK, NEW j \in IngestJob, CommitDocument(j)
  PROVE  /\ \A d \in DocIds : Exists(d) => Exists(d)'
         /\ Exists(j.doc)'
         /\ sections \subseteq sections'
         /\ Indexes(j) => j.doc \in sections'
         /\ points' = points
<1>1. j.doc \in DocIds /\ RowFor(j) # NoRow
  BY RowForIsRow DEF IngestJob
<1> QED
  BY <1>1 DEF CommitDocument, Exists, TypeOK

LEMMA TombstoneEffect ==
  ASSUME TypeOK, NEW j \in DeleteJob, MayErase(j), CommitTombstone(j)
  PROVE  /\ j.doc \in DocIds
         /\ ~Tombstoned(j.doc)
         /\ \A d \in DocIds : Exists(d)' <=> Exists(d)
         /\ \A d \in DocIds : Tombstoned(d)' <=> Tombstoned(d) \/ d = j.doc
<1>1. j.doc \in DocIds
  BY DEF DeleteJob
<1>2. documents[j.doc] \in Row /\ ~documents[j.doc].tombstoned
  BY <1>1 DEF MayErase, Live, Exists, TypeOK
<1>3. [documents[j.doc] EXCEPT !.tombstoned = TRUE] \in Row
  BY <1>2 DEF Row
<1>4. [documents[j.doc] EXCEPT !.tombstoned = TRUE] # NoRow
  BY <1>3, ConstantsAssumption
<1>5. [documents[j.doc] EXCEPT !.tombstoned = TRUE].tombstoned
  BY <1>2 DEF Row
<1>6. documents' = [documents EXCEPT ![j.doc] =
                      [documents[j.doc] EXCEPT !.tombstoned = TRUE]]
  BY DEF CommitTombstone
<1>7. documents[j.doc] # NoRow
  BY DEF MayErase, Live, Exists
<1> QED
  BY <1>1, <1>2, <1>4, <1>5, <1>6, <1>7 DEF Exists, Tombstoned, TypeOK

(* A step that takes no row, no section away and adds no vectors keeps      *)
(* VectorInv when the one job it moves does.                                *)
LEMMA VectorsKept ==
  ASSUME TypeOK, VectorInv, NEW w \in Workers,
         \A d \in DocIds : Exists(d) => Exists(d)',
         sections \subseteq sections',
         points' = points,
         \A v \in Workers \ {w} : job'[v] = job[v],
         WriterHasSections(job[w])'
  PROVE  VectorInv'
<1>1. VectorsHaveSections'
  BY DEF VectorInv, VectorsHaveSections
<1>2. ASSUME NEW v \in Workers \ {w}, job[v].at \in {"embed", "upsert", "rollback"}
      PROVE  Exists(job[v].doc)' /\ job[v].doc \in sections'
  BY <1>2, JobKinds DEF VectorInv, WriterHasSections
<1>3. \A v \in Workers \ {w} : WriterHasSections(job[v])'
  BY <1>2 DEF WriterHasSections, Exists
<1> QED
  BY <1>1, <1>3 DEF VectorInv

(* An idle worker or a worker outside the vector steps satisfies its part.  *)
LEMMA OtherWriter ==
  ASSUME TypeOK, NEW w \in Workers,
         Finish(w) \/ job'[w].at \notin {"embed", "upsert", "rollback"}
  PROVE  WriterHasSections(job[w])'
BY IdleIsApart DEF Finish, WriterHasSections, TypeOK

LEMMA VectorStep == TypeOK /\ VectorInv /\ [Next]_vars => VectorInv'
<1> SUFFICES ASSUME TypeOK, VectorInv, [Next]_vars
             PROVE  VectorInv'
  OBVIOUS
<1> USE DEF history, store
<1>1. CASE UNCHANGED vars
  BY <1>1 DEF vars, VectorInv, VectorsHaveSections, WriterHasSections, Exists
<1>2. ASSUME NEW w \in Workers, UNCHANGED store,
             \A v \in Workers \ {w} : job'[v] = job[v],
             Finish(w) \/ job'[w].at \notin {"embed", "upsert", "rollback"}
      PROVE  VectorInv'
  <2>1. WriterHasSections(job[w])'
    BY <1>2, OtherWriter
  <2> QED
    BY <1>2, <2>1, VectorsKept DEF Exists
<1>3. ASSUME NEW w \in Workers, CommitDocument(job[w]),
             job[w].at \in {"select", "insert"},
             Finish(w) \/ Advance(w, AfterCommit(job[w]))
      PROVE  VectorInv'
  <2>1. job[w] \in IngestJob
    BY <1>3, JobKinds
  <2>2. \A v \in Workers \ {w} : job'[v] = job[v]
    BY <1>3 DEF Finish, Advance, TypeOK
  <2>3. WriterHasSections(job[w])'
    <3>1. CASE Finish(w)
      BY <3>1, OtherWriter
    <3>2. CASE Advance(w, AfterCommit(job[w])) /\ Indexes(job[w])
      BY <3>2, <1>3, <2>1, CommitEffect
         DEF Advance, WriterHasSections, Exists, TypeOK
    <3>3. CASE Advance(w, AfterCommit(job[w])) /\ ~Indexes(job[w])
      BY <3>3, OtherWriter DEF Advance, AfterCommit, TypeOK
    <3> QED
      BY <1>3, <3>1, <3>2, <3>3
  <2> QED
    BY <1>3, <2>1, <2>2, <2>3, CommitEffect, VectorsKept
<1>4. ASSUME NEW w \in Workers, CommitTombstone(job[w]), MayErase(job[w]),
             job[w].at = "tombstone",
             Finish(w) \/ Advance(w, "receipt")
      PROVE  VectorInv'
  <2>1. job[w] \in DeleteJob
    BY <1>4, JobKinds
  <2>2. \A v \in Workers \ {w} : job'[v] = job[v]
    BY <1>4, <2>1, AdvanceEffect, FinishEffect
  <2>3. Finish(w) \/ job'[w].at \notin {"embed", "upsert", "rollback"}
    BY <1>4, <2>1, AdvanceEffect
  <2>4. WriterHasSections(job[w])'
    BY <2>3, OtherWriter
  <2> QED
    BY <1>4, <2>1, <2>2, <2>4, TombstoneEffect, VectorsKept DEF CommitTombstone
<1>5. ASSUME NEW w \in Workers,
             job[w].at \in {"upsert", "rollback"},
             NEW s \in PointStates, SetPoints(job[w].doc, s),
             Finish(w) \/ Advance(w, "answer") \/ Advance(w, "rollback")
      PROVE  VectorInv'
  <2>1. job[w].doc \in DocIds /\ Exists(job[w].doc) /\ job[w].doc \in sections
    BY <1>5, JobKinds DEF VectorInv, WriterHasSections
  <2>2. VectorsHaveSections'
    BY <1>5, <2>1 DEF VectorInv, VectorsHaveSections, SetPoints, Exists, TypeOK
  <2>3. ASSUME NEW v \in Workers
        PROVE  WriterHasSections(job[v])'
    <3>1. job[w] \in IngestJob
      BY <1>5, JobKinds
    <3>2. CASE v = w
      BY <1>5, <2>1, <3>1, <3>2, AdvanceEffect, FinishEffect
         DEF WriterHasSections, SetPoints, Exists
    <3>3. CASE v # w
      BY <1>5, <3>1, <3>3, AdvanceEffect, FinishEffect
         DEF VectorInv, WriterHasSections, SetPoints, Exists
    <3> QED
      BY <3>2, <3>3
  <2> QED
    BY <2>2, <2>3 DEF VectorInv
<1>6. ASSUME NEW w \in Workers, EmbedChunks(w)
      PROVE  VectorInv'
  BY <1>6, VectorsKept
     DEF EmbedChunks, Advance, VectorInv, WriterHasSections, Exists, TypeOK
<1>7. ASSUME NEW w \in Workers, Start(w)
      PROVE  VectorInv'
  BY <1>7, <1>2 DEF Start, StartIngest, StartDelete, TypeOK
<1>8. ASSUME NEW w \in Workers, IngestStep(w)
      PROVE  VectorInv'
  <2>1. CASE AnswerDuplicate(w) \/ LookupAndParse(w)
    <3>1. /\ \A v \in Workers \ {w} : job'[v] = job[v]
          /\ job'[w].at \in {"answer", "select"}
      BY <2>1, LookupEffect
    <3> QED
      BY <2>1, <3>1, <1>2 DEF AnswerDuplicate, LookupAndParse
  <2>2. CASE UpdateDocument(w) \/ InsertDocument(w)
    BY <2>2, <1>3 DEF UpdateDocument, InsertDocument
  <2>3. CASE RejectUnreadable(w) \/ RefuseTombstoned(w) \/ InsertConflict(w)
             \/ AnswerIngest(w)
    BY <2>3, <1>2, FinishEffect
       DEF RejectUnreadable, RefuseTombstoned, InsertConflict, AnswerIngest
  <2>5. CASE SelectAbsent(w)
    BY <2>5, <1>2, JobKinds, AdvanceEffect DEF SelectAbsent
  <2>4. CASE UpsertPoints(w) \/ RollBackPoints(w)
    BY <2>4, <1>5 DEF UpsertPoints, RollBackPoints, PointStates
  <2> QED
    BY <1>6, <1>8, <2>1, <2>2, <2>3, <2>4, <2>5 DEF IngestStep
<1>9. ASSUME NEW w \in Workers, DeleteStep(w)
      PROVE  VectorInv'
  BY <1>9, <1>2, <1>4
     DEF DeleteStep, TombstoneDocument, DeleteNotFound, AnswerDelete, Finish,
         TypeOK
<1>10. ASSUME NEW w \in Workers, Fault(w)
       PROVE  VectorInv'
  <2>1. CASE DatabaseFails(w) \/ EmbedFails(w) \/ RollbackFails(w) \/ Crash(w)
    BY <2>1, <1>2
       DEF DatabaseFails, EmbedFails, RollbackFails, Crash, Finish, TypeOK
  <2>2. CASE CommitReplyLost(w)
    BY <2>2, <1>3, <1>4 DEF CommitReplyLost
  <2>3. CASE UpsertFails(w)
    <3>1. points[job[w].doc] \in PointStates
      BY <2>3, JobKinds DEF UpsertFails, TypeOK
    <3> QED
      BY <2>3, <3>1, <1>5 DEF UpsertFails, PointStates
  <2> QED
    BY <1>10, <2>1, <2>2, <2>3 DEF Fault
<1> QED
  BY <1>1, <1>7, <1>8, <1>9, <1>10 DEF Next

(* Vectors in Qdrant always belong to a document whose row and sections are *)
(* committed, whatever overlaps and whatever fails.                         *)
THEOREM VectorsFollowSections == Spec => []VectorsHaveSections
<1>1. Init => VectorInv
  BY IdleIsApart DEF Init, VectorInv, VectorsHaveSections, WriterHasSections
<1>2. VectorInv => VectorsHaveSections
  BY DEF VectorInv
<1> QED
  BY <1>1, <1>2, InitTypeOK, NextTypeOK, VectorStep, PTL DEF Spec

-----------------------------------------------------------------------------
(* Erasure: the tombstone is final, the outbox and the receipts follow it.  *)

(* Writing a row that is not a tombstone touches no tombstone.              *)
LEMMA CommitSparesTombstones ==
  ASSUME TypeOK, NEW j \in IngestJob, CommitDocument(j), ~Tombstoned(j.doc)
  PROVE  \A d \in DocIds :
           /\ Tombstoned(d)' <=> Tombstoned(d)
           /\ Tombstoned(d) => /\ documents'[d] = documents[d]
                               /\ d \in sections' <=> d \in sections
<1>1. /\ j.doc \in DocIds
      /\ RowFor(j) \in Row
      /\ ~RowFor(j).tombstoned
  BY RowForIsRow DEF IngestJob
<1>2. documents' = [documents EXCEPT ![j.doc] = RowFor(j)]
  BY DEF CommitDocument
<1>3. \A d \in DocIds : d # j.doc =>
        /\ documents'[d] = documents[d]
        /\ d \in sections' <=> d \in sections
  BY <1>1, <1>2 DEF CommitDocument, TypeOK
<1>4. ~Tombstoned(j.doc)'
  BY <1>1, <1>2 DEF Tombstoned, TypeOK
<1> QED
  BY <1>3, <1>4 DEF Tombstoned, Exists

(* The ways a step can change the stores and the receipts.                  *)
LEMMA StoreSteps ==
  ASSUME TypeOK, Next
  PROVE  \E w \in Workers :
           \/ UNCHANGED store /\ AnswerDelete(w)
           \/ UNCHANGED <<store, receipts>>
           \/ /\ job[w] \in IngestJob
              /\ job[w].at \in {"select", "insert"}
              /\ ~Tombstoned(job[w].doc)
              /\ CommitDocument(job[w])
           \/ /\ job[w] \in DeleteJob
              /\ job[w].at = "tombstone"
              /\ MayErase(job[w])
              /\ CommitTombstone(job[w])
           \/ /\ job[w] \in IngestJob
              /\ job[w].at \in {"upsert", "rollback"}
              /\ \E s \in PointStates : SetPoints(job[w].doc, s)
              /\ receipts' = receipts
<1> USE DEF history
<1>1. PICK w \in Workers : Start(w) \/ IngestStep(w) \/ DeleteStep(w) \/ Fault(w)
  BY DEF Next
<1>2. CASE Start(w)
  BY <1>2 DEF Start, StartIngest, StartDelete
<1>3. CASE IngestStep(w)
  <2>1. CASE UpdateDocument(w) \/ InsertDocument(w)
    BY <2>1, JobKinds
       DEF UpdateDocument, InsertDocument, Live, Exists, Tombstoned
  <2>2. CASE UpsertPoints(w) \/ RollBackPoints(w)
    BY <2>2, JobKinds DEF UpsertPoints, RollBackPoints, PointStates
  <2>3. CASE AnswerDuplicate(w) \/ RejectUnreadable(w) \/ LookupAndParse(w)
             \/ RefuseTombstoned(w) \/ SelectAbsent(w) \/ InsertConflict(w)
             \/ EmbedChunks(w) \/ AnswerIngest(w)
    BY <2>3
       DEF AnswerDuplicate, RejectUnreadable, LookupAndParse, RefuseTombstoned,
           SelectAbsent, InsertConflict, EmbedChunks, AnswerIngest
  <2> QED
    BY <1>3, <2>1, <2>2, <2>3 DEF IngestStep
<1>4. CASE DeleteStep(w)
  BY <1>4, JobKinds
     DEF DeleteStep, TombstoneDocument, DeleteNotFound, AnswerDelete
<1>5. CASE Fault(w)
  <2>1. CASE CommitReplyLost(w)
    BY <2>1, JobKinds DEF CommitReplyLost, Live, Exists, Tombstoned
  <2>2. CASE UpsertFails(w)
    <3>1. job[w] \in IngestJob /\ points[job[w].doc] \in PointStates
      BY <2>2, JobKinds DEF UpsertFails, TypeOK
    <3> QED
      BY <2>2, <3>1 DEF UpsertFails, PointStates
  <2>3. CASE DatabaseFails(w) \/ EmbedFails(w) \/ RollbackFails(w) \/ Crash(w)
    BY <2>3 DEF DatabaseFails, EmbedFails, RollbackFails, Crash
  <2> QED
    BY <1>5, <2>1, <2>2, <2>3 DEF Fault
<1> QED
  BY <1>1, <1>2, <1>3, <1>4, <1>5

LEMMA ErasureStep ==
  TypeOK /\ [Next]_vars =>
    \A d \in DocIds : Tombstoned(d) =>
      /\ documents'[d] = documents[d]
      /\ d \in sections' <=> d \in sections
<1> SUFFICES ASSUME TypeOK, [Next]_vars, NEW d \in DocIds, Tombstoned(d)
             PROVE  /\ documents'[d] = documents[d]
                    /\ d \in sections' <=> d \in sections
  OBVIOUS
<1>1. CASE UNCHANGED vars
  BY <1>1 DEF vars
<1>2. CASE Next
  <2>1. PICK w \in Workers :
           \/ UNCHANGED store
           \/ /\ job[w] \in IngestJob
              /\ ~Tombstoned(job[w].doc)
              /\ CommitDocument(job[w])
           \/ /\ job[w] \in DeleteJob
              /\ MayErase(job[w])
              /\ CommitTombstone(job[w])
           \/ \E s \in PointStates : SetPoints(job[w].doc, s)
    BY <1>2, StoreSteps
  <2>2. CASE UNCHANGED store
    BY <2>2 DEF store
  <2>3. CASE /\ job[w] \in IngestJob
             /\ ~Tombstoned(job[w].doc)
             /\ CommitDocument(job[w])
    BY <2>3, CommitSparesTombstones
  <2>4. CASE /\ job[w] \in DeleteJob
             /\ MayErase(job[w])
             /\ CommitTombstone(job[w])
    <3>1. d # job[w].doc
      BY <2>4, TombstoneEffect
    <3> QED
      BY <2>4, <3>1 DEF CommitTombstone, TypeOK
  <2>5. CASE \E s \in PointStates : SetPoints(job[w].doc, s)
    BY <2>5 DEF SetPoints
  <2> QED
    BY <2>1, <2>2, <2>3, <2>4, <2>5
<1> QED
  BY <1>1, <1>2

(* An erased document's row and sections never change again, whichever      *)
(* uploads of it are under way.                                             *)
THEOREM ErasureFinal == Spec => ErasureIsFinal
BY InitTypeOK, NextTypeOK, ErasureStep, PTL DEF Spec, ErasureIsFinal

(* An upload begins to write vectors by a commit, which a tombstone refuses.*)
Writing == {"embed", "upsert", "rollback"}

LEMMA WriterSteps ==
  ASSUME TypeOK, Next
  PROVE  \E w \in Workers :
           /\ \A v \in Workers \ {w} : job'[v] = job[v]
           /\ job'[w].at \in Writing =>
                /\ job'[w].doc = job[w].doc
                /\ job[w].at \in Writing \/ ~Tombstoned(job[w].doc)
           /\ \A d \in DocIds : points'[d] # points[d] => w \in Writers(d)
<1> USE DEF store, Writing
<1>1. PICK w \in Workers : Start(w) \/ IngestStep(w) \/ DeleteStep(w) \/ Fault(w)
  BY DEF Next
<1>2. ASSUME NEW s, job[w] \in IngestJob \/ job[w] \in DeleteJob, Advance(w, s),
             \/ s \notin Writing
             \/ job[w].at \in Writing \/ ~Tombstoned(job[w].doc)
      PROVE  /\ \A v \in Workers \ {w} : job'[v] = job[v]
             /\ job'[w].at \in Writing =>
                  /\ job'[w].doc = job[w].doc
                  /\ job[w].at \in Writing \/ ~Tombstoned(job[w].doc)
  BY <1>2, AdvanceEffect
<1>3. ASSUME Finish(w)
      PROVE  /\ \A v \in Workers \ {w} : job'[v] = job[v]
             /\ job'[w].at \notin Writing
  BY <1>3, FinishEffect
<1>4. ASSUME NEW s, job[w].at \in Writing, SetPoints(job[w].doc, s)
      PROVE  \A d \in DocIds : points'[d] # points[d] => w \in Writers(d)
  BY <1>4 DEF SetPoints, Writers, TypeOK
<1>5. CASE Start(w)
  BY <1>5 DEF Start, StartIngest, StartDelete, TypeOK
<1>6. CASE IngestStep(w)
  <2>1. CASE AnswerDuplicate(w) \/ LookupAndParse(w)
    BY <2>1, LookupEffect DEF AnswerDuplicate, LookupAndParse
  <2>2. CASE UpdateDocument(w) \/ InsertDocument(w)
    <3>1. /\ job[w] \in IngestJob
          /\ Advance(w, AfterCommit(job[w]))
          /\ ~Tombstoned(job[w].doc)
          /\ points' = points
      BY <2>2, JobKinds DEF UpdateDocument, InsertDocument, CommitDocument, Live,
                            Exists, Tombstoned
    <3> QED
      BY <1>2, <3>1
  <2>3. CASE SelectAbsent(w)
    BY <1>2, <2>3, JobKinds DEF SelectAbsent
  <2>4. CASE EmbedChunks(w)
    BY <1>2, <2>4, JobKinds DEF EmbedChunks
  <2>5. CASE UpsertPoints(w)
    BY <1>2, <1>4, <2>5, JobKinds DEF UpsertPoints
  <2>6. CASE RollBackPoints(w)
    BY <1>3, <1>4, <2>6 DEF RollBackPoints
  <2>7. CASE RejectUnreadable(w) \/ RefuseTombstoned(w) \/ InsertConflict(w)
             \/ AnswerIngest(w)
    BY <1>3, <2>7
       DEF RejectUnreadable, RefuseTombstoned, InsertConflict, AnswerIngest
  <2> QED
    BY <1>6, <2>1, <2>2, <2>3, <2>4, <2>5, <2>6, <2>7 DEF IngestStep
<1>7. CASE DeleteStep(w)
  <2>1. CASE TombstoneDocument(w)
    BY <1>2, <2>1, JobKinds DEF TombstoneDocument, CommitTombstone
  <2>2. CASE DeleteNotFound(w) \/ AnswerDelete(w)
    BY <1>3, <2>2 DEF DeleteNotFound, AnswerDelete
  <2> QED
    BY <1>7, <2>1, <2>2 DEF DeleteStep
<1>8. CASE Fault(w)
  <2>1. CASE CommitReplyLost(w)
    BY <1>3, <2>1 DEF CommitReplyLost, CommitDocument, CommitTombstone
  <2>2. CASE UpsertFails(w)
    BY <1>2, <1>4, <2>2, JobKinds DEF UpsertFails
  <2>3. CASE DatabaseFails(w) \/ EmbedFails(w) \/ RollbackFails(w) \/ Crash(w)
    BY <1>3, <2>3 DEF DatabaseFails, EmbedFails, RollbackFails, Crash
  <2> QED
    BY <1>8, <2>1, <2>2, <2>3 DEF Fault
<1> QED
  BY <1>1, <1>5, <1>6, <1>7, <1>8

LEMMA LateVectorsStep ==
  TypeOK /\ [Next]_vars =>
    \A d \in DocIds : Tombstoned(d) =>
      /\ Writers(d)' \subseteq Writers(d)
      /\ points'[d] # points[d] => Writers(d) # {}
<1> SUFFICES ASSUME TypeOK, [Next]_vars, NEW d \in DocIds, Tombstoned(d)
             PROVE  /\ Writers(d)' \subseteq Writers(d)
                    /\ points'[d] # points[d] => Writers(d) # {}
  OBVIOUS
<1>1. CASE UNCHANGED vars
  BY <1>1 DEF vars, Writers
<1>2. CASE Next
  <2>1. PICK w \in Workers :
           /\ \A v \in Workers \ {w} : job'[v] = job[v]
           /\ job'[w].at \in Writing =>
                /\ job'[w].doc = job[w].doc
                /\ job[w].at \in Writing \/ ~Tombstoned(job[w].doc)
           /\ \A e \in DocIds : points'[e] # points[e] => w \in Writers(e)
    BY <1>2, WriterSteps
  <2> QED
    BY <2>1 DEF Writers, Writing
<1> QED
  BY <1>1, <1>2

(* After an erasure only the uploads that were then writing the document's  *)
(* vectors still change them, and no other upload ever joins them.          *)
THEOREM LateVectors == Spec => LateVectorsAreInFlight
BY InitTypeOK, NextTypeOK, LateVectorsStep, PTL DEF Spec, LateVectorsAreInFlight

LEMMA OutboxStep ==
  TypeOK /\ OutboxMatchesTombstones /\ [Next]_vars => OutboxMatchesTombstones'
<1> SUFFICES ASSUME TypeOK, OutboxMatchesTombstones, [Next]_vars
             PROVE  OutboxMatchesTombstones'
  OBVIOUS
<1> USE DEF OutboxMatchesTombstones
<1>1. CASE UNCHANGED vars
  BY <1>1 DEF vars, Tombstoned, Exists
<1>2. CASE Next
  <2>1. PICK w \in Workers :
           \/ UNCHANGED store
           \/ /\ job[w] \in IngestJob
              /\ ~Tombstoned(job[w].doc)
              /\ CommitDocument(job[w])
           \/ /\ job[w] \in DeleteJob
              /\ MayErase(job[w])
              /\ CommitTombstone(job[w])
           \/ \E s \in PointStates : SetPoints(job[w].doc, s)
    BY <1>2, StoreSteps
  <2>2. CASE \/ UNCHANGED store
             \/ \E s \in PointStates : SetPoints(job[w].doc, s)
    BY <2>2 DEF store, SetPoints, Tombstoned, Exists
  <2>3. CASE /\ job[w] \in IngestJob
             /\ ~Tombstoned(job[w].doc)
             /\ CommitDocument(job[w])
    <3>1. {d \in DocIds : Tombstoned(d)}' = {d \in DocIds : Tombstoned(d)}
      BY <2>3, CommitSparesTombstones
    <3> QED
      BY <2>3, <3>1 DEF CommitDocument
  <2>4. CASE /\ job[w] \in DeleteJob
             /\ MayErase(job[w])
             /\ CommitTombstone(job[w])
    <3>1. {d \in DocIds : Tombstoned(d)}'
            = {d \in DocIds : Tombstoned(d)} \cup {job[w].doc}
      BY <2>4, TombstoneEffect
    <3>2. outbox' = outbox \cup ({job[w].doc} \X ErasureStores)
      BY <2>4 DEF CommitTombstone
    <3> QED
      BY <3>1, <3>2
  <2> QED
    BY <2>1, <2>2, <2>3, <2>4
<1> QED
  BY <1>1, <1>2

(* The outbox holds one pending row per store for each erased document and  *)
(* nothing else.                                                            *)
THEOREM OutboxComplete == Spec => []OutboxMatchesTombstones
<1>1. Init => OutboxMatchesTombstones
  BY DEF Init, OutboxMatchesTombstones, Tombstoned, Exists
<1> QED
  BY <1>1, InitTypeOK, NextTypeOK, OutboxStep, PTL DEF Spec

ReceiptInv ==
  /\ OneReceiptPerErasure
  /\ \A w \in Workers : ReceiptIsDue(w)

(* A receipt becomes due by a tombstone and is given once; no other step    *)
(* touches receipts or leaves its worker about to give one.                 *)
LEMMA ReceiptSteps ==
  ASSUME TypeOK, Next
  PROVE  \E w \in Workers :
           /\ \A v \in Workers \ {w} : job'[v] = job[v]
           /\ \/ TombstoneDocument(w)
              \/ AnswerDelete(w)
              \/ job'[w].at # "receipt" /\ receipts' = receipts
<1> USE DEF history
<1>1. PICK w \in Workers : Start(w) \/ IngestStep(w) \/ DeleteStep(w) \/ Fault(w)
  BY DEF Next
<1>2. CASE Start(w)
  BY <1>2 DEF Start, StartIngest, StartDelete, TypeOK
<1>3. CASE IngestStep(w)
  <2>1. CASE AnswerDuplicate(w) \/ LookupAndParse(w)
    BY <2>1, LookupEffect DEF AnswerDuplicate, LookupAndParse
  <2>2. CASE RejectUnreadable(w) \/ RefuseTombstoned(w) \/ InsertConflict(w)
             \/ RollBackPoints(w) \/ AnswerIngest(w)
    BY <2>2, FinishEffect
       DEF RejectUnreadable, RefuseTombstoned, InsertConflict, RollBackPoints,
           AnswerIngest
  <2>3. CASE UpdateDocument(w) \/ InsertDocument(w)
    <3>1. AfterCommit(job[w]) # "receipt"
      BY DEF AfterCommit
    <3> QED
      BY <2>3, <3>1, JobKinds, AdvanceEffect
         DEF UpdateDocument, InsertDocument, CommitDocument
  <2>4. CASE SelectAbsent(w) \/ EmbedChunks(w) \/ UpsertPoints(w)
    BY <2>4, JobKinds, AdvanceEffect
       DEF SelectAbsent, EmbedChunks, UpsertPoints
  <2> QED
    BY <1>3, <2>1, <2>2, <2>3, <2>4 DEF IngestStep
<1>4. CASE DeleteStep(w)
  <2>1. CASE TombstoneDocument(w)
    BY <2>1, JobKinds, AdvanceEffect DEF TombstoneDocument
  <2>2. CASE DeleteNotFound(w) \/ AnswerDelete(w)
    BY <2>2, FinishEffect DEF DeleteNotFound, AnswerDelete
  <2> QED
    BY <1>4, <2>1, <2>2 DEF DeleteStep
<1>5. CASE Fault(w)
  <2>1. CASE UpsertFails(w)
    BY <2>1, JobKinds, AdvanceEffect DEF UpsertFails
  <2>2. CASE DatabaseFails(w) \/ CommitReplyLost(w) \/ EmbedFails(w)
             \/ RollbackFails(w) \/ Crash(w)
    BY <2>2, FinishEffect
       DEF DatabaseFails, CommitReplyLost, EmbedFails, RollbackFails, Crash,
           CommitDocument, CommitTombstone
  <2> QED
    BY <1>5, <2>1, <2>2 DEF Fault
<1> QED
  BY <1>1, <1>2, <1>3, <1>4, <1>5

LEMMA ReceiptStep == TypeOK /\ ReceiptInv /\ [Next]_vars => ReceiptInv'
<1> SUFFICES ASSUME TypeOK, ReceiptInv, [Next]_vars
             PROVE  ReceiptInv'
  OBVIOUS
<1> USE DEF ReceiptInv, OneReceiptPerErasure, ReceiptIsDue
<1>1. CASE UNCHANGED vars
  BY <1>1 DEF vars, Tombstoned, Exists
<1>2. CASE Next
  <2>1. \A d \in DocIds : Tombstoned(d) => Tombstoned(d)'
    BY ErasureStep DEF Tombstoned, Exists
  <2>2. \A v \in Workers : job[v].at = "receipt" => job[v].doc \in DocIds
    BY JobKinds
  <2>3. PICK w \in Workers :
          /\ \A v \in Workers \ {w} : job'[v] = job[v]
          /\ \/ TombstoneDocument(w)
             \/ AnswerDelete(w)
             \/ job'[w].at # "receipt" /\ receipts' = receipts
    BY <1>2, ReceiptSteps
  <2>4. CASE job'[w].at # "receipt" /\ receipts' = receipts
    BY <2>1, <2>2, <2>3, <2>4 DEF Tombstoned, Exists
  <2>5. CASE TombstoneDocument(w)
    <3>1. /\ job[w] \in DeleteJob
          /\ MayErase(job[w])
          /\ CommitTombstone(job[w])
      BY <2>5, JobKinds DEF TombstoneDocument
    <3>2. /\ job'[w].at = "receipt"
          /\ job'[w].doc = job[w].doc
          /\ receipts' = receipts
      BY <2>5, <3>1, AdvanceEffect
         DEF TombstoneDocument, CommitTombstone, history
    <3> DEFINE d == job[w].doc
    <3>3. /\ d \in DocIds
          /\ ~Tombstoned(d)
          /\ \A e \in DocIds : e = d => Tombstoned(e)'
      BY <3>1, TombstoneEffect
    <3>4. receipts[d] = 0
      BY <3>3 DEF TypeOK
    <3>5. \A v \in Workers \ {w} : job[v].at = "receipt" => job[v].doc # d
      BY <3>3
    <3>6. OneReceiptPerErasure'
      BY <2>1, <3>2 DEF Tombstoned, Exists
    <3>7. ReceiptIsDue(w)'
      BY <2>3, <3>2, <3>3, <3>4, <3>5 DEF Tombstoned, Exists
    <3>8. ASSUME NEW v \in Workers \ {w}
          PROVE  ReceiptIsDue(v)'
      BY <2>1, <2>2, <2>3, <3>2, <3>5 DEF Tombstoned, Exists
    <3> QED
      BY <3>6, <3>7, <3>8
  <2>6. CASE AnswerDelete(w)
    <3>1. /\ job[w].at = "receipt"
          /\ job[w].doc \in DocIds
          /\ receipts' = [receipts EXCEPT ![job[w].doc] = CountToTwo(@)]
          /\ job'[w].at = "idle"
      BY <2>2, <2>6, FinishEffect DEF AnswerDelete
    <3>2. /\ receipts'[job[w].doc] = 1
          /\ \A e \in DocIds : e = job[w].doc => Tombstoned(e)'
      BY <2>1, <3>1 DEF CountToTwo, TypeOK
    <3>3. \A d \in DocIds \ {job[w].doc} : receipts'[d] = receipts[d]
      BY <3>1 DEF TypeOK
    <3>4. OneReceiptPerErasure'
      BY <2>1, <3>2, <3>3 DEF Tombstoned, Exists
    <3>5. ASSUME NEW v \in Workers \ {w}
          PROVE  ReceiptIsDue(v)'
      BY <2>1, <2>2, <2>3, <3>1, <3>3 DEF Tombstoned, Exists
    <3> QED
      BY <3>1, <3>4, <3>5
  <2> QED
    BY <2>3, <2>4, <2>5, <2>6
<1> QED
  BY <1>1, <1>2

(* However many deletes of a document race, fail or are retried, at most    *)
(* one is answered with a receipt, and then the document is erased.         *)
THEOREM OneReceipt == Spec => []OneReceiptPerErasure
<1>1. Init => ReceiptInv
  BY IdleIsApart DEF Init, ReceiptInv, OneReceiptPerErasure, ReceiptIsDue
<1>2. ReceiptInv => OneReceiptPerErasure
  BY DEF ReceiptInv
<1> QED
  BY <1>1, <1>2, InitTypeOK, NextTypeOK, ReceiptStep, PTL DEF Spec

-----------------------------------------------------------------------------
(* What was reported indexed stays searchable, rollbacks aside.             *)

Searchable(d) == points[d] = "all" \/ d \in rolledBack

AckInv ==
  /\ AckedStaysSearchable
  /\ \A w \in Workers : AnswerIsTrue(job[w])

(* Only a compensating rollback takes all vectors of a document away.       *)
LEMMA SearchableStays ==
  ASSUME TypeOK, [Next]_vars
  PROVE  \A d \in DocIds : Searchable(d) => Searchable(d)'
<1> USE DEF Searchable, history, store
<1>1. CASE UNCHANGED vars
  BY <1>1 DEF vars
<1>2. ASSUME UNCHANGED points, rolledBack \subseteq rolledBack'
      PROVE  \A d \in DocIds : Searchable(d) => Searchable(d)'
  BY <1>2
<1>3. ASSUME NEW w \in Workers, Start(w)
      PROVE  \A d \in DocIds : Searchable(d) => Searchable(d)'
  BY <1>2, <1>3 DEF Start, StartIngest, StartDelete
<1>4. ASSUME NEW w \in Workers, IngestStep(w)
      PROVE  \A d \in DocIds : Searchable(d) => Searchable(d)'
  <2>1. CASE UpsertPoints(w)
    BY <2>1 DEF UpsertPoints, SetPoints, TypeOK
  <2>2. CASE RollBackPoints(w)
    BY <2>2 DEF RollBackPoints, SetPoints, TypeOK
  <2>3. CASE AnswerDuplicate(w) \/ RejectUnreadable(w) \/ LookupAndParse(w)
             \/ UpdateDocument(w) \/ InsertDocument(w)
             \/ RefuseTombstoned(w) \/ SelectAbsent(w) \/ InsertConflict(w)
             \/ EmbedChunks(w) \/ AnswerIngest(w)
    BY <1>2, <2>3
       DEF AnswerDuplicate, RejectUnreadable, LookupAndParse, UpdateDocument,
           InsertDocument, RefuseTombstoned, SelectAbsent, InsertConflict,
           EmbedChunks, AnswerIngest, CommitDocument
  <2> QED
    BY <1>4, <2>1, <2>2, <2>3 DEF IngestStep
<1>5. ASSUME NEW w \in Workers, DeleteStep(w)
      PROVE  \A d \in DocIds : Searchable(d) => Searchable(d)'
  BY <1>2, <1>5
     DEF DeleteStep, TombstoneDocument, DeleteNotFound, AnswerDelete,
         CommitTombstone
<1>6. ASSUME NEW w \in Workers, Fault(w)
      PROVE  \A d \in DocIds : Searchable(d) => Searchable(d)'
  <2>1. CASE UpsertFails(w)
    <3>1. PICK s : /\ SetPoints(job[w].doc, s)
                   /\ points[job[w].doc] = "all" => s = "all"
      BY <2>1 DEF UpsertFails
    <3> QED
      BY <2>1, <3>1 DEF UpsertFails, SetPoints, TypeOK
  <2>2. CASE DatabaseFails(w) \/ CommitReplyLost(w) \/ EmbedFails(w)
             \/ RollbackFails(w) \/ Crash(w)
    BY <1>2, <2>2
       DEF DatabaseFails, CommitReplyLost, EmbedFails, RollbackFails, Crash,
           CommitDocument, CommitTombstone
  <2> QED
    BY <1>6, <2>1, <2>2 DEF Fault
<1> QED
  BY <1>1, <1>3, <1>4, <1>5, <1>6 DEF Next

(* A step leaves its worker ready to answer that vectors were written only  *)
(* by writing them, and only answering acknowledges.                        *)
LEMMA AnswerSteps ==
  ASSUME TypeOK, Next
  PROVE  \E w \in Workers :
           /\ \A v \in Workers \ {w} : job'[v] = job[v]
           /\ \/ job'[w].at # "answer"
              \/ ~WroteVectors(job'[w])
              \/ points'[job'[w].doc] = "all"
           /\ acked' = acked \/ AnswerIngest(w)
<1> USE DEF history
<1>1. PICK w \in Workers : Start(w) \/ IngestStep(w) \/ DeleteStep(w) \/ Fault(w)
  BY DEF Next
<1>2. CASE Start(w)
  BY <1>2 DEF Start, StartIngest, StartDelete, TypeOK
<1>3. CASE IngestStep(w)
  <2>1. CASE AnswerDuplicate(w)
    <3>1. job[w] \in IngestJob /\ ~job[w].force
      BY <2>1, JobKinds DEF AnswerDuplicate, IsDuplicate
    <3>2. /\ job'[w] = [job[w] EXCEPT !.at = "answer", !.existing = TRUE]
          /\ \A v \in Workers \ {w} : job'[v] = job[v]
      BY <2>1 DEF AnswerDuplicate, TypeOK
    <3>3. job'[w].existing /\ ~job'[w].force
      BY <3>1, <3>2 DEF IngestJob
    <3> QED
      BY <2>1, <3>2, <3>3 DEF AnswerDuplicate, WroteVectors
  <2>2. CASE LookupAndParse(w)
    <3>1. job'[w].at = "answer" => ~job[w].retain
      <4> DEFINE found == FindDocIdByHash(job[w].doc)
                 s == IF found /\ ~job[w].retain THEN "answer" ELSE "select"
                 e == found
      <4>1. /\ job' = [job EXCEPT ![w].at = s, ![w].existing = e]
            /\ s = "answer" => ~job[w].retain
        BY <2>2 DEF LookupAndParse
      <4> HIDE DEF s, e
      <4>2. job'[w] = [job[w] EXCEPT !.at = s, !.existing = e]
        BY <4>1 DEF TypeOK
      <4>3. job[w] \in IngestJob
        BY <2>2, LookupEffect
      <4> QED
        BY <4>1, <4>2, <4>3 DEF IngestJob
    <3> QED
      BY <2>2, <3>1, LookupEffect DEF LookupAndParse, WroteVectors, Indexes
  <2>3. CASE UpdateDocument(w) \/ InsertDocument(w)
    <3>1. /\ job[w] \in IngestJob
          /\ Advance(w, AfterCommit(job[w]))
          /\ acked' = acked
      BY <2>3, JobKinds DEF UpdateDocument, InsertDocument, CommitDocument
    <3>2. /\ job'[w].at = AfterCommit(job[w])
          /\ job'[w].doc = job[w].doc
          /\ job'[w].retain = job[w].retain
          /\ \A v \in Workers \ {w} : job'[v] = job[v]
      BY <3>1, AdvanceEffect
    <3>3. job'[w].at = "answer" => ~WroteVectors(job'[w])
      BY <3>2 DEF AfterCommit, WroteVectors, Indexes
    <3> QED
      BY <3>1, <3>2, <3>3
  <2>4. CASE SelectAbsent(w) \/ EmbedChunks(w)
    BY <2>4, JobKinds, AdvanceEffect DEF SelectAbsent, EmbedChunks
  <2>5. CASE UpsertPoints(w)
    <3>1. job[w] \in IngestJob /\ job[w].doc \in DocIds
      BY <2>5, JobKinds DEF UpsertPoints
    <3> QED
      BY <2>5, <3>1, AdvanceEffect DEF UpsertPoints, SetPoints, TypeOK
  <2>6. CASE RejectUnreadable(w) \/ RefuseTombstoned(w) \/ InsertConflict(w)
             \/ RollBackPoints(w) \/ AnswerIngest(w)
    BY <2>6, FinishEffect
       DEF RejectUnreadable, RefuseTombstoned, InsertConflict, RollBackPoints,
           AnswerIngest
  <2> QED
    BY <1>3, <2>1, <2>2, <2>3, <2>4, <2>5, <2>6 DEF IngestStep
<1>4. CASE DeleteStep(w)
  <2>1. CASE TombstoneDocument(w)
    BY <2>1, JobKinds, AdvanceEffect DEF TombstoneDocument, CommitTombstone
  <2>2. CASE DeleteNotFound(w) \/ AnswerDelete(w)
    BY <2>2, FinishEffect DEF DeleteNotFound, AnswerDelete
  <2> QED
    BY <1>4, <2>1, <2>2 DEF DeleteStep
<1>5. CASE Fault(w)
  <2>1. CASE UpsertFails(w)
    BY <2>1, JobKinds, AdvanceEffect DEF UpsertFails
  <2>2. CASE DatabaseFails(w) \/ CommitReplyLost(w) \/ EmbedFails(w)
             \/ RollbackFails(w) \/ Crash(w)
    BY <2>2, FinishEffect
       DEF DatabaseFails, CommitReplyLost, EmbedFails, RollbackFails, Crash,
           CommitDocument, CommitTombstone
  <2> QED
    BY <1>5, <2>1, <2>2 DEF Fault
<1> QED
  BY <1>1, <1>2, <1>3, <1>4, <1>5

LEMMA AckStep == TypeOK /\ AckInv /\ [Next]_vars => AckInv'
<1> SUFFICES ASSUME TypeOK, AckInv, [Next]_vars
             PROVE  AckInv'
  OBVIOUS
<1> USE DEF AckInv, AckedStaysSearchable, AnswerIsTrue
<1>1. CASE UNCHANGED vars
  BY <1>1 DEF vars
<1>2. CASE Next
  <2>1. \A d \in DocIds : Searchable(d) => Searchable(d)'
    BY SearchableStays
  <2>2. PICK w \in Workers :
          /\ \A v \in Workers \ {w} : job'[v] = job[v]
          /\ \/ job'[w].at # "answer"
             \/ ~WroteVectors(job'[w])
             \/ points'[job'[w].doc] = "all"
          /\ acked' = acked \/ AnswerIngest(w)
    BY <1>2, AnswerSteps
  <2>3. \A v \in Workers : job[v].at = "answer" => job[v].doc \in DocIds
    BY JobKinds
  <2>4. AckedStaysSearchable'
    <3>1. CASE acked' = acked
      BY <2>1, <3>1 DEF Searchable, TypeOK
    <3>2. CASE AnswerIngest(w)
      <4>1. acked' = acked \/ /\ acked' = acked \cup {job[w].doc}
                              /\ job[w].at = "answer"
                              /\ WroteVectors(job[w])
        BY <3>2 DEF AnswerIngest
      <4> QED
        BY <2>1, <2>3, <3>1, <4>1 DEF Searchable, TypeOK
    <3> QED
      BY <2>2, <3>1, <3>2
  <2>5. ASSUME NEW v \in Workers
        PROVE  AnswerIsTrue(job[v])'
    <3>1. CASE v = w
      BY <2>2, <3>1 DEF WroteVectors, Indexes
    <3>2. CASE v # w
      <4>1. job'[v] = job[v]
        BY <2>2, <3>2
      <4>2. job[v].at = "answer" /\ WroteVectors(job[v]) =>
              points'[job[v].doc] = "all" \/ job[v].doc \in rolledBack'
        BY <2>1, <2>3 DEF Searchable
      <4> QED
        BY <4>1, <4>2
    <3> QED
      BY <3>1, <3>2
  <2> QED
    BY <2>4, <2>5
<1> QED
  BY <1>1, <1>2

(* A document reported indexed keeps all its vectors, through crashes, lost *)
(* commits, racing uploads and erasures, unless a compensating rollback of  *)
(* some upload of it deleted them.                                          *)
THEOREM AckedSearchable == Spec => []AckedStaysSearchable
<1>1. Init => AckInv
  BY IdleIsApart DEF Init, AckInv, AckedStaysSearchable, AnswerIsTrue
<1>2. AckInv => AckedStaysSearchable
  BY DEF AckInv
<1> QED
  BY <1>1, <1>2, InitTypeOK, NextTypeOK, AckStep, PTL DEF Spec

-----------------------------------------------------------------------------
(* Nothing is kept of what nobody offered.                                  *)

OfferedInv ==
  /\ sections \subseteq offered
  /\ \A d \in DocIds : Exists(d) /\ documents[d].hashed => d \in offered
  /\ \A w \in Workers : RetentionIsOffered(job[w])

(* A committed upload leaves what it writes to offered documents.           *)
LEMMA CommitIsOffered ==
  ASSUME TypeOK, OfferedInv, NEW w \in Workers, job[w] \in IngestJob,
         CommitDocument(job[w])
  PROVE  /\ sections' \subseteq offered'
         /\ \A d \in DocIds : Exists(d)' /\ documents'[d].hashed => d \in offered'
         /\ offered' = offered
<1> DEFINE j == job[w]
<1>1. /\ j.doc \in DocIds
      /\ j.retain \in BOOLEAN
      /\ j.retain => j.doc \in offered
  BY DEF OfferedInv, RetentionIsOffered, IngestJob
<1>2. RowFor(j).hashed = j.retain
  BY DEF RowFor
<1>3. /\ documents' = [documents EXCEPT ![j.doc] = RowFor(j)]
      /\ sections' = IF Indexes(j) THEN sections \cup {j.doc} ELSE sections
      /\ offered' = offered
  BY DEF CommitDocument, history
<1>4. sections' \subseteq offered
  BY <1>1, <1>3 DEF Indexes, OfferedInv
<1>5. ASSUME NEW d \in DocIds, Exists(d)', documents'[d].hashed
      PROVE  d \in offered
  <2>1. CASE d = j.doc
    <3>1. documents'[d] = RowFor(j)
      BY <1>1, <1>3, <2>1 DEF TypeOK
    <3> QED
      BY <1>1, <1>2, <1>5, <2>1, <3>1
  <2>2. CASE d # j.doc
    BY <1>3, <1>5, <2>2 DEF Exists, OfferedInv, TypeOK
  <2> QED
    BY <2>1, <2>2
<1> QED
  BY <1>3, <1>4, <1>5

LEMMA TombstoneIsOffered ==
  ASSUME TypeOK, OfferedInv, NEW j \in DeleteJob, MayErase(j), CommitTombstone(j)
  PROVE  /\ sections' \subseteq offered'
         /\ \A d \in DocIds : Exists(d)' /\ documents'[d].hashed => d \in offered'
         /\ offered' = offered
<1>1. j.doc \in DocIds /\ \A d \in DocIds : Exists(d)' <=> Exists(d)
  BY TombstoneEffect
<1>2. \A d \in DocIds : Exists(d) => documents'[d].hashed = documents[d].hashed
  BY <1>1 DEF CommitTombstone, Exists, Row, TypeOK
<1> QED
  BY <1>1, <1>2 DEF OfferedInv, CommitTombstone, history

(* Each step moves one job, which still asks for retention only of what is  *)
(* offered, and leaves the tables alone or commits to them.                 *)
LEMMA OfferedSteps ==
  ASSUME TypeOK, OfferedInv, Next
  PROVE  \E w \in Workers :
           /\ \A v \in Workers \ {w} : job'[v] = job[v]
           /\ RetentionIsOffered(job[w])'
           /\ offered \subseteq offered'
           /\ \/ UNCHANGED <<documents, sections>>
              \/ job[w] \in IngestJob /\ CommitDocument(job[w])
              \/ job[w] \in DeleteJob /\ MayErase(job[w]) /\ CommitTombstone(job[w])
<1> USE DEF history, store
<1>1. PICK w \in Workers : Start(w) \/ IngestStep(w) \/ DeleteStep(w) \/ Fault(w)
  BY DEF Next
<1>2. ASSUME \A v \in Workers \ {w} : job'[v] = job[v],
             offered' = offered,
             \/ job'[w].at \in {"idle", "tombstone", "receipt"}
             \/ /\ job[w] \in IngestJob
                /\ job'[w].doc = job[w].doc
                /\ job'[w].retain = job[w].retain
      PROVE  RetentionIsOffered(job[w])'
  BY <1>2 DEF OfferedInv, RetentionIsOffered, IngestJob
<1>3. CASE Start(w)
  <2>1. CASE StartIngest(w)
    <3>1. PICK d \in DocIds, retain \in BOOLEAN, force \in ForceModes, r \in Regions :
            /\ job' = [job EXCEPT ![w] =
                         [at |-> "find", doc |-> d, retain |-> retain,
                          force |-> force, region |-> r, existing |-> FALSE]]
            /\ offered' = IF retain THEN offered \cup {d} ELSE offered
      BY <2>1 DEF StartIngest
    <3> QED
      BY <2>1, <3>1 DEF StartIngest, RetentionIsOffered, TypeOK
  <2>2. CASE StartDelete(w)
    BY <1>2, <2>2 DEF StartDelete, TypeOK
  <2> QED
    BY <1>3, <2>1, <2>2 DEF Start, StartDelete
<1>4. CASE IngestStep(w)
  <2>1. CASE AnswerDuplicate(w) \/ LookupAndParse(w)
    BY <1>2, <2>1, LookupEffect DEF AnswerDuplicate, LookupAndParse
  <2>2. CASE UpdateDocument(w) \/ InsertDocument(w)
    <3>1. /\ job[w] \in IngestJob
          /\ Advance(w, AfterCommit(job[w]))
          /\ CommitDocument(job[w])
          /\ offered' = offered
      BY <2>2, JobKinds DEF UpdateDocument, InsertDocument, CommitDocument
    <3> QED
      BY <1>2, <3>1, AdvanceEffect
  <2>3. CASE SelectAbsent(w) \/ EmbedChunks(w) \/ UpsertPoints(w)
    <3>1. /\ job[w] \in IngestJob
          /\ \E s \in {"insert", "upsert", "answer"} : Advance(w, s)
          /\ UNCHANGED <<documents, sections, offered>>
      BY <2>3, JobKinds DEF SelectAbsent, EmbedChunks, UpsertPoints, SetPoints
    <3> QED
      BY <1>2, <3>1, AdvanceEffect
  <2>4. CASE RejectUnreadable(w) \/ RefuseTombstoned(w) \/ InsertConflict(w)
             \/ RollBackPoints(w) \/ AnswerIngest(w)
    <3>1. Finish(w) /\ UNCHANGED <<documents, sections, offered>>
      BY <2>4 DEF RejectUnreadable, RefuseTombstoned, InsertConflict,
                  RollBackPoints, AnswerIngest, SetPoints
    <3> QED
      BY <1>2, <3>1, FinishEffect
  <2> QED
    BY <1>4, <2>1, <2>2, <2>3, <2>4 DEF IngestStep
<1>5. CASE DeleteStep(w)
  <2>1. CASE TombstoneDocument(w)
    BY <1>2, <2>1, JobKinds, AdvanceEffect DEF TombstoneDocument, CommitTombstone
  <2>2. CASE DeleteNotFound(w) \/ AnswerDelete(w)
    BY <1>2, <2>2, FinishEffect DEF DeleteNotFound, AnswerDelete
  <2> QED
    BY <1>5, <2>1, <2>2 DEF DeleteStep
<1>6. CASE Fault(w)
  <2>1. CASE UpsertFails(w)
    <3>1. /\ job[w] \in IngestJob
          /\ Advance(w, "rollback")
          /\ UNCHANGED <<documents, sections, offered>>
      BY <2>1, JobKinds DEF UpsertFails, SetPoints
    <3> QED
      BY <1>2, <3>1, AdvanceEffect
  <2>2. CASE CommitReplyLost(w)
    <3>1. /\ Finish(w)
          /\ offered' = offered
          /\ \/ job[w] \in IngestJob /\ CommitDocument(job[w])
             \/ job[w] \in DeleteJob /\ MayErase(job[w]) /\ CommitTombstone(job[w])
      BY <2>2, JobKinds DEF CommitReplyLost, CommitDocument, CommitTombstone
    <3> QED
      BY <1>2, <3>1, FinishEffect
  <2>3. CASE DatabaseFails(w) \/ EmbedFails(w) \/ RollbackFails(w) \/ Crash(w)
    <3>1. Finish(w) /\ UNCHANGED <<documents, sections, offered>>
      BY <2>3 DEF DatabaseFails, EmbedFails, RollbackFails, Crash
    <3> QED
      BY <1>2, <3>1, FinishEffect
  <2> QED
    BY <1>6, <2>1, <2>2, <2>3 DEF Fault
<1> QED
  BY <1>1, <1>3, <1>4, <1>5, <1>6

LEMMA OfferedStep == TypeOK /\ OfferedInv /\ [Next]_vars => OfferedInv'
<1> SUFFICES ASSUME TypeOK, OfferedInv, [Next]_vars
             PROVE  OfferedInv'
  OBVIOUS
<1>1. CASE UNCHANGED vars
  BY <1>1 DEF vars, OfferedInv, RetentionIsOffered, Exists
<1>2. CASE Next
  <2>1. PICK w \in Workers :
          /\ \A v \in Workers \ {w} : job'[v] = job[v]
          /\ RetentionIsOffered(job[w])'
          /\ offered \subseteq offered'
          /\ \/ UNCHANGED <<documents, sections>>
             \/ job[w] \in IngestJob /\ CommitDocument(job[w])
             \/ job[w] \in DeleteJob /\ MayErase(job[w]) /\ CommitTombstone(job[w])
    BY <1>2, OfferedSteps
  <2>2. \A v \in Workers : RetentionIsOffered(job[v])'
    BY <2>1 DEF OfferedInv, RetentionIsOffered
  <2>3. /\ sections' \subseteq offered'
        /\ \A d \in DocIds : Exists(d)' /\ documents'[d].hashed => d \in offered'
    <3>1. CASE UNCHANGED <<documents, sections>>
      BY <2>1, <3>1 DEF OfferedInv, Exists
    <3>2. CASE job[w] \in IngestJob /\ CommitDocument(job[w])
      BY <3>2, CommitIsOffered
    <3>3. CASE job[w] \in DeleteJob /\ MayErase(job[w]) /\ CommitTombstone(job[w])
      BY <3>3, TombstoneIsOffered
    <3> QED
      BY <2>1, <3>1, <3>2, <3>3
  <2> QED
    BY <2>2, <2>3 DEF OfferedInv
<1> QED
  BY <1>1, <1>2

(* Sections, vectors and content hashes are kept only of documents that an  *)
(* upload with retention brought, however uploads without it interleave.    *)
THEOREM OfferedKept == Spec => []OnlyOfferedIsKept
<1>1. Init => OfferedInv /\ VectorInv
  BY IdleIsApart DEF Init, OfferedInv, VectorInv, VectorsHaveSections,
                     RetentionIsOffered, WriterHasSections, Exists, Idle
<1>2. OfferedInv /\ VectorInv => OnlyOfferedIsKept
  BY DEF OfferedInv, VectorInv, VectorsHaveSections, OnlyOfferedIsKept
<1> QED
  BY <1>1, <1>2, InitTypeOK, NextTypeOK, VectorStep, OfferedStep, PTL DEF Spec

-----------------------------------------------------------------------------
(* Refinement.                                                              *)

LEMMA AbstractInit == Init => Erasable!Init
BY DEF Init, Erasable!Init, StateOf, Exists

LEMMA AbstractStep ==
  TypeOK /\ VectorInv /\ ReceiptInv /\ [Next]_vars =>
    [Erasable!Next]_<<[d \in DocIds |-> StateOf(d)], points, receipts>>
<1> SUFFICES ASSUME TypeOK, VectorInv, ReceiptInv, [Next]_vars
             PROVE  [Erasable!Next]_<<[d \in DocIds |-> StateOf(d)], points,
                                      receipts>>
  OBVIOUS
<1> DEFINE st == [d \in DocIds |-> StateOf(d)]
<1>1. ASSUME documents' = documents
      PROVE  st' = st
  BY <1>1 DEF StateOf, Exists
<1>2. CASE UNCHANGED vars
  BY <1>1, <1>2 DEF vars
<1>3. CASE Next
  <2>1. PICK w \in Workers :
           \/ UNCHANGED store /\ AnswerDelete(w)
           \/ UNCHANGED <<store, receipts>>
           \/ /\ job[w] \in IngestJob
              /\ ~Tombstoned(job[w].doc)
              /\ CommitDocument(job[w])
           \/ /\ job[w] \in DeleteJob
              /\ MayErase(job[w])
              /\ CommitTombstone(job[w])
           \/ /\ job[w] \in IngestJob
              /\ job[w].at \in {"upsert", "rollback"}
              /\ \E s \in PointStates : SetPoints(job[w].doc, s)
              /\ receipts' = receipts
    BY <1>3, StoreSteps
  <2>2. CASE UNCHANGED <<store, receipts>>
    BY <1>1, <2>2 DEF store
  <2>3. CASE UNCHANGED store /\ AnswerDelete(w)
    <3>1. PICK d \in DocIds :
            /\ Tombstoned(d)
            /\ receipts[d] = 0
            /\ receipts' = [receipts EXCEPT ![d] = CountToTwo(@)]
      BY <2>3, JobKinds DEF AnswerDelete, ReceiptInv, ReceiptIsDue
    <3>2. receipts' = [receipts EXCEPT ![d] = 1]
      BY <3>1 DEF CountToTwo, TypeOK
    <3>3. st[d] = "erased" /\ st' = st /\ points' = points
      BY <1>1, <2>3, <3>1 DEF StateOf, Tombstoned, Exists, store
    <3>4. Erasable!GiveReceipt(d)
      BY <3>1, <3>2, <3>3 DEF Erasable!GiveReceipt
    <3> QED
      BY <3>4 DEF Erasable!Next
  <2>4. CASE /\ job[w] \in IngestJob
             /\ ~Tombstoned(job[w].doc)
             /\ CommitDocument(job[w])
    <3>1. PICK d \in DocIds : d = job[w].doc
      BY <2>4 DEF IngestJob
    <3>2. /\ documents' = [documents EXCEPT ![d] = RowFor(job[w])]
          /\ points' = points
          /\ receipts' = receipts
      BY <2>4, <3>1 DEF CommitDocument, history
    <3>3. RowFor(job[w]) # NoRow /\ ~RowFor(job[w]).tombstoned
      BY <2>4, RowForIsRow
    <3>4. st' = [st EXCEPT ![d] = "live"]
      BY <3>2, <3>3 DEF StateOf, Exists, TypeOK
    <3>5. st[d] \in {"absent", "live"}
      BY <2>4, <3>1 DEF StateOf, Tombstoned
    <3>6. CASE st[d] = "absent"
      <4>1. Erasable!Create(d)
        BY <3>2, <3>4, <3>6 DEF Erasable!Create
      <4> QED
        BY <4>1 DEF Erasable!Next
    <3>7. CASE st[d] = "live"
      <4>1. st' = st
        BY <3>4, <3>7
      <4> QED
        BY <3>2, <4>1
    <3> QED
      BY <3>5, <3>6, <3>7
  <2>5. CASE /\ job[w] \in DeleteJob
             /\ MayErase(job[w])
             /\ CommitTombstone(job[w])
    <3>1. PICK d \in DocIds : d = job[w].doc
      BY <2>5 DEF DeleteJob
    <3>2. /\ points' = points
          /\ receipts' = receipts
          /\ \A e \in DocIds : e # d => documents'[e] = documents[e]
      BY <2>5, <3>1 DEF CommitTombstone, history, TypeOK
    <3>3. /\ Exists(d)
          /\ ~Tombstoned(d)
          /\ Tombstoned(d)'
      BY <2>5, <3>1, TombstoneEffect DEF MayErase, Live
    <3>4. st[d] = "live" /\ st'[d] = "erased"
      BY <3>3 DEF StateOf, Tombstoned, Exists
    <3>5. st' = [st EXCEPT ![d] = "erased"]
      BY <3>2, <3>4 DEF StateOf, Exists
    <3>6. Erasable!Erase(d)
      BY <3>2, <3>4, <3>5 DEF Erasable!Erase
    <3> QED
      BY <3>6 DEF Erasable!Next
  <2>6. CASE /\ job[w] \in IngestJob
             /\ job[w].at \in {"upsert", "rollback"}
             /\ \E s \in PointStates : SetPoints(job[w].doc, s)
             /\ receipts' = receipts
    <3>1. PICK d \in DocIds, s \in PointStates :
            /\ d = job[w].doc
            /\ SetPoints(d, s)
      BY <2>6 DEF IngestJob
    <3>2. st[d] # "absent"
      BY <2>6, <3>1 DEF VectorInv, WriterHasSections, StateOf
    <3>3. st' = st
      BY <1>1, <3>1 DEF SetPoints
    <3>4. Erasable!ChangeVectors(d)
      BY <2>6, <3>1, <3>2, <3>3
         DEF Erasable!ChangeVectors, SetPoints, PointStates
    <3> QED
      BY <3>4 DEF Erasable!Next
  <2> QED
    BY <2>1, <2>2, <2>3, <2>4, <2>5, <2>6
<1> QED
  BY <1>2, <1>3

(* Uploads and erasures with all their overlaps and failures implement the  *)
(* abstract store in which each effect is one atomic step.                  *)
THEOREM ImplementsErasableStore == Spec => IsErasableStore
<1>1. Init => VectorInv /\ ReceiptInv
  BY IdleIsApart
     DEF Init, VectorInv, VectorsHaveSections, WriterHasSections, ReceiptInv,
         OneReceiptPerErasure, ReceiptIsDue
<1> QED
  BY <1>1, InitTypeOK, NextTypeOK, VectorStep, ReceiptStep, AbstractInit,
     AbstractStep, PTL
     DEF Spec, IsErasableStore, Erasable!Spec

-----------------------------------------------------------------------------
(* The service.                                                             *)

LEMMA ServiceStep == [RequestStep \/ FaultsStop]_serviceVars => [Next]_vars
BY DEF RequestStep, FaultsStop, serviceVars, vars, Ask, Next

(* Whatever the world is like, the service does only what the lifecycle     *)
(* does: the lifecycle's theorems are the service's.                        *)
THEOREM ServiceIsLifecycle == ServiceSpec => Spec
<1>1. ServiceInit => Init
  BY DEF ServiceInit
<1> QED
  BY <1>1, ServiceStep, PTL DEF ServiceSpec, Spec

-----------------------------------------------------------------------------
(* Rows and what was kept.  An upload that goes on to write its row found   *)
(* none by its hash, unless it is forced, so that what it commits depends   *)
(* on its content alone; a no-retention one never found any.                *)

Settled(j) ==
  /\ j.at \in {"select", "insert"} /\ ~j.retain => ~j.existing
  /\ ~forcing /\ j.at \in {"find", "select", "insert"} => ~j.force
  /\ ~forcing /\ j.at \in {"select", "insert"} => ~j.existing

(* The commit of an upload, at the place where it found the row or none.    *)
Commits(j) ==
  /\ \/ j.at = "select" /\ Live(j.doc)
     \/ j.at = "insert" /\ ~Exists(j.doc)
  /\ CommitDocument(j)

RowInv ==
  /\ \A d \in DocIds :
       Exists(d) => documents[d].hashed <=> documents[d].status # "ephemeral"
  /\ \A d \in sections : Exists(d) /\ (~documents[d].hashed => d \in overlapped)
  /\ \A d \in DocIds : Overlapping(d) => d \in overlapped
  /\ \A w \in Workers : Settled(job[w])

UnforcedInv ==
  ~forcing => /\ \A d \in DocIds : Exists(d) => StatusMatchesSections(d)
              /\ \A d \in sections : Structured(d)

LEMMA RowTells ==
  ASSUME NEW j \in IngestJob
  PROVE  /\ RowFor(j).hashed = j.retain
         /\ RowFor(j).hashed <=> RowFor(j).status # "ephemeral"
BY DEF RowFor, Indexes, IngestJob

LEMMA UnforcedRow ==
  ASSUME NEW j \in IngestJob, ~j.existing
  PROVE  /\ RowFor(j).status = IF Indexes(j) THEN "indexed"
                               ELSE IF j.retain THEN "fallback_only"
                               ELSE "ephemeral"
         /\ RowFor(j).fallback => ~Indexes(j)
BY DEF RowFor, Indexes, IngestJob

LEMMA CommitTells ==
  ASSUME TypeOK, UnforcedInv, ~forcing, forcing' = forcing,
         NEW j \in IngestJob, ~j.existing, CommitDocument(j)
  PROVE  UnforcedInv'
<1>1. j.doc \in DocIds /\ j.retain \in BOOLEAN
  BY DEF IngestJob
<1>2. /\ documents' = [documents EXCEPT ![j.doc] = RowFor(j)]
      /\ sections' = IF Indexes(j) THEN sections \cup {j.doc} ELSE sections
  BY DEF CommitDocument
<1>3. \A d \in sections' : Structured(d)
  BY <1>2 DEF Indexes, UnforcedInv
<1>4. ASSUME NEW d \in DocIds, Exists(d)'
      PROVE  StatusMatchesSections(d)'
  <2>1. CASE d = j.doc
    <3>1. documents'[d] = RowFor(j)
      BY <1>1, <1>2, <2>1 DEF TypeOK
    <3>2. RowFor(j).status = "indexed" => d \in sections'
      BY <1>2, <2>1, UnforcedRow
    <3>3. RowFor(j).status = "fallback_only" => d \notin sections'
      BY <1>2, <2>1, UnforcedRow DEF Indexes, UnforcedInv
    <3>4. RowFor(j).fallback => RowFor(j).status # "indexed"
      BY UnforcedRow
    <3> QED
      BY <3>1, <3>2, <3>3, <3>4 DEF StatusMatchesSections
  <2>2. CASE d # j.doc
    <3>1. documents'[d] = documents[d] /\ (d \in sections' <=> d \in sections)
      BY <1>2, <2>2 DEF TypeOK
    <3>2. Exists(d)
      BY <1>4, <3>1 DEF Exists
    <3> QED
      BY <3>1, <3>2 DEF StatusMatchesSections, UnforcedInv
  <2> QED
    BY <2>1, <2>2
<1> QED
  BY <1>3, <1>4 DEF UnforcedInv

(* A tombstone changes nothing else of a row.                               *)
LEMMA TombstoneTells ==
  ASSUME TypeOK, NEW j \in DeleteJob, MayErase(j), CommitTombstone(j)
  PROVE  /\ sections' = sections
         /\ \A d \in DocIds : Exists(d)' <=> Exists(d)
         /\ \A d \in DocIds : Exists(d) =>
              /\ documents'[d].status = documents[d].status
              /\ documents'[d].fallback = documents[d].fallback
              /\ documents'[d].hashed = documents[d].hashed
<1>1. j.doc \in DocIds /\ \A d \in DocIds : Exists(d)' <=> Exists(d)
  BY TombstoneEffect
<1>2. sections' = sections
  BY DEF CommitTombstone
<1>3. ASSUME NEW d \in DocIds, Exists(d)
      PROVE  /\ documents'[d].status = documents[d].status
             /\ documents'[d].fallback = documents[d].fallback
             /\ documents'[d].hashed = documents[d].hashed
  BY <1>1, <1>3 DEF CommitTombstone, Exists, Row, TypeOK
<1> QED
  BY <1>1, <1>2, <1>3

(* What a commit without retention leaves behind it: no new sections, and   *)
(* old ones only where an upload that kept them was overlapped.             *)
LEMMA CommitOverlaps ==
  ASSUME TypeOK, RowInv, NoteOverlaps, NEW w \in Workers,
         job[w] \in IngestJob, Commits(job[w]),
         NEW d \in sections'
  PROVE  Exists(d)' /\ (~documents'[d].hashed => d \in overlapped')
<1> DEFINE j == job[w]
<1>1. /\ j.doc \in DocIds /\ j.retain \in BOOLEAN
      /\ sections \subseteq DocIds
  BY DEF IngestJob, TypeOK
<1>2. /\ documents' = [documents EXCEPT ![j.doc] = RowFor(j)]
      /\ sections' = IF Indexes(j) THEN sections \cup {j.doc} ELSE sections
  BY DEF Commits, CommitDocument
<1>3. d \in DocIds
  BY <1>1, <1>2
<1>4. CASE d = j.doc
  <2>1. documents'[d] = RowFor(j) /\ Exists(d)'
    BY <1>1, <1>2, <1>4, CommitEffect DEF Commits, TypeOK
  <2>2. ASSUME ~RowFor(j).hashed
        PROVE  d \in overlapped
    <3>1. ~j.retain /\ d \in sections
      BY <1>2, <2>2, RowTells DEF Indexes
    <3>2. Exists(d) /\ (~documents[d].hashed => d \in overlapped)
      BY <3>1 DEF RowInv
    <3>3. j.at = "select" /\ Live(d) /\ ~j.existing
      BY <1>4, <3>1, <3>2 DEF Commits, RowInv, Settled
    <3>4. documents[d].hashed => Overlapping(d)
      BY <1>4, <3>1, <3>3 DEF Overlapping, FindDocIdByHash
    <3> QED
      BY <1>3, <3>2, <3>4 DEF RowInv
  <2> QED
    BY <1>3, <2>1, <2>2 DEF NoteOverlaps
<1>5. CASE d # j.doc
  <2>1. documents'[d] = documents[d] /\ d \in sections
    BY <1>1, <1>2, <1>3, <1>5 DEF TypeOK
  <2>2. Exists(d)' /\ (~documents[d].hashed => d \in overlapped)
    BY <2>1 DEF RowInv, Exists
  <2> QED
    BY <1>3, <2>1, <2>2 DEF NoteOverlaps
<1> QED
  BY <1>4, <1>5

(* Each step moves one job, which stays settled, and leaves the tables      *)
(* alone or commits to them.                                                *)
LEMMA SettledSteps ==
  ASSUME TypeOK, RequestStep, \A v \in Workers : Settled(job[v])
  PROVE  \E w \in Workers :
           /\ \A v \in Workers \ {w} : job'[v] = job[v]
           /\ Settled(job[w])'
           /\ \/ UNCHANGED <<documents, sections>>
              \/ job[w] \in IngestJob /\ Commits(job[w])
              \/ /\ job[w] \in DeleteJob /\ MayErase(job[w])
                 /\ CommitTombstone(job[w])
<1> USE DEF store
<1>1. PICK w \in Workers : Ask(w) \/ IngestStep(w) \/ DeleteStep(w) \/ Fault(w)
  BY DEF RequestStep
<1>0. forcing' = forcing
  BY DEF RequestStep, circumstances
<1>2. ASSUME \A v \in Workers \ {w} : job'[v] = job[v],
             \/ job'[w].at \notin {"find", "select", "insert"}
             \/ /\ job[w].at = "select" /\ job'[w].at = "insert"
                /\ job'[w].force = job[w].force
                /\ job'[w].existing = job[w].existing
                /\ job'[w].retain = job[w].retain
      PROVE  Settled(job[w])'
  BY <1>0, <1>2 DEF Settled
<1>3. CASE Ask(w)
  <2>1. CASE StartIngest(w)
    <3>1. PICK d \in DocIds, retain \in BOOLEAN, force \in ForceModes, r \in Regions :
            job' = [job EXCEPT ![w] =
                     [at |-> "find", doc |-> d, retain |-> retain,
                      force |-> force, region |-> r, existing |-> FALSE]]
      BY <2>1 DEF StartIngest
    <3>2. /\ job'[w] = [at |-> "find", doc |-> d, retain |-> retain,
                        force |-> force, region |-> r, existing |-> FALSE]
          /\ \A v \in Workers \ {w} : job'[v] = job[v]
      BY <3>1 DEF TypeOK
    <3>3. ~forcing => ~job'[w].force
      BY <1>3, <3>2 DEF Ask
    <3> QED
      BY <1>0, <2>1, <3>2, <3>3 DEF StartIngest, Settled
  <2>2. CASE StartDelete(w)
    BY <1>2, <2>2 DEF StartDelete, TypeOK
  <2> QED
    BY <1>3, <2>1, <2>2 DEF Ask, Start, StartDelete
<1>4. CASE IngestStep(w)
  <2>1. CASE AnswerDuplicate(w)
    <3>1. job'[w].at = "answer"
      <4>1. job[w] \in IngestJob
        BY <2>1, LookupEffect
      <4>2. job'[w] = [job[w] EXCEPT !.at = "answer", !.existing = TRUE]
        BY <2>1 DEF AnswerDuplicate, TypeOK
      <4> QED
        BY <4>1, <4>2 DEF IngestJob
    <3> QED
      BY <1>2, <2>1, <3>1, LookupEffect DEF AnswerDuplicate
  <2>2. CASE LookupAndParse(w)
    <3> DEFINE found == FindDocIdByHash(job[w].doc)
               s == IF found /\ ~job[w].retain THEN "answer" ELSE "select"
               e == found
    <3>1. job[w] \in IngestJob /\ (~forcing => ~job[w].force)
      BY <2>2, LookupEffect DEF LookupAndParse, Settled
    <3>2. /\ job' = [job EXCEPT ![w].at = s, ![w].existing = e]
          /\ s = "select" /\ ~job[w].retain => ~e
          /\ s = "select" /\ ~forcing => ~e
          /\ s \in {"answer", "select"}
      BY <2>2, <3>1 DEF LookupAndParse, IsDuplicate
    <3> HIDE DEF s, e
    <3>3. job'[w] = [job[w] EXCEPT !.at = s, !.existing = e]
      BY <3>2 DEF TypeOK
    <3>4. /\ job'[w].at = s /\ job'[w].existing = e
          /\ job'[w].retain = job[w].retain
          /\ job'[w].force = job[w].force
      BY <3>1, <3>3 DEF IngestJob
    <3>5. Settled(job[w])'
      BY <1>0, <3>1, <3>2, <3>4 DEF Settled
    <3> QED
      BY <2>2, <3>5, LookupEffect DEF LookupAndParse
  <2>3. CASE UpdateDocument(w) \/ InsertDocument(w)
    <3>1. /\ job[w] \in IngestJob
          /\ Advance(w, AfterCommit(job[w]))
          /\ Commits(job[w])
      BY <2>3, JobKinds DEF UpdateDocument, InsertDocument, Commits
    <3>2. AfterCommit(job[w]) \notin {"find", "select", "insert"}
      BY DEF AfterCommit
    <3> QED
      BY <1>2, <3>1, <3>2, AdvanceEffect
  <2>4. CASE SelectAbsent(w) \/ EmbedChunks(w) \/ UpsertPoints(w)
    <3>1. /\ job[w] \in IngestJob
          /\ \/ job[w].at = "select" /\ Advance(w, "insert")
             \/ Advance(w, "upsert") \/ Advance(w, "answer")
          /\ UNCHANGED <<documents, sections>>
      BY <2>4, JobKinds DEF SelectAbsent, EmbedChunks, UpsertPoints, SetPoints
    <3> QED
      BY <1>2, <3>1, AdvanceEffect
  <2>5. CASE RejectUnreadable(w) \/ RefuseTombstoned(w) \/ InsertConflict(w)
             \/ RollBackPoints(w) \/ AnswerIngest(w)
    <3>1. Finish(w) /\ UNCHANGED <<documents, sections>>
      BY <2>5 DEF RejectUnreadable, RefuseTombstoned, InsertConflict,
                  RollBackPoints, AnswerIngest, SetPoints
    <3> QED
      BY <1>2, <3>1, FinishEffect
  <2> QED
    BY <1>4, <2>1, <2>2, <2>3, <2>4, <2>5 DEF IngestStep
<1>5. CASE DeleteStep(w)
  <2>1. CASE TombstoneDocument(w)
    BY <1>2, <2>1, JobKinds, AdvanceEffect DEF TombstoneDocument
  <2>2. CASE DeleteNotFound(w) \/ AnswerDelete(w)
    BY <1>2, <2>2, FinishEffect DEF DeleteNotFound, AnswerDelete
  <2> QED
    BY <1>5, <2>1, <2>2 DEF DeleteStep
<1>6. CASE Fault(w)
  <2>1. CASE UpsertFails(w)
    <3>1. /\ job[w] \in IngestJob
          /\ Advance(w, "rollback")
          /\ UNCHANGED <<documents, sections>>
      BY <2>1, JobKinds DEF UpsertFails, SetPoints
    <3> QED
      BY <1>2, <3>1, AdvanceEffect
  <2>2. CASE CommitReplyLost(w)
    <3>1. /\ Finish(w)
          /\ \/ job[w] \in IngestJob /\ Commits(job[w])
             \/ /\ job[w] \in DeleteJob /\ MayErase(job[w])
                /\ CommitTombstone(job[w])
      BY <2>2, JobKinds DEF CommitReplyLost, Commits
    <3> QED
      BY <1>2, <3>1, FinishEffect
  <2>3. CASE DatabaseFails(w) \/ EmbedFails(w) \/ RollbackFails(w) \/ Crash(w)
    <3>1. Finish(w) /\ UNCHANGED <<documents, sections>>
      BY <2>3 DEF DatabaseFails, EmbedFails, RollbackFails, Crash
    <3> QED
      BY <1>2, <3>1, FinishEffect
  <2> QED
    BY <1>6, <2>1, <2>2, <2>3 DEF Fault
<1> QED
  BY <1>1, <1>3, <1>4, <1>5, <1>6

LEMMA RowStep ==
  TypeOK /\ RowInv /\ [RequestStep \/ FaultsStop]_serviceVars => RowInv'
<1> SUFFICES ASSUME TypeOK, RowInv, [RequestStep \/ FaultsStop]_serviceVars
             PROVE  RowInv'
  OBVIOUS
<1>1. forcing' = forcing
  BY DEF RequestStep, FaultsStop, serviceVars, circumstances
<1>2. CASE UNCHANGED <<vars, overlapped>>
  BY <1>1, <1>2 DEF vars, RowInv, Exists, Settled, Overlapping, FindDocIdByHash,
                    Live
<1>3. CASE RequestStep
  <2>1. PICK w \in Workers :
           /\ \A v \in Workers \ {w} : job'[v] = job[v]
           /\ Settled(job[w])'
           /\ \/ UNCHANGED <<documents, sections>>
              \/ job[w] \in IngestJob /\ Commits(job[w])
              \/ /\ job[w] \in DeleteJob /\ MayErase(job[w])
                 /\ CommitTombstone(job[w])
    BY <1>3, SettledSteps DEF RowInv
  <2>2. NoteOverlaps /\ sections \subseteq DocIds
    BY <1>3 DEF RequestStep, TypeOK
  <2>3. \A v \in Workers : Settled(job[v])'
    BY <1>1, <2>1 DEF RowInv, Settled
  <2>4. \A d \in DocIds : Overlapping(d)' => d \in overlapped'
    BY <2>2 DEF NoteOverlaps
  <2>5. /\ \A d \in DocIds : Exists(d)' =>
             documents'[d].hashed <=> documents'[d].status # "ephemeral"
        /\ \A d \in sections' :
             Exists(d)' /\ (~documents'[d].hashed => d \in overlapped')
    <3>1. CASE UNCHANGED <<documents, sections>>
      BY <2>2, <3>1 DEF RowInv, Exists, NoteOverlaps
    <3>2. CASE job[w] \in IngestJob /\ Commits(job[w])
      <4>1. ASSUME NEW d \in DocIds, Exists(d)'
            PROVE  documents'[d].hashed <=> documents'[d].status # "ephemeral"
        <5>1. documents' = [documents EXCEPT ![job[w].doc] = RowFor(job[w])]
          BY <3>2 DEF Commits, CommitDocument
        <5>2. CASE d = job[w].doc
          BY <3>2, <5>1, <5>2, RowTells DEF TypeOK
        <5>3. CASE d # job[w].doc
          BY <4>1, <5>1, <5>3 DEF RowInv, Exists, TypeOK
        <5> QED
          BY <5>2, <5>3
      <4> QED
        BY <2>2, <3>2, <4>1, CommitOverlaps
    <3>3. CASE /\ job[w] \in DeleteJob /\ MayErase(job[w])
               /\ CommitTombstone(job[w])
      BY <2>2, <3>3, TombstoneTells DEF RowInv, NoteOverlaps
    <3> QED
      BY <2>1, <3>1, <3>2, <3>3
  <2> QED
    BY <2>3, <2>4, <2>5 DEF RowInv
<1> QED
  BY <1>2, <1>3 DEF FaultsStop, serviceVars

LEMMA UnforcedStep ==
  /\ TypeOK /\ RowInv /\ UnforcedInv
  /\ [RequestStep \/ FaultsStop]_serviceVars
  => UnforcedInv'
<1> SUFFICES ASSUME TypeOK, RowInv, UnforcedInv,
                    [RequestStep \/ FaultsStop]_serviceVars, ~forcing'
             PROVE  UnforcedInv'
  BY DEF UnforcedInv
<1>1. ~forcing /\ forcing' = forcing
  BY DEF RequestStep, FaultsStop, serviceVars, circumstances
<1>2. ASSUME UNCHANGED <<documents, sections>>
      PROVE  UnforcedInv'
  BY <1>1, <1>2 DEF UnforcedInv, StatusMatchesSections, Exists
<1>3. CASE RequestStep
  <2>1. PICK w \in Workers :
           \/ UNCHANGED <<documents, sections>>
           \/ job[w] \in IngestJob /\ Commits(job[w])
           \/ /\ job[w] \in DeleteJob /\ MayErase(job[w])
              /\ CommitTombstone(job[w])
    BY <1>3, SettledSteps DEF RowInv
  <2>2. CASE job[w] \in IngestJob /\ Commits(job[w])
    <3>1. ~job[w].existing
      BY <1>1, <2>2 DEF RowInv, Settled, Commits
    <3> QED
      BY <1>1, <2>2, <3>1, CommitTells DEF Commits
  <2>3. CASE /\ job[w] \in DeleteJob /\ MayErase(job[w])
             /\ CommitTombstone(job[w])
    BY <1>1, <2>3, TombstoneTells DEF UnforcedInv, StatusMatchesSections
  <2> QED
    BY <1>2, <2>1, <2>2, <2>3
<1> QED
  BY <1>2, <1>3 DEF FaultsStop, serviceVars, vars

(* A row is found by its hash exactly when a retained upload wrote it last, *)
(* and an ephemeral row has no sections unless a retained upload committed  *)
(* them between the lookup and the update of a no-retention one; unless     *)
(* re-ingestion is forced, a row is indexed only with sections and a        *)
(* fallback only without; and nothing is kept that was not offered: for any *)
(* number of requests and any failures.                                     *)
THEOREM RowsTell == ServiceSpec => []RowTellsWhatIsKept
<1>1. ServiceInit => TypeOK /\ RowInv /\ UnforcedInv
  <2>1. ServiceInit => RowInv /\ UnforcedInv
    BY IdleIsApart DEF ServiceInit, Init, RowInv, UnforcedInv, Exists, Settled,
                       Overlapping, FindDocIdByHash, Live
  <2> QED
    BY <2>1, InitTypeOK DEF ServiceInit
<1>2. TypeOK /\ [RequestStep \/ FaultsStop]_serviceVars => TypeOK'
  BY ServiceStep, NextTypeOK
<1>3. RowInv /\ UnforcedInv /\ OnlyOfferedIsKept => RowTellsWhatIsKept
  BY DEF RowInv, UnforcedInv, RowTellsWhatIsKept, EphemeralKeepsNothing
<1> QED
  BY <1>1, <1>2, <1>3, RowStep, UnforcedStep, ServiceIsLifecycle, OfferedKept,
     PTL DEF ServiceSpec

-----------------------------------------------------------------------------
(* Where nothing fails the two stores agree.  Who commits sections goes on  *)
(* to write their vectors, and nobody ever deletes any.                     *)

Writes(j, d) == j.at \in {"embed", "upsert"} /\ j.doc = d

Provided(d) == points[d] = "all" \/ \E w \in Workers : Writes(job[w], d)

SoundInv ==
  world = "sound" =>
    /\ \A w \in Workers : job[w].at # "rollback"
    /\ \A d \in sections : ShapeOf(d) = "sectioned" => Provided(d)

LEMMA SoundSteps ==
  ASSUME TypeOK, RequestStep, world = "sound",
         \A v \in Workers : job[v].at # "rollback"
  PROVE  \E w \in Workers :
           /\ \A v \in Workers \ {w} : job'[v] = job[v]
           /\ job'[w].at # "rollback"
           /\ \/ /\ job[w].at \notin {"embed", "upsert"}
                 /\ UNCHANGED <<sections, points>>
              \/ /\ job[w].at \notin {"embed", "upsert"}
                 /\ CommitDocument(job[w])
                 /\ job'[w].at = AfterCommit(job[w])
                 /\ job'[w].doc = job[w].doc
              \/ /\ job'[w].at = "upsert" /\ job'[w].doc = job[w].doc
                 /\ UNCHANGED <<sections, points>>
              \/ /\ job[w].doc \in DocIds
                 /\ points' = [points EXCEPT ![job[w].doc] = "all"]
                 /\ UNCHANGED sections
<1> USE DEF store
<1>1. PICK w \in Workers : Ask(w) \/ IngestStep(w) \/ DeleteStep(w)
  BY DEF RequestStep
<1>2. CASE Ask(w)
  <2>1. job[w].at = "idle"
    BY <1>2, IdleIsApart DEF Ask, Start, StartIngest, StartDelete
  <2>2. /\ \A v \in Workers \ {w} : job'[v] = job[v]
        /\ job'[w].at # "rollback"
    BY <1>2 DEF Ask, Start, StartIngest, StartDelete, TypeOK
  <2> QED
    BY <1>2, <2>1, <2>2 DEF Ask, Start, StartIngest, StartDelete
<1>3. CASE IngestStep(w)
  <2>1. CASE AnswerDuplicate(w) \/ LookupAndParse(w)
    BY <2>1, LookupEffect DEF AnswerDuplicate, LookupAndParse
  <2>2. CASE UpdateDocument(w) \/ InsertDocument(w)
    <3>1. /\ job[w] \in IngestJob
          /\ job[w].at \notin {"embed", "upsert"}
          /\ Advance(w, AfterCommit(job[w]))
          /\ CommitDocument(job[w])
      BY <2>2, JobKinds DEF UpdateDocument, InsertDocument
    <3>2. AfterCommit(job[w]) # "rollback"
      BY DEF AfterCommit
    <3> QED
      BY <3>1, <3>2, AdvanceEffect
  <2>3. CASE SelectAbsent(w)
    BY <2>3, JobKinds, AdvanceEffect DEF SelectAbsent
  <2>4. CASE EmbedChunks(w)
    BY <2>4, JobKinds, AdvanceEffect DEF EmbedChunks
  <2>5. CASE UpsertPoints(w)
    <3>1. /\ job[w] \in IngestJob /\ job[w].doc \in DocIds
          /\ Advance(w, "answer")
          /\ points' = [points EXCEPT ![job[w].doc] = "all"]
          /\ UNCHANGED sections
      BY <2>5, JobKinds DEF UpsertPoints, SetPoints
    <3>2. /\ \A v \in Workers \ {w} : job'[v] = job[v]
          /\ job'[w].at = "answer"
      BY <3>1, AdvanceEffect
    <3> QED
      BY <3>1, <3>2
  <2>6. CASE RejectUnreadable(w) \/ RefuseTombstoned(w) \/ InsertConflict(w)
             \/ AnswerIngest(w)
    <3>1. /\ Finish(w) /\ UNCHANGED <<sections, points>>
          /\ job[w].at \notin {"embed", "upsert"}
      BY <2>6 DEF RejectUnreadable, RefuseTombstoned, InsertConflict,
                  AnswerIngest
    <3> QED
      BY <3>1, FinishEffect
  <2> QED
    BY <1>3, <2>1, <2>2, <2>3, <2>4, <2>5, <2>6 DEF IngestStep, RollBackPoints
<1>4. CASE DeleteStep(w)
  <2>1. CASE TombstoneDocument(w)
    BY <2>1, JobKinds, AdvanceEffect DEF TombstoneDocument, CommitTombstone
  <2>2. CASE DeleteNotFound(w) \/ AnswerDelete(w)
    BY <2>2, FinishEffect DEF DeleteNotFound, AnswerDelete
  <2> QED
    BY <1>4, <2>1, <2>2 DEF DeleteStep
<1> QED
  BY <1>1, <1>2, <1>3, <1>4

LEMMA SoundStep ==
  TypeOK /\ SoundInv /\ [RequestStep \/ FaultsStop]_serviceVars => SoundInv'
<1> SUFFICES ASSUME TypeOK, SoundInv, [RequestStep \/ FaultsStop]_serviceVars,
                    world' = "sound"
             PROVE  SoundInv'
  BY DEF SoundInv
<1>1. world = "sound" /\ ~FaultsStop
  BY DEF RequestStep, FaultsStop, serviceVars, circumstances
<1>2. /\ \A w \in Workers : job[w].at # "rollback"
      /\ \A d \in sections : ShapeOf(d) = "sectioned" => Provided(d)
  BY <1>1 DEF SoundInv
<1>3. CASE UNCHANGED vars
  BY <1>2, <1>3 DEF vars, SoundInv, Provided, Writes
<1>4. CASE RequestStep
  <2>1. PICK w \in Workers :
           /\ \A v \in Workers \ {w} : job'[v] = job[v]
           /\ job'[w].at # "rollback"
           /\ \/ /\ job[w].at \notin {"embed", "upsert"}
                 /\ UNCHANGED <<sections, points>>
              \/ /\ job[w].at \notin {"embed", "upsert"}
                 /\ CommitDocument(job[w])
                 /\ job'[w].at = AfterCommit(job[w])
                 /\ job'[w].doc = job[w].doc
              \/ /\ job'[w].at = "upsert" /\ job'[w].doc = job[w].doc
                 /\ UNCHANGED <<sections, points>>
              \/ /\ job[w].doc \in DocIds
                 /\ points' = [points EXCEPT ![job[w].doc] = "all"]
                 /\ UNCHANGED sections
    BY <1>1, <1>2, <1>4, SoundSteps
  <2>2. \A v \in Workers : job'[v].at # "rollback"
    BY <1>2, <2>1
  <2>3. ASSUME NEW d \in DocIds, Provided(d),
               \/ points' = points
               \/ points' = [points EXCEPT ![job[w].doc] = "all"],
               ~Writes(job[w], d) \/ Writes(job'[w], d) \/ points'[d] = "all"
        PROVE  Provided(d)'
    BY <2>1, <2>3 DEF Provided, Writes, TypeOK
  <2>4. ASSUME NEW d \in sections', ShapeOf(d) = "sectioned"
        PROVE  Provided(d)'
    <3>1. CASE /\ job[w].at \notin {"embed", "upsert"}
               /\ UNCHANGED <<sections, points>>
      BY <1>2, <2>3, <2>4, <3>1 DEF Writes, TypeOK
    <3>2. CASE /\ job[w].at \notin {"embed", "upsert"}
               /\ CommitDocument(job[w])
               /\ job'[w].at = AfterCommit(job[w])
               /\ job'[w].doc = job[w].doc
      <4>1. /\ points' = points
            /\ \/ d \in sections
               \/ d = job[w].doc /\ Indexes(job[w])
        BY <2>4, <3>2 DEF CommitDocument
      <4>2. CASE d \in sections
        BY <1>2, <2>3, <2>4, <3>2, <4>1, <4>2 DEF Writes, TypeOK
      <4>3. CASE d = job[w].doc /\ Indexes(job[w])
        BY <2>4, <3>2, <4>3 DEF AfterCommit, Provided, Writes
      <4> QED
        BY <4>1, <4>2, <4>3
    <3>3. CASE /\ job'[w].at = "upsert" /\ job'[w].doc = job[w].doc
               /\ UNCHANGED <<sections, points>>
      BY <1>2, <2>3, <2>4, <3>3 DEF Writes, TypeOK
    <3>4. CASE /\ job[w].doc \in DocIds
               /\ points' = [points EXCEPT ![job[w].doc] = "all"]
               /\ UNCHANGED sections
      <4>1. d \in DocIds /\ Provided(d)
        BY <1>2, <2>4, <3>4 DEF TypeOK
      <4>2. ~Writes(job[w], d) \/ points'[d] = "all"
        BY <3>4 DEF Writes, TypeOK
      <4> QED
        BY <2>3, <3>4, <4>1, <4>2
    <3> QED
      BY <2>1, <3>1, <3>2, <3>3, <3>4
  <2> QED
    BY <2>2, <2>4 DEF SoundInv
<1> QED
  BY <1>1, <1>3, <1>4 DEF serviceVars

(* Where nothing fails, a document with sections whose requests are over    *)
(* has all its vectors, however many requests overlapped, forced or not,    *)
(* and erasures among them.                                                 *)
THEOREM QuietAgree == ServiceSpec => []QuietStoresAgree
<1>1. ServiceInit => TypeOK /\ SoundInv
  <2>1. ServiceInit => SoundInv
    BY IdleIsApart DEF ServiceInit, Init, SoundInv
  <2> QED
    BY <2>1, InitTypeOK DEF ServiceInit
<1>2. TypeOK /\ [RequestStep \/ FaultsStop]_serviceVars => TypeOK'
  BY ServiceStep, NextTypeOK
<1>3. SoundInv => QuietStoresAgree
  BY IdleIsApart DEF SoundInv, QuietStoresAgree, Provided, Writes
<1> QED
  BY <1>1, <1>2, <1>3, SoundStep, PTL DEF ServiceSpec

-----------------------------------------------------------------------------
(* The readers.                                                             *)

LEMMA ReadsOnlyLook == ASSUME NEW r \in Readers, ReadStep(r)
                       PROVE  UNCHANGED vars
BY DEF ReadStep, StartRead, GetDocument, CheckLive, ReadRows, AnswerToc,
       HitCache, MissCache, FillCache, AskModel, StartList, CountDocuments,
       SelectPage, Answer, SelectFails

LEMMA WritesAreSteps ==
  ASSUME NEW w \in Workers,
         AnswerAndInvalidate(w) \/ CrashProcess(w) \/ WriteStep(w)
  PROVE  Next
<1>1. CASE AnswerAndInvalidate(w)
  BY <1>1 DEF AnswerAndInvalidate, Next, IngestStep, DeleteStep
<1>2. CASE CrashProcess(w)
  BY <1>2 DEF CrashProcess, Next, Fault
<1>3. CASE WriteStep(w)
  BY <1>3 DEF WriteStep, Next, Fault
<1> QED
  BY <1>1, <1>2, <1>3

LEMMA ReadersStep == [ReadersNext]_allVars => [Next]_vars
BY ReadsOnlyLook, WritesAreSteps DEF ReadersNext, allVars

(* Whoever reads, the stores and their writers behave as the lifecycle      *)
(* does, so its theorems hold of them.                                      *)
THEOREM ReadersAreLifecycle == ReadersSpec => Spec
<1>1. ReadersInit => Init
  BY DEF ReadersInit
<1> QED
  BY <1>1, ReadersStep, PTL DEF ReadersSpec, Spec

-----------------------------------------------------------------------------
(* The fields of a read whose prompt, or count, is p.                       *)

RouteReadWith(p) ==
  [kind: {"route", "toc"}, doc: DocIds, by: Callers,
   record: {"unread", "none", "found"},
   at: {"live", "rows", "read", "fill", "model", "answer"},
   toc: Tocs, prompt: {p}, routed: BOOLEAN, before: SUBSET DocIds]

ListReadWith(p) ==
  [kind: {"list"}, at: {"count", "page", "answer"}, by: Callers,
   count: {p}, page: SUBSET DocIds, before: SUBSET DocIds]

IsRoute(q) == \E p : q \in RouteReadWith(p)
IsList(q) == \E p : q \in ListReadWith(p)

ReadShape ==
  /\ reader = [r \in Readers |-> reader[r]]
  /\ \A r \in Readers :
       reader[r] = Idle \/ IsRoute(reader[r]) \/ IsList(reader[r])

(* Of the same document, for the same caller.                               *)
SameRequest(q, new) ==
  new.doc = q.doc /\ new.by = q.by /\ new.before = q.before

Steps == {"live", "rows", "read", "fill", "model", "answer"}

(* How a read of a document may go on.                                      *)
RouteGoesOn(q, new) ==
  /\ IsRoute(q) /\ IsRoute(new)
  /\ SameRequest(q, new)
  /\ new.record = "found" => q.record = "found" \/ Visible(q.doc, q.by)
  /\ new.at = "rows" => q.at = "rows" \/ Visible(q.doc, q.by)
  /\ new.toc = "full" => \/ q.toc = "full"
                         \/ q.at = "rows" /\ q.doc \in sections
  /\ new.routed => q.routed \/ q.toc = "full"

RouteBegins(new) ==
  /\ IsRoute(new)
  /\ new.record = "unread" /\ new.at = "live" /\ new.toc = "empty"
  /\ ~new.routed
  /\ new.before = Erased \cap {new.doc}

ListGoesOn(q, new) ==
  /\ IsList(q) /\ IsList(new)
  /\ new.before = q.before
  /\ new.page = q.page \/ new.page = Listed(q.by)

ListBegins(new) == IsList(new) /\ new.page = {} /\ new.before = Erased

LEMMA Kinds ==
  /\ \A q : IsRoute(q) => q # Idle /\ ~IsList(q) /\ q.kind \in {"route", "toc"}
  /\ \A q : IsList(q) => q # Idle /\ q.kind = "list"
BY DEF IsRoute, IsList, RouteReadWith, ListReadWith, Idle

LEMMA RouteRecord ==
  ASSUME NEW q, IsRoute(q), NEW x \in {"none", "found"}
  PROVE  LET new == [q EXCEPT !.record = x]
         IN /\ IsRoute(new)
            /\ SameRequest(q, new)
            /\ new.record = x
            /\ new.at = q.at /\ new.toc = q.toc /\ new.routed = q.routed
<1> PICK p : q \in RouteReadWith(p)
  BY DEF IsRoute
<1> DEFINE new == [q EXCEPT !.record = x]
<1>1. new \in RouteReadWith(p)
  BY Zenon DEF RouteReadWith, Steps
<1>2. /\ SameRequest(q, new)
      /\ new.record = x
      /\ new.at = q.at /\ new.toc = q.toc /\ new.routed = q.routed
  BY Zenon DEF RouteReadWith, SameRequest
<1> HIDE DEF new
<1>3. IsRoute(new)
  BY <1>1 DEF IsRoute
<1> QED
  BY <1>2, <1>3 DEF new

LEMMA RouteMove ==
  ASSUME NEW q, IsRoute(q), NEW x \in Steps
  PROVE  LET new == [q EXCEPT !.at = x]
         IN /\ IsRoute(new)
            /\ SameRequest(q, new)
            /\ new.at = x
            /\ new.record = q.record /\ new.toc = q.toc /\ new.routed = q.routed
<1> PICK p : q \in RouteReadWith(p)
  BY DEF IsRoute
<1> DEFINE new == [q EXCEPT !.at = x]
<1>1. new \in RouteReadWith(p)
  BY Zenon DEF RouteReadWith, Steps
<1>2. /\ SameRequest(q, new)
      /\ new.at = x
      /\ new.record = q.record /\ new.toc = q.toc /\ new.routed = q.routed
  BY Zenon DEF RouteReadWith, SameRequest
<1> HIDE DEF new
<1>3. IsRoute(new)
  BY <1>1 DEF IsRoute
<1> QED
  BY <1>2, <1>3 DEF new

LEMMA RoutePrompt ==
  ASSUME NEW q, IsRoute(q), NEW x
  PROVE  LET new == [q EXCEPT !.at = "model", !.prompt = x]
         IN /\ IsRoute(new)
            /\ SameRequest(q, new)
            /\ new.at = "model"
            /\ new.record = q.record /\ new.toc = q.toc /\ new.routed = q.routed
<1> PICK p : q \in RouteReadWith(p)
  BY DEF IsRoute
<1> DEFINE new == [q EXCEPT !.at = "model", !.prompt = x]
<1>1. new \in RouteReadWith(x)
  BY Zenon DEF RouteReadWith, Steps
<1>2. /\ SameRequest(q, new)
      /\ new.at = "model"
      /\ new.record = q.record /\ new.toc = q.toc /\ new.routed = q.routed
  BY Zenon DEF RouteReadWith, SameRequest
<1> HIDE DEF new
<1>3. IsRoute(new)
  BY <1>1 DEF IsRoute
<1> QED
  BY <1>2, <1>3 DEF new

LEMMA ListChange ==
  ASSUME NEW q, IsList(q)
  PROVE  /\ \A n : ListGoesOn(q, [q EXCEPT !.at = "page", !.count = n])
         /\ Listed(q.by) \subseteq DocIds =>
              ListGoesOn(q, [q EXCEPT !.at = "answer", !.page = Listed(q.by)])
<1> PICK p : q \in ListReadWith(p)
  BY DEF IsList
<1>1. ASSUME NEW n
      PROVE  ListGoesOn(q, [q EXCEPT !.at = "page", !.count = n])
  <2> DEFINE new == [q EXCEPT !.at = "page", !.count = n]
  <2>1. new \in ListReadWith(n) /\ new.before = q.before /\ new.page = q.page
    BY Zenon DEF ListReadWith
  <2> HIDE DEF new
  <2>2. ListGoesOn(q, new)
    BY <2>1 DEF ListGoesOn, IsList
  <2> QED
    BY <2>2 DEF new
<1>2. ASSUME Listed(q.by) \subseteq DocIds
      PROVE  ListGoesOn(q, [q EXCEPT !.at = "answer", !.page = Listed(q.by)])
  <2> DEFINE page == Listed(q.by)
             new == [q EXCEPT !.at = "answer", !.page = page]
  <2> HIDE DEF page
  <2>1. page \in SUBSET DocIds
    BY <1>2 DEF page
  <2>2. new \in ListReadWith(p) /\ new.before = q.before /\ new.page = page
    BY <2>1, Zenon DEF ListReadWith
  <2> HIDE DEF new
  <2>3. ListGoesOn(q, new)
    BY <2>2 DEF ListGoesOn, IsList, page
  <2> QED
    BY <2>3 DEF new, page
<1> QED
  BY <1>1, <1>2

LEMMA ReadBegins ==
  /\ \A k \in {"route", "toc"}, d \in DocIds, t \in Callers :
       RouteBegins([kind |-> k, doc |-> d, by |-> t, record |-> "unread",
                    at |-> "live", toc |-> "empty", prompt |-> "empty",
                    routed |-> FALSE, before |-> Erased \cap {d}])
  /\ \A t \in Callers :
       ListBegins([kind |-> "list", at |-> "count", by |-> t, count |-> 0,
                   page |-> {}, before |-> Erased])
<1>1. Erased \subseteq DocIds
  BY DEF Erased
<1>2. ASSUME NEW k \in {"route", "toc"}, NEW d \in DocIds, NEW t \in Callers
      PROVE  RouteBegins([kind |-> k, doc |-> d, by |-> t, record |-> "unread",
                    at |-> "live", toc |-> "empty", prompt |-> "empty",
                    routed |-> FALSE, before |-> Erased \cap {d}])
  <2> DEFINE new == [kind |-> k, doc |-> d, by |-> t, record |-> "unread",
                    at |-> "live", toc |-> "empty", prompt |-> "empty",
                    routed |-> FALSE, before |-> Erased \cap {d}]
  <2>1. new \in RouteReadWith("empty")
    BY <1>1 DEF RouteReadWith, Tocs
  <2> QED
    BY <2>1 DEF RouteBegins, IsRoute
<1>3. ASSUME NEW t \in Callers
      PROVE  ListBegins([kind |-> "list", at |-> "count", by |-> t, count |-> 0,
                         page |-> {}, before |-> Erased])
  <2> DEFINE new == [kind |-> "list", at |-> "count", by |-> t, count |-> 0,
                     page |-> {}, before |-> Erased]
  <2>1. new \in ListReadWith(0)
    BY <1>1 DEF ListReadWith
  <2> QED
    BY <2>1 DEF ListBegins, IsList
<1> QED
  BY <1>2, <1>3

LEMMA RouteSteps ==
  ASSUME ReadShape, NEW r \in Readers, IsRoute(reader[r]),
         \/ GetDocument(r) \/ CheckLive(r) \/ ReadRows(r) \/ AnswerToc(r)
         \/ HitCache(r) \/ MissCache(r) \/ FillCache(r) \/ AskModel(r)
  PROVE  EndRead(r) \/ \E new : RouteGoesOn(reader[r], new) /\ ReadOn(r, new)
<1> DEFINE q == reader[r]
<1> USE DEF RouteGoesOn
<1>1. CASE GetDocument(r)
  BY <1>1, RouteRecord DEF GetDocument
<1>2. CASE CheckLive(r)
  <2> DEFINE at == IF Visible(q.doc, q.by) THEN "rows" ELSE "read"
  <2>1. at \in Steps /\ ReadOn(r, [q EXCEPT !.at = at])
    BY <1>2 DEF CheckLive, Steps
  <2> QED
    BY <2>1, RouteMove
<1>3. CASE ReadRows(r)
  <2> DEFINE toc == IF q.doc \in sections THEN "full" ELSE "empty"
             at == "read"
             new == [q EXCEPT !.at = at, !.toc = toc]
  <2>1. /\ q.at = "rows" /\ toc \in Tocs /\ at \in Steps /\ ReadOn(r, new)
        /\ toc = "full" => q.doc \in sections
        /\ at # "rows"
    BY <1>3 DEF ReadRows, Steps, Tocs
  <2> HIDE DEF toc, at
  <2> PICK p : q \in RouteReadWith(p)
    BY DEF IsRoute
  <2>2. /\ new \in RouteReadWith(p) /\ SameRequest(q, new)
        /\ new.at = at /\ new.toc = toc
        /\ new.record = q.record /\ new.routed = q.routed
    BY <2>1, Zenon DEF RouteReadWith, SameRequest, Steps
  <2> HIDE DEF new
  <2>3. RouteGoesOn(q, new)
    BY <2>1, <2>2 DEF IsRoute
  <2> QED
    BY <2>1, <2>3 DEF new
<1>4. CASE AnswerToc(r)
  <2>1. ReadOn(r, [q EXCEPT !.at = "answer"]) \/ EndRead(r)
    BY <1>4 DEF AnswerToc
  <2>2. RouteGoesOn(q, [q EXCEPT !.at = "answer"])
    BY RouteMove DEF Steps
  <2> HIDE DEF RouteGoesOn
  <2> QED
    BY <2>1, <2>2
<1>5. CASE HitCache(r)
  <2>1. PICK x : ReadOn(r, [q EXCEPT !.at = "model", !.prompt = x])
    BY <1>5 DEF HitCache
  <2>2. RouteGoesOn(q, [q EXCEPT !.at = "model", !.prompt = x])
    BY RoutePrompt
  <2> HIDE DEF RouteGoesOn
  <2> QED
    BY <2>1, <2>2
<1>6. CASE MissCache(r)
  BY <1>6, RouteMove DEF MissCache, Steps
<1>7. CASE FillCache(r)
  <2>1. PICK x : ReadOn(r, [q EXCEPT !.at = "model", !.prompt = x])
    BY <1>7 DEF FillCache
  <2>2. RouteGoesOn(q, [q EXCEPT !.at = "model", !.prompt = x])
    BY RoutePrompt
  <2> HIDE DEF RouteGoesOn
  <2> QED
    BY <2>1, <2>2
<1>8. CASE AskModel(r)
  <2>1. PICK routed \in {FALSE, MayRoute(q)} :
          ReadOn(r, [q EXCEPT !.at = "answer", !.routed = routed])
    BY <1>8 DEF AskModel
  <2>2. routed \in BOOLEAN /\ (routed => q.toc = "full")
    BY <2>1 DEF MayRoute
  <2> DEFINE new == [q EXCEPT !.at = "answer", !.routed = routed]
  <2> PICK p : q \in RouteReadWith(p)
    BY DEF IsRoute
  <2>3. /\ new \in RouteReadWith(p) /\ SameRequest(q, new)
        /\ new.at = "answer" /\ new.routed = routed
        /\ new.record = q.record /\ new.toc = q.toc
    BY <2>2, Zenon DEF RouteReadWith, SameRequest
  <2> HIDE DEF new
  <2>4. RouteGoesOn(q, new)
    BY <2>2, <2>3 DEF IsRoute
  <2> QED
    BY <2>1, <2>4 DEF new
<1> QED
  BY <1>1, <1>2, <1>3, <1>4, <1>5, <1>6, <1>7, <1>8

(* What a step of one reader does to what it has read.                      *)
LEMMA ReadEffect ==
  ASSUME ReadShape, NEW r \in Readers, ReadStep(r)
  PROVE  /\ reader' = [s \in Readers |-> reader'[s]]
         /\ \A s \in Readers \ {r} : reader'[s] = reader[s]
         /\ \/ reader'[r] = Idle
            \/ reader[r] = Idle /\ RouteBegins(reader'[r])
            \/ reader[r] = Idle /\ ListBegins(reader'[r])
            \/ RouteGoesOn(reader[r], reader'[r])
            \/ ListGoesOn(reader[r], reader'[r])
<1> DEFINE Outcome(new) ==
             \/ new = Idle
             \/ reader[r] = Idle /\ RouteBegins(new)
             \/ reader[r] = Idle /\ ListBegins(new)
             \/ RouteGoesOn(reader[r], new)
             \/ ListGoesOn(reader[r], new)
<1>1. \E new : Outcome(new) /\ ReadOn(r, new)
  <2>1. CASE StartRead(r)
    BY <2>1, ReadBegins DEF StartRead
  <2>2. CASE StartList(r)
    BY <2>2, ReadBegins DEF StartList
  <2>3. CASE \/ GetDocument(r) \/ CheckLive(r) \/ ReadRows(r) \/ AnswerToc(r)
             \/ HitCache(r) \/ MissCache(r) \/ FillCache(r) \/ AskModel(r)
    <3>1. IsRoute(reader[r])
      BY <2>3, Kinds
         DEF GetDocument, CheckLive, ReadRows, AnswerToc, HitCache, MissCache,
             FillCache, AskModel, IsRead, ReadShape
    <3> QED
      BY <2>3, <3>1, RouteSteps DEF EndRead
  <2>4. CASE CountDocuments(r) \/ SelectPage(r)
    <3>1. IsList(reader[r])
      BY <2>4, Kinds DEF CountDocuments, SelectPage, IsRead, ReadShape
    <3>2. Listed(reader[r].by) \subseteq DocIds
      BY DEF Listed
    <3> QED
      <4>1. CASE CountDocuments(r)
        <5>1. PICK n : ReadOn(r, [reader[r] EXCEPT !.at = "page", !.count = n])
          BY <4>1 DEF CountDocuments
        <5>2. ListGoesOn(reader[r], [reader[r] EXCEPT !.at = "page", !.count = n])
          BY <3>1, ListChange
        <5> QED
          BY <5>1, <5>2
      <4>2. CASE SelectPage(r)
        BY <3>1, <3>2, <4>2, ListChange DEF SelectPage
      <4> QED
        BY <2>4, <4>1, <4>2
  <2>5. CASE Answer(r) \/ SelectFails(r)
    BY <2>5 DEF Answer, SelectFails, EndRead
  <2> QED
    BY <2>1, <2>2, <2>3, <2>4, <2>5 DEF ReadStep
<1> QED
  BY <1>1 DEF ReadOn, ReadShape

-----------------------------------------------------------------------------
(* What a step of a writer may do to what readers see.                      *)

LEMMA ErasedStays ==
  ASSUME TypeOK, [Next]_vars
  PROVE  /\ Erased \subseteq Erased'
         /\ \A d \in Erased : d \in sections' <=> d \in sections
BY ErasureStep DEF Erased, Tombstoned, Exists

(* A document that goes out of sight does so without a change of sections.  *)
LEMMA VisibleStays ==
  ASSUME TypeOK, [Next]_vars, NEW d \in DocIds, NEW t, Visible(d, t)
  PROVE  Visible(d, t)' \/ (Tombstoned(d)' /\ sections' = sections)
<1>1. CASE UNCHANGED vars
  BY <1>1 DEF vars, Visible, Live, Exists, Owner
<1>2. CASE Next
  <2>1. PICK w \in Workers :
           \/ UNCHANGED store
           \/ /\ job[w] \in IngestJob
              /\ ~Tombstoned(job[w].doc)
              /\ CommitDocument(job[w])
           \/ /\ job[w] \in DeleteJob
              /\ MayErase(job[w])
              /\ CommitTombstone(job[w])
           \/ \E x \in PointStates : SetPoints(job[w].doc, x)
    BY <1>2, StoreSteps
  <2>2. CASE \/ UNCHANGED store
             \/ \E x \in PointStates : SetPoints(job[w].doc, x)
    BY <2>2 DEF store, SetPoints, Visible, Live, Exists, Owner
  <2>3. CASE /\ job[w] \in IngestJob
             /\ ~Tombstoned(job[w].doc)
             /\ CommitDocument(job[w])
    BY <2>3, CommitSparesTombstones, CommitEffect
       DEF Visible, Live, Tombstoned, Owner
  <2>4. CASE /\ job[w] \in DeleteJob
             /\ MayErase(job[w])
             /\ CommitTombstone(job[w])
    BY <2>4, TombstoneEffect
       DEF Visible, Live, Tombstoned, Owner, CommitTombstone
  <2> QED
    BY <2>1, <2>2, <2>3, <2>4
<1> QED
  BY <1>1, <1>2

-----------------------------------------------------------------------------
(* Erased documents are hidden.  A read that is about to select sections    *)
(* found its document live after the read began.                            *)

HiddenFrom(q) ==
  /\ q # Idle => q.before \subseteq Erased
  /\ IsRoute(q) /\ q.doc \in q.before =>
       q.record # "found" /\ q.toc = "empty" /\ q.at # "rows"
  /\ IsList(q) => q.page \cap q.before = {}

HiddenInv == ReadShape /\ \A r \in Readers : HiddenFrom(reader[r])

LEMMA HiddenIs == HiddenInv => HiddenOnceErased
<1> SUFFICES ASSUME HiddenInv, NEW r \in Readers
             PROVE  /\ IsRead(r, {"route", "toc"}) /\ reader[r].doc \in reader[r].before =>
                         reader[r].record # "found" /\ reader[r].toc = "empty"
                    /\ IsRead(r, {"list"}) => reader[r].page \cap reader[r].before = {}
  BY DEF HiddenOnceErased
<1> QED
  BY Kinds DEF HiddenInv, HiddenFrom, ReadShape, IsRead

LEMMA IdleIsNoRead == ~IsRoute(Idle) /\ ~IsList(Idle)
BY Kinds

(* Writers and other readers only make more documents erased.               *)
LEMMA HiddenStays ==
  ASSUME TypeOK, [Next]_vars, NEW q, HiddenFrom(q)
  PROVE  HiddenFrom(q)'
BY ErasedStays DEF HiddenFrom, IsRoute, IsList, RouteReadWith, ListReadWith

LEMMA ShapeStep ==
  ASSUME ReadShape, [ReadersNext]_allVars
  PROVE  ReadShape'
<1>1. CASE UNCHANGED allVars
  BY <1>1
     DEF allVars, readVars, ReadShape, IsRoute, IsList, RouteReadWith, ListReadWith
<1>2. ASSUME NEW r \in Readers, ReadStep(r)
      PROVE  ReadShape'
  <2>1. /\ reader' = [s \in Readers |-> reader'[s]]
        /\ \A s \in Readers \ {r} : reader'[s] = reader[s]
        /\ reader'[r] = Idle \/ IsRoute(reader'[r]) \/ IsList(reader'[r])
    BY <1>2, ReadEffect DEF RouteBegins, ListBegins, RouteGoesOn, ListGoesOn
  <2> QED
    BY <2>1 DEF ReadShape, IsRoute, IsList, RouteReadWith, ListReadWith
<1>3. ASSUME NEW w \in Workers,
             AnswerAndInvalidate(w) \/ CrashProcess(w) \/ WriteStep(w)
      PROVE  ReadShape'
  <2>1. /\ reader' = [s \in Readers |-> reader'[s]]
        /\ \A s \in Readers : reader'[s] = Idle \/ reader'[s] = reader[s]
    BY <1>3 DEF AnswerAndInvalidate, CrashProcess, WriteStep, ReadShape
  <2> QED
    BY <2>1 DEF ReadShape, IsRoute, IsList, RouteReadWith, ListReadWith
<1> QED
  BY <1>1, <1>2, <1>3 DEF ReadersNext

(* How one read may change in a step of the whole.                          *)
LEMMA ReaderChange ==
  ASSUME ReadShape, [ReadersNext]_allVars, NEW r \in Readers
  PROVE  \/ reader'[r] = Idle
         \/ reader'[r] = reader[r]
         \/ /\ UNCHANGED vars
            /\ \/ reader[r] = Idle /\ RouteBegins(reader'[r])
               \/ reader[r] = Idle /\ ListBegins(reader'[r])
               \/ RouteGoesOn(reader[r], reader'[r])
               \/ ListGoesOn(reader[r], reader'[r])
<1>1. CASE UNCHANGED allVars
  BY <1>1 DEF allVars, readVars
<1>2. ASSUME NEW s \in Readers, ReadStep(s)
      PROVE  \/ reader'[r] = reader[r]
             \/ s = r
  BY <1>2, ReadEffect
<1>3. ASSUME NEW w \in Workers,
             AnswerAndInvalidate(w) \/ CrashProcess(w) \/ WriteStep(w)
      PROVE  reader'[r] = Idle \/ reader'[r] = reader[r]
  BY <1>3 DEF AnswerAndInvalidate, CrashProcess, WriteStep
<1> QED
  BY <1>1, <1>2, <1>3, ReadEffect, ReadsOnlyLook DEF ReadersNext

LEMMA HiddenStep ==
  TypeOK /\ HiddenInv /\ [ReadersNext]_allVars => HiddenInv'
<1> SUFFICES ASSUME TypeOK, HiddenInv, [ReadersNext]_allVars, NEW r \in Readers
             PROVE  HiddenFrom(reader[r])'
  BY ShapeStep DEF HiddenInv
<1> DEFINE q == reader[r]
           new == reader'[r]
<1>1. ReadShape /\ HiddenFrom(q) /\ [Next]_vars
  BY ReadersStep DEF HiddenInv
<1>2. CASE new = Idle
  BY <1>2, IdleIsNoRead
     DEF HiddenFrom, IsRoute, IsList, RouteReadWith, ListReadWith
<1>3. CASE new = q
  BY <1>1, <1>3, ErasedStays
     DEF HiddenFrom, IsRoute, IsList, RouteReadWith, ListReadWith
<1>4. ASSUME UNCHANGED vars, HiddenFrom(new)
      PROVE  HiddenFrom(reader[r])'
  <2>1. Erased' = Erased
    BY <1>4 DEF vars, Erased, Tombstoned, Exists
  <2> QED
    BY <1>4, <2>1 DEF HiddenFrom, IsRoute, IsList, RouteReadWith, ListReadWith
<1>5. CASE RouteBegins(new)
  <2>1. HiddenFrom(new)
    BY <1>5, Kinds DEF RouteBegins, HiddenFrom
  <2> QED
    BY <1>1, <1>4, <1>5, <2>1, Kinds, ReaderChange, <1>2, <1>3
<1>6. CASE ListBegins(new)
  <2>1. HiddenFrom(new)
    BY <1>6, Kinds DEF ListBegins, HiddenFrom
  <2> QED
    BY <1>1, <1>4, <1>6, <2>1, Kinds, ReaderChange, <1>2, <1>3
<1>7. CASE RouteGoesOn(q, new)
  <2>1. q.doc \in q.before => ~Visible(q.doc, q.by)
    BY <1>1, <1>7, Kinds
       DEF RouteGoesOn, HiddenFrom, Erased, Tombstoned, Visible, Live
  <2>2. new.toc \in Tocs
    BY <1>7 DEF RouteGoesOn, IsRoute, RouteReadWith
  <2>3. HiddenFrom(new)
    BY <1>1, <1>7, <2>1, <2>2, Kinds
       DEF RouteGoesOn, SameRequest, HiddenFrom, Tocs
  <2> QED
    BY <1>1, <1>4, <1>7, <2>3, ReaderChange, <1>2, <1>3
<1>8. CASE ListGoesOn(q, new)
  <2>1. Listed(q.by) \cap Erased = {}
    BY DEF Listed, Erased, Visible, Live, Tombstoned
  <2>2. HiddenFrom(new)
    BY <1>1, <1>8, <2>1, Kinds DEF ListGoesOn, HiddenFrom
  <2> QED
    BY <1>1, <1>4, <1>8, <2>2, ReaderChange, <1>2, <1>3
<1> QED
  BY <1>1, <1>2, <1>3, <1>5, <1>6, <1>7, <1>8, ReaderChange

LEMMA InitHidden == ReadersInit => HiddenInv
BY IdleIsNoRead DEF ReadersInit, HiddenInv, ReadShape, HiddenFrom

(* No request that began after an erasure committed is told anything of the *)
(* document, whatever writers and other readers do.                         *)
THEOREM ErasedIsHidden == ReadersSpec => []HiddenOnceErased
<1>1. ReadersInit => TypeOK /\ HiddenInv
  BY InitTypeOK, InitHidden DEF ReadersInit
<1>2. TypeOK /\ HiddenInv /\ [ReadersNext]_allVars => TypeOK' /\ HiddenInv'
  BY NextTypeOK, ReadersStep, HiddenStep
<1> QED
  BY <1>1, <1>2, HiddenIs, PTL DEF ReadersSpec

-----------------------------------------------------------------------------
(* What is shown was readable.  A read that found its document live and     *)
(* still selects its sections finds either a document that is live, or one  *)
(* that was erased meanwhile with the sections it had.                      *)

SawReadable(r) ==
  /\ Readable(r) => r \in witnessed
  /\ IsRoute(reader[r]) =>
       /\ reader[r].toc = "full" \/ reader[r].routed => r \in witnessed
       /\ reader[r].at = "rows" =>
            \/ Visible(reader[r].doc, reader[r].by)
            \/ /\ Tombstoned(reader[r].doc)
               /\ reader[r].doc \in sections => r \in witnessed

ReadableInv == ReadShape /\ \A r \in Readers : SawReadable(r)

LEMMA ReadableIs == ReadableInv => AnswersWereReadable
<1> SUFFICES ASSUME ReadableInv, NEW r \in Readers, IsRead(r, {"route", "toc"}),
                    reader[r].toc = "full" \/ reader[r].routed
             PROVE  r \in witnessed
  BY DEF AnswersWereReadable
<1>1. IsRoute(reader[r])
  BY Kinds DEF ReadableInv, ReadShape, IsRead
<1> QED
  BY <1>1 DEF ReadableInv, SawReadable

LEMMA RouteIsReadable ==
  ASSUME NEW r \in Readers, IsRoute(reader[r])
  PROVE  /\ reader[r] # Idle /\ reader[r].doc \in DocIds
         /\ Readable(r) <=> /\ Visible(reader[r].doc, reader[r].by)
                            /\ reader[r].doc \in sections
<1>1. reader[r].doc \in DocIds
  BY DEF IsRoute, RouteReadWith
<1> QED
  BY <1>1, Kinds DEF Readable, IsRead, Visible

(* Rows a read is about to select stay what they are, or go out of sight    *)
(* unchanged.                                                               *)
LEMMA RowsStay ==
  ASSUME TypeOK, [Next]_vars, NEW d \in DocIds, NEW t
  PROVE  /\ Tombstoned(d) => /\ Tombstoned(d)'
                             /\ d \in sections' <=> d \in sections
         /\ Visible(d, t) => \/ Visible(d, t)'
                             \/ Tombstoned(d)' /\ sections' = sections
<1>1. ASSUME Tombstoned(d)
      PROVE  Tombstoned(d)' /\ (d \in sections' <=> d \in sections)
  BY <1>1, ErasureStep DEF Tombstoned, Exists
<1> QED
  BY <1>1, VisibleStays

(* The step from what a read was, q, to what it is, n.                      *)
LEMMA SawReadableStep ==
  ASSUME TypeOK, [Next]_vars, NEW q, NEW n, IsRoute(n),
         NEW saw \in BOOLEAN, NEW sees \in BOOLEAN,
         saw => sees,
         Visible(n.doc, n.by)' /\ n.doc \in sections' => sees,
         \/ n = q
         \/ RouteBegins(n)
         \/ UNCHANGED vars /\ RouteGoesOn(q, n),
         IsRoute(q) =>
           /\ q.toc = "full" \/ q.routed => saw
           /\ Visible(q.doc, q.by) /\ q.doc \in sections => saw
           /\ q.at = "rows" => \/ Visible(q.doc, q.by)
                               \/ /\ Tombstoned(q.doc)
                                  /\ q.doc \in sections => saw
  PROVE  /\ n.toc = "full" \/ n.routed => sees
         /\ n.at = "rows" => \/ Visible(n.doc, n.by)'
                             \/ /\ Tombstoned(n.doc)'
                                /\ n.doc \in sections' => sees
<1>1. n.doc \in DocIds
  BY DEF IsRoute, RouteReadWith
<1>2. CASE n = q
  BY <1>1, <1>2, RowsStay
<1>3. CASE RouteBegins(n)
  BY <1>3 DEF RouteBegins
<1>4. CASE UNCHANGED vars /\ RouteGoesOn(q, n)
  <2>1. /\ sections' = sections
        /\ Visible(n.doc, n.by)' <=> Visible(n.doc, n.by)
        /\ Tombstoned(n.doc)' <=> Tombstoned(n.doc)
    BY <1>4 DEF vars, Visible, Live, Tombstoned, Exists, Owner
  <2> QED
    BY <1>4, <2>1 DEF RouteGoesOn, SameRequest
<1> QED
  BY <1>2, <1>3, <1>4

LEMMA ReadableStep ==
  TypeOK /\ ReadableInv /\ [ReadersNext]_allVars => ReadableInv'
<1> SUFFICES ASSUME TypeOK, ReadableInv, [ReadersNext]_allVars, NEW r \in Readers
             PROVE  SawReadable(r)'
  BY ShapeStep DEF ReadableInv
<1>1. ReadShape /\ SawReadable(r) /\ [Next]_vars
  BY ReadersStep DEF ReadableInv
<1>2. CASE UNCHANGED allVars
  BY <1>1, <1>2
     DEF allVars, readVars, vars, SawReadable, Readable, IsRead, Visible, Live,
         Tombstoned, Exists, Owner, IsRoute, RouteReadWith
<1>3. CASE ReadersNext
  <2> SUFFICES ASSUME NEW q, NEW n, q = reader[r], n = reader'[r]
               PROVE  SawReadable(r)'
    OBVIOUS
  <2>1. /\ n = Idle => r \notin witnessed'
        /\ n # Idle => (r \in witnessed' <=> r \in witnessed \/ Readable(r)')
    BY <1>3 DEF ReadersNext, Witness
  <2>2. /\ Readable(r)' => n # Idle
        /\ IsRoute(reader[r])' <=> IsRoute(n)
    BY DEF Readable, IsRead, IsRoute, RouteReadWith
  <2>3. ASSUME IsRoute(n)
        PROVE  /\ n.toc = "full" \/ n.routed => r \in witnessed'
               /\ n.at = "rows" => \/ Visible(n.doc, n.by)'
                                   \/ /\ Tombstoned(n.doc)'
                                      /\ n.doc \in sections' => r \in witnessed'
    <3>1. n # Idle /\ n.kind \in {"route", "toc"}
      BY <2>3, Kinds
    <3>2. Visible(n.doc, n.by)' /\ n.doc \in sections' => Readable(r)'
      BY <3>1 DEF Readable, IsRead, Visible
    <3>3. \/ n = q
          \/ RouteBegins(n)
          \/ UNCHANGED vars /\ RouteGoesOn(q, n)
      BY <1>1, <2>3, <3>1, Kinds, ReaderChange DEF ListBegins, ListGoesOn
    <3>4. IsRoute(q) =>
            /\ q.toc = "full" \/ q.routed => r \in witnessed
            /\ Visible(q.doc, q.by) /\ q.doc \in sections => r \in witnessed
            /\ q.at = "rows" => \/ Visible(q.doc, q.by)
                                \/ /\ Tombstoned(q.doc)
                                   /\ q.doc \in sections => r \in witnessed
      BY <1>1, RouteIsReadable DEF SawReadable
    <3>5. r \in witnessed => r \in witnessed'
      BY <2>1, <3>1
    <3>6. Visible(n.doc, n.by)' /\ n.doc \in sections' => r \in witnessed'
      BY <2>1, <3>1, <3>2
    <3> DEFINE saw == r \in witnessed
               sees == r \in witnessed'
    <3>7. saw \in BOOLEAN /\ sees \in BOOLEAN
      OBVIOUS
    <3>8. /\ saw => sees
          /\ Visible(n.doc, n.by)' /\ n.doc \in sections' => sees
      BY <3>5, <3>6
    <3>9. IsRoute(q) =>
            /\ q.toc = "full" \/ q.routed => saw
            /\ Visible(q.doc, q.by) /\ q.doc \in sections => saw
            /\ q.at = "rows" => \/ Visible(q.doc, q.by)
                                \/ /\ Tombstoned(q.doc)
                                   /\ q.doc \in sections => saw
      BY <3>4
    <3>10. /\ n.toc = "full" \/ n.routed => sees
           /\ n.at = "rows" => \/ Visible(n.doc, n.by)'
                               \/ /\ Tombstoned(n.doc)'
                                  /\ n.doc \in sections' => sees
      <4> HIDE DEF saw, sees
      <4> QED
        BY <1>1, <2>3, <3>3, <3>7, <3>8, <3>9, SawReadableStep
    <3> QED
      BY <3>10
  <2> QED
    BY <2>1, <2>2, <2>3 DEF SawReadable
<1> QED
  BY <1>2, <1>3

LEMMA InitReadable == ReadersInit => ReadableInv
<1> SUFFICES ASSUME ReadersInit, NEW r \in Readers
             PROVE  ReadShape /\ SawReadable(r)
  BY DEF ReadableInv, ReadersInit, ReadShape
<1>1. reader[r] = Idle
  BY DEF ReadersInit
<1>2. ReadShape
  BY DEF ReadersInit, ReadShape
<1> QED
  BY <1>1, <1>2, IdleIsNoRead DEF SawReadable, Readable, IsRead

(* Sections are shown or routed to only if, at one moment of the request,   *)
(* its document was live, the caller's own and had them.                    *)
THEOREM AnswersReadable == ReadersSpec => []AnswersWereReadable
<1>1. ReadersInit => TypeOK /\ ReadableInv
  BY InitTypeOK, InitReadable DEF ReadersInit
<1>2. TypeOK /\ ReadableInv /\ [ReadersNext]_allVars => TypeOK' /\ ReadableInv'
  BY NextTypeOK, ReadersStep, ReadableStep
<1> QED
  BY <1>1, <1>2, ReadableIs, PTL DEF ReadersSpec

-----------------------------------------------------------------------------
(* The caches.  A document's entry is looked up by its key, and added when  *)
(* there is none; a cache that is full then loses its oldest.               *)

CacheEntries == DocIds \X Tocs

Keyed(c) ==
  /\ c \in Seq(CacheEntries)
  /\ \A i, j \in 1..Len(c) : c[i][1] = c[j][1] => i = j

LEMMA EntryIs ==
  ASSUME NEW c, Keyed(c), NEW d, Entries(c, d) # {}
  PROVE  /\ EntryOf(c, d) \in CacheEntries
         /\ EntryOf(c, d)[1] = d
         /\ EntryOf(c, d)[2] \in Tocs
<1> DEFINE i == CHOOSE i \in Entries(c, d) : TRUE
<1>1. i \in Entries(c, d)
  OBVIOUS
<1>2. i \in 1..Len(c) /\ c[i][1] = d /\ c[i] \in CacheEntries
  BY <1>1 DEF Entries, Keyed
<1>3. EntryOf(c, d) = c[i]
  BY DEF EntryOf
<1> HIDE DEF i
<1> QED
  BY <1>2, <1>3 DEF CacheEntries

LEMMA OthersAre ==
  ASSUME NEW c, Keyed(c), NEW d
  PROVE  /\ Keyed(Others(c, d))
         /\ Entries(Others(c, d), d) = {}
         /\ Len(Others(c, d)) = IF Entries(c, d) = {} THEN Len(c) ELSE Len(c) - 1
<1>1. CASE Entries(c, d) = {}
  BY <1>1 DEF Others
<1>2. CASE Entries(c, d) # {}
  <2> DEFINE i == CHOOSE i \in Entries(c, d) : TRUE
             o == RemoveAt(c, i)
  <2>1. i \in Entries(c, d)
    BY <1>2
  <2>2. Others(c, d) = o
    BY <1>2 DEF Others
  <2>3. i \in 1..Len(c) /\ c[i][1] = d /\ c \in Seq(CacheEntries)
    BY <2>1 DEF Entries, Keyed
  <2> HIDE DEF i
  <2>4. /\ o \in Seq(CacheEntries)
        /\ Len(o) = Len(c) - 1
        /\ \A k \in 1..(Len(c) - 1) : o[k] = IF k < i THEN c[k] ELSE c[k + 1]
    BY <2>3, RemoveAtIs
  <2> HIDE DEF o
  <2> DEFINE Was(k) == IF k < i THEN k ELSE k + 1
  <2>5. Len(c) \in Nat
    BY <2>3
  <2>6. \A k \in 1..Len(o) : Was(k) \in 1..Len(c) /\ Was(k) # i /\ o[k] = c[Was(k)]
    BY <2>3, <2>4, <2>5
  <2>7. \A j, k \in 1..Len(o) : Was(j) = Was(k) => j = k
    BY <2>3, <2>4, <2>5
  <2>8. \A j, k \in 1..Len(c) : c[j][1] = c[k][1] => j = k
    BY DEF Keyed
  <2>9. Keyed(o)
    <3> HIDE DEF Was
    <3> QED
      BY <2>4, <2>6, <2>7, <2>8 DEF Keyed
  <2>10. \A k \in 1..Len(o) : o[k][1] # d
    <3> HIDE DEF Was
    <3> QED
      BY <2>3, <2>6, <2>8
  <2>11. DOMAIN o = 1..Len(o)
    BY <2>4
  <2>12. Entries(o, d) = {}
    BY <2>10, <2>11 DEF Entries
  <2> QED
    BY <1>2, <2>2, <2>4, <2>9, <2>12
<1> QED
  BY <1>1, <1>2

LEMMA AddedIs ==
  ASSUME NEW c, Keyed(c), NEW e \in CacheEntries, Entries(c, e[1]) = {}
  PROVE  /\ Keyed(Append(c, e))
         /\ Len(Append(c, e)) = Len(c) + 1
<1> DEFINE a == Append(c, e)
<1>1. c \in Seq(CacheEntries) /\ Len(c) \in Nat
      /\ \A i, j \in 1..Len(c) : c[i][1] = c[j][1] => i = j
  BY DEF Keyed
<1>2. /\ a \in Seq(CacheEntries) /\ Len(a) = Len(c) + 1
      /\ \A i \in 1..Len(c) : a[i] = c[i]
      /\ a[Len(c) + 1] = e
  BY <1>1, AppendProperties
<1>3. \A i \in 1..Len(c) : c[i][1] # e[1]
  BY <1>1 DEF Entries
<1> HIDE DEF a
<1>4. \A i \in 1..Len(a) : i \in 1..Len(c) \/ i = Len(c) + 1
  BY <1>1, <1>2
<1>5. ASSUME NEW i \in 1..Len(a), NEW j \in 1..Len(a), a[i][1] = a[j][1]
      PROVE  i = j
  BY <1>1, <1>2, <1>3, <1>4, <1>5
<1>6. Keyed(a)
  BY <1>2, <1>5 DEF Keyed
<1> QED
  BY <1>2, <1>6 DEF a

LEMMA NewestIs ==
  ASSUME NEW c, Keyed(c), Len(c) <= CacheSize + 1
  PROVE  Keyed(Newest(c)) /\ Len(Newest(c)) <= CacheSize
<1>1. /\ c \in Seq(CacheEntries) /\ Len(c) \in Nat /\ CacheSize \in Nat \ {0}
      /\ \A i, j \in 1..Len(c) : c[i][1] = c[j][1] => i = j
  BY ReadersAssumption DEF Keyed
<1>2. CASE Len(c) <= CacheSize
  BY <1>1, <1>2 DEF Newest
<1>3. CASE Len(c) > CacheSize
  <2>1. c # <<>>
    BY <1>1, <1>3
  <2>2. /\ Tail(c) \in Seq(CacheEntries) /\ Len(Tail(c)) = Len(c) - 1
        /\ \A i \in 1..Len(Tail(c)) : Tail(c)[i] = c[i + 1]
    BY <1>1, <2>1, HeadTailProperties
  <2>3. \A i \in 1..Len(Tail(c)) : i + 1 \in 1..Len(c)
    BY <1>1, <2>2
  <2>4. ASSUME NEW i \in 1..Len(Tail(c)), NEW j \in 1..Len(Tail(c)),
               Tail(c)[i][1] = Tail(c)[j][1]
        PROVE  i = j
    <3>1. i + 1 = j + 1
      BY <1>1, <2>2, <2>3, <2>4
    <3>2. i \in Int /\ j \in Int
      BY <1>1, <2>2
    <3> QED
      BY <3>1, <3>2
  <2>5. Keyed(Tail(c))
    BY <2>2, <2>4 DEF Keyed
  <2> QED
    BY <1>1, <1>3, <2>2, <2>5 DEF Newest
<1> QED
  BY <1>1, <1>2, <1>3

KeptCache(c) == Keyed(c) /\ Len(c) <= CacheSize

LEMMA EmptyIsKept == KeptCache(<<>>)
BY ReadersAssumption DEF KeptCache, Keyed

LEMMA HitIsKept ==
  ASSUME NEW c, KeptCache(c), NEW d, Entries(c, d) # {}
  PROVE  KeptCache(Append(Others(c, d), EntryOf(c, d)))
<1>1. /\ Keyed(Others(c, d)) /\ Entries(Others(c, d), d) = {}
      /\ Len(Others(c, d)) = Len(c) - 1
  BY OthersAre DEF KeptCache
<1>2. EntryOf(c, d) \in CacheEntries /\ EntryOf(c, d)[1] = d
  BY EntryIs DEF KeptCache
<1>3. /\ Keyed(Append(Others(c, d), EntryOf(c, d)))
      /\ Len(Append(Others(c, d), EntryOf(c, d))) = Len(Others(c, d)) + 1
  BY <1>1, <1>2, AddedIs
<1>4. Len(c) \in Nat /\ Len(c) <= CacheSize
  BY DEF KeptCache, Keyed
<1> QED
  BY <1>1, <1>3, <1>4 DEF KeptCache

LEMMA FillIsKept ==
  ASSUME NEW c, KeptCache(c), NEW e \in CacheEntries
  PROVE  KeptCache(Newest(Append(Others(c, e[1]), e)))
<1> DEFINE o == Others(c, e[1])
<1>1. /\ Keyed(o) /\ Entries(o, e[1]) = {}
      /\ Len(o) = IF Entries(c, e[1]) = {} THEN Len(c) ELSE Len(c) - 1
  BY OthersAre DEF KeptCache
<1>2. Len(c) \in Nat /\ Len(c) <= CacheSize /\ CacheSize \in Nat
  BY ReadersAssumption DEF KeptCache, Keyed
<1> HIDE DEF o
<1>3. Keyed(Append(o, e)) /\ Len(Append(o, e)) = Len(o) + 1
  BY <1>1, AddedIs
<1>4. Len(Append(o, e)) <= CacheSize + 1
  BY <1>1, <1>2, <1>3
<1> QED
  BY <1>3, <1>4, NewestIs DEF KeptCache, o

LEMMA OthersAreKept ==
  ASSUME NEW c, KeptCache(c), NEW d
  PROVE  KeptCache(Others(c, d))
<1>1. Len(c) \in Nat /\ Len(c) <= CacheSize /\ CacheSize \in Nat
  BY ReadersAssumption DEF KeptCache, Keyed
<1> QED
  BY <1>1, OthersAre DEF KeptCache

CachesKept ==
  /\ cache = [p \in Processes |-> cache[p]]
  /\ \A p \in Processes : KeptCache(cache[p])

(* A prompt is one of the projections, a total a number.                    *)
Projected(q) ==
  /\ IsRoute(q) => q.prompt \in Tocs
  /\ IsList(q) => q.count \in Nat

TypesInv ==
  /\ ReadShape
  /\ \A r \in Readers : Projected(reader[r])
  /\ CachesKept
  /\ witnessed \subseteq Readers

LEMMA ProcessIs == \A x \in Workers \cup Readers : ProcessOf[x] \in Processes
BY ReadersAssumption

LEMMA TypesAre == TypesInv => ReadersTypeOK
<1> SUFFICES ASSUME TypesInv PROVE ReadersTypeOK
  OBVIOUS
<1>1. ASSUME NEW r \in Readers
      PROVE  reader[r] \in {Idle} \cup RouteRead \cup ListRead
  <2>1. CASE IsRoute(reader[r])
    <3>1. PICK p : reader[r] \in RouteReadWith(p)
      BY <2>1 DEF IsRoute
    <3>2. p \in Tocs
      BY <2>1, <3>1 DEF TypesInv, Projected, RouteReadWith
    <3>3. RouteReadWith(p) \subseteq RouteRead
      BY <3>2 DEF RouteReadWith, RouteRead
    <3> QED
      BY <3>1, <3>3
  <2>2. CASE IsList(reader[r])
    <3>1. PICK p : reader[r] \in ListReadWith(p)
      BY <2>2 DEF IsList
    <3>2. p \in Nat
      BY <2>2, <3>1 DEF TypesInv, Projected, ListReadWith
    <3>3. ListReadWith(p) \subseteq ListRead
      BY <3>2 DEF ListReadWith, ListRead
    <3> QED
      BY <3>1, <3>3
  <2> QED
    BY <2>1, <2>2 DEF TypesInv, ReadShape
<1>2. reader \in [Readers -> {Idle} \cup RouteRead \cup ListRead]
  BY <1>1 DEF TypesInv, ReadShape
<1>3. cache \in [Processes -> Seq(DocIds \X Tocs)]
  BY DEF TypesInv, CachesKept, KeptCache, Keyed, CacheEntries
<1>4. ASSUME NEW p \in Processes, NEW d \in DocIds
      PROVE  Cardinality(Entries(cache[p], d)) <= 1
  <2> DEFINE c == cache[p]
             E == Entries(c, d)
  <2>1. Keyed(c)
    BY DEF TypesInv, CachesKept, KeptCache
  <2>2. \A i, j \in E : i = j
    BY <2>1 DEF Entries, Keyed
  <2> HIDE DEF E
  <2>3. E = {} \/ \E i : E = {i}
    BY <2>2
  <2>4. Cardinality(E) = 0 \/ Cardinality(E) = 1
    BY <2>3, FS_EmptySet, FS_Singleton
  <2> QED
    BY <2>4 DEF E
<1>5. \A p \in Processes : Len(cache[p]) <= CacheSize
  BY DEF TypesInv, CachesKept, KeptCache
<1> QED
  BY <1>2, <1>3, <1>4, <1>5 DEF TypesInv, ReadersTypeOK

(* What a step of a reader does to what it projected, and to its cache.     *)
LEMMA ProjectedRoute ==
  ASSUME NEW q, IsRoute(q), Projected(q)
  PROVE  /\ \A x : Projected([q EXCEPT !.record = x])
         /\ \A x : Projected([q EXCEPT !.at = x])
         /\ \A x, y : Projected([q EXCEPT !.at = x, !.toc = y])
         /\ \A x, y : Projected([q EXCEPT !.at = x, !.routed = y])
         /\ \A x, y \in Tocs : Projected([q EXCEPT !.at = "model", !.prompt = y])
<1> PICK p : q \in RouteReadWith(p)
  BY DEF IsRoute
<1>1. q.prompt = p /\ p \in Tocs /\ q.kind \in {"route", "toc"}
  BY DEF RouteReadWith, Projected
<1>2. ASSUME NEW n, n.prompt \in Tocs, n.kind = q.kind
      PROVE  Projected(n)
  BY <1>1, <1>2, Kinds DEF Projected
<1>3. /\ \A x : LET n == [q EXCEPT !.record = x]
                IN n.prompt = p /\ n.kind = q.kind
      /\ \A x : LET n == [q EXCEPT !.at = x]
                IN n.prompt = p /\ n.kind = q.kind
      /\ \A x, y : LET n == [q EXCEPT !.at = x, !.toc = y]
                   IN n.prompt = p /\ n.kind = q.kind
      /\ \A x, y : LET n == [q EXCEPT !.at = x, !.routed = y]
                   IN n.prompt = p /\ n.kind = q.kind
      /\ \A y : LET n == [q EXCEPT !.at = "model", !.prompt = y]
                IN n.prompt = y /\ n.kind = q.kind
  BY Zenon DEF RouteReadWith
<1> QED
  BY <1>1, <1>2, <1>3

LEMMA ProjectedList ==
  ASSUME NEW q, IsList(q), Projected(q)
  PROVE  /\ \A n \in Nat : Projected([q EXCEPT !.at = "page", !.count = n])
         /\ \A x, y : Projected([q EXCEPT !.at = x, !.page = y])
<1> PICK p : q \in ListReadWith(p)
  BY DEF IsList
<1>1. q.count = p /\ p \in Nat /\ q.kind = "list"
  BY DEF ListReadWith, Projected
<1>2. ASSUME NEW n, n.count \in Nat, n.kind = "list"
      PROVE  Projected(n)
  BY <1>2, Kinds DEF Projected
<1>3. /\ \A m : LET n == [q EXCEPT !.at = "page", !.count = m]
                IN n.count = m /\ n.kind = q.kind
      /\ \A x, y : LET n == [q EXCEPT !.at = x, !.page = y]
                   IN n.count = p /\ n.kind = q.kind
  BY Zenon DEF ListReadWith
<1> QED
  BY <1>1, <1>2, <1>3

LEMMA CountIsNumber == \A t : Cardinality(Listed(t)) \in Nat
<1>1. \A t : Listed(t) \subseteq DocIds
  BY DEF Listed
<1> QED
  BY <1>1, ReadersAssumption, FS_Subset, FS_CardinalityType

LEMMA ReadTypes ==
  ASSUME TypesInv, NEW r \in Readers, ReadStep(r)
  PROVE  /\ Projected(reader'[r])
         /\ \A s \in Readers \ {r} : reader'[s] = reader[s]
         /\ \/ cache' = cache
            \/ \E c : KeptCache(c) /\ cache' = [cache EXCEPT ![ProcessOf[r]] = c]
<1> DEFINE q == reader[r]
           c == cache[ProcessOf[r]]
           Outcome(new) == ReadOn(r, new) /\ Projected(new)
<1>1. /\ Projected(q) /\ KeptCache(c) /\ Keyed(c)
      /\ q = Idle \/ IsRoute(q) \/ IsList(q)
      /\ reader = [s \in Readers |-> reader[s]]
  BY ProcessIs DEF TypesInv, CachesKept, KeptCache, ReadShape
<1>2. Projected(Idle)
  BY IdleIsNoRead DEF Projected
<1>3. IsRead(r, {"route", "toc"}) \/ IsRead(r, {"route"}) \/ IsRead(r, {"toc"}) => IsRoute(q)
  BY <1>1, Kinds DEF IsRead
<1>4. IsRead(r, {"list"}) => IsList(q)
  BY <1>1, Kinds DEF IsRead
<1>5. IsRoute(q) => q.doc \in DocIds /\ q.toc \in Tocs
  BY DEF IsRoute, RouteReadWith
<1> HIDE DEF q
<1>6. (\E new : Outcome(new)) /\ (\/ cache' = cache
                                  \/ \E k : /\ KeptCache(k)
                                            /\ cache' = [cache EXCEPT ![ProcessOf[r]] = k])
  <2>1. CASE StartRead(r) \/ StartList(r)
    <3>1. \E new : ReadOn(r, new) /\ (RouteBegins(new) \/ ListBegins(new))
                   /\ (IsRoute(new) => new.prompt = "empty")
                   /\ (IsList(new) => new.count = 0)
      <4>1. CASE StartRead(r)
        <5>1. PICK k \in {"route", "toc"}, d \in DocIds, t \in Callers :
             ReadOn(r, [kind |-> k, doc |-> d, by |-> t, record |-> "unread",
                  at |-> "live", toc |-> "empty", prompt |-> "empty",
                  routed |-> FALSE, before |-> Erased \cap {d}])
          BY <4>1 DEF StartRead
        <5> DEFINE new == [kind |-> k, doc |-> d, by |-> t, record |-> "unread",
                  at |-> "live", toc |-> "empty", prompt |-> "empty",
                  routed |-> FALSE, before |-> Erased \cap {d}]
        <5>2. RouteBegins(new) /\ new.prompt = "empty"
          BY ReadBegins
        <5>3. ~IsList(new)
          BY <5>2, Kinds DEF RouteBegins
        <5> QED
          BY <5>1, <5>2, <5>3
      <4>2. CASE StartList(r)
        <5>1. PICK t \in Callers :
             ReadOn(r, [kind |-> "list", at |-> "count", by |-> t, count |-> 0,
                        page |-> {}, before |-> Erased])
          BY <4>2 DEF StartList
        <5> DEFINE new == [kind |-> "list", at |-> "count", by |-> t, count |-> 0,
                        page |-> {}, before |-> Erased]
        <5>2. ListBegins(new) /\ new.count = 0
          BY ReadBegins
        <5>3. ~IsRoute(new)
          BY <5>2, Kinds DEF ListBegins
        <5> QED
          BY <5>1, <5>2, <5>3
      <4> QED
        BY <2>1, <4>1, <4>2
    <3>2. cache' = cache
      BY <2>1 DEF StartRead, StartList
    <3> QED
      BY <3>1, <3>2 DEF Projected, Tocs
  <2>2. CASE GetDocument(r)
    <3>1. IsRoute(q)
      BY <1>3, <2>2 DEF GetDocument
    <3>2. EndRead(r) \/ \E x : ReadOn(r, [q EXCEPT !.record = x])
      BY <2>2 DEF GetDocument, q
    <3>3. cache' = cache
      BY <2>2 DEF GetDocument
    <3> QED
      BY <1>1, <1>2, <3>1, <3>2, <3>3, ProjectedRoute DEF EndRead
  <2>3. CASE CheckLive(r) \/ AnswerToc(r) \/ MissCache(r)
    <3>1. IsRoute(q)
      BY <1>3, <2>3 DEF CheckLive, AnswerToc, MissCache
    <3>2. EndRead(r) \/ \E x : ReadOn(r, [q EXCEPT !.at = x])
      BY <2>3 DEF CheckLive, AnswerToc, MissCache, q
    <3>3. cache' = cache
      BY <2>3 DEF CheckLive, AnswerToc, MissCache
    <3> QED
      BY <1>1, <1>2, <3>1, <3>2, <3>3, ProjectedRoute DEF EndRead
  <2>4. CASE ReadRows(r)
    <3>1. IsRoute(q)
      BY <1>3, <2>4 DEF ReadRows
    <3>2. \E x, y : ReadOn(r, [q EXCEPT !.at = x, !.toc = y])
      BY <2>4 DEF ReadRows, q
    <3>3. cache' = cache
      BY <2>4 DEF ReadRows
    <3> QED
      BY <1>1, <3>1, <3>2, <3>3, ProjectedRoute
  <2>5. CASE AskModel(r)
    <3>1. IsRoute(q)
      BY <1>3, <2>5 DEF AskModel
    <3>2. \E x, y : ReadOn(r, [q EXCEPT !.at = x, !.routed = y])
      BY <2>5 DEF AskModel, q
    <3>3. cache' = cache
      BY <2>5 DEF AskModel
    <3> QED
      BY <1>1, <3>1, <3>2, <3>3, ProjectedRoute
  <2>6. CASE HitCache(r)
    <3> DEFINE k == Append(Others(c, q.doc), EntryOf(c, q.doc))
               x == EntryOf(c, q.doc)[2]
    <3>1. IsRoute(q) /\ Entries(c, q.doc) # {}
      BY <1>3, <2>6 DEF HitCache, q
    <3>2. /\ ReadOn(r, [q EXCEPT !.at = "model", !.prompt = x])
          /\ cache' = [cache EXCEPT ![ProcessOf[r]] = k]
      BY <2>6 DEF HitCache, q
    <3>3. KeptCache(k) /\ x \in Tocs
      BY <1>1, <3>1, HitIsKept, EntryIs
    <3> HIDE DEF k, x
    <3>4. Projected([q EXCEPT !.at = "model", !.prompt = x])
      BY <1>1, <3>1, <3>3, ProjectedRoute
    <3> QED
      BY <3>2, <3>3, <3>4
  <2>7. CASE FillCache(r)
    <3> DEFINE e == IF Entries(c, q.doc) # {} THEN EntryOf(c, q.doc)
                    ELSE <<q.doc, q.toc>>
               k == Newest(Append(Others(c, q.doc), e))
               x == e[2]
    <3>1. IsRoute(q)
      BY <1>3, <2>7 DEF FillCache
    <3>2. /\ ReadOn(r, [q EXCEPT !.at = "model", !.prompt = x])
          /\ cache' = [cache EXCEPT ![ProcessOf[r]] = k]
      BY <2>7 DEF FillCache, q
    <3>3. e \in CacheEntries /\ e[1] = q.doc /\ x \in Tocs
      BY <1>1, <1>5, <3>1, EntryIs DEF CacheEntries
    <3> HIDE DEF e
    <3>4. KeptCache(k)
      BY <1>1, <3>3, FillIsKept
    <3> HIDE DEF k, x
    <3>5. Projected([q EXCEPT !.at = "model", !.prompt = x])
      BY <1>1, <3>1, <3>3, ProjectedRoute
    <3> QED
      BY <3>2, <3>4, <3>5
  <2>8. CASE CountDocuments(r)
    <3>1. IsList(q)
      BY <1>4, <2>8 DEF CountDocuments
    <3>2. \E n \in Nat : ReadOn(r, [q EXCEPT !.at = "page", !.count = n])
      BY <2>8, CountIsNumber DEF CountDocuments, q
    <3>3. cache' = cache
      BY <2>8 DEF CountDocuments
    <3> QED
      BY <1>1, <3>1, <3>2, <3>3, ProjectedList
  <2>9. CASE SelectPage(r)
    <3>1. IsList(q)
      BY <1>4, <2>9 DEF SelectPage
    <3>2. \E x, y : ReadOn(r, [q EXCEPT !.at = x, !.page = y])
      BY <2>9 DEF SelectPage, q
    <3>3. cache' = cache
      BY <2>9 DEF SelectPage
    <3> QED
      BY <1>1, <3>1, <3>2, <3>3, ProjectedList
  <2>10. CASE Answer(r) \/ SelectFails(r)
    BY <1>2, <2>10 DEF Answer, SelectFails, EndRead
  <2> QED
    BY <2>1, <2>2, <2>3, <2>4, <2>5, <2>6, <2>7, <2>8, <2>9, <2>10 DEF ReadStep
<1>7. PICK new : Outcome(new)
  BY <1>6
<1>8. reader'[r] = new /\ \A s \in Readers \ {r} : reader'[s] = reader[s]
  BY <1>1, <1>7 DEF ReadOn
<1> QED
  BY <1>6, <1>7, <1>8

LEMMA TypesStep == TypesInv /\ [ReadersNext]_allVars => TypesInv'
<1> SUFFICES ASSUME TypesInv, [ReadersNext]_allVars PROVE TypesInv'
  OBVIOUS
<1>1. ReadShape'
  BY ShapeStep DEF TypesInv
<1>2. \A c, k : cache' = [cache EXCEPT ![k] = c] /\ KeptCache(c) => CachesKept'
  BY DEF TypesInv, CachesKept, KeptCache, Keyed
<1>3. ASSUME \A r \in Readers : Projected(reader'[r]), CachesKept',
             witnessed' \subseteq Readers
      PROVE  TypesInv'
  BY <1>1, <1>3 DEF TypesInv, Projected, IsRoute, IsList, RouteReadWith, ListReadWith
<1>4. CASE UNCHANGED allVars
  BY <1>3, <1>4 DEF allVars, readVars, TypesInv, CachesKept, KeptCache, Keyed
<1>5. CASE ReadersNext
  <2>1. witnessed' \subseteq Readers
    BY <1>5 DEF ReadersNext, Witness
  <2>2. Projected(Idle)
    BY IdleIsNoRead DEF Projected
  <2>3. cache' = cache => CachesKept'
    BY DEF TypesInv, CachesKept, KeptCache, Keyed
  <2>4. ASSUME NEW r \in Readers, ReadStep(r)
        PROVE  TypesInv'
    <3>1. CachesKept'
      BY <1>2, <2>3, <2>4, ReadTypes
    <3>2. \A s \in Readers : Projected(reader'[s])
      BY <2>4, ReadTypes DEF TypesInv
    <3> QED
      BY <1>3, <2>1, <3>1, <3>2
  <2>5. ASSUME NEW w \in Workers,
               AnswerAndInvalidate(w) \/ CrashProcess(w) \/ WriteStep(w)
        PROVE  TypesInv'
    <3>1. \A s \in Readers : reader'[s] = Idle \/ reader'[s] = reader[s]
      BY <2>5 DEF AnswerAndInvalidate, CrashProcess, WriteStep
    <3>2. \A s \in Readers : Projected(reader'[s])
      BY <2>2, <3>1 DEF TypesInv
    <3>3. \/ cache' = cache
          \/ \E d : cache' = [cache EXCEPT ![ProcessOf[w]] = Others(@, d)]
          \/ cache' = [cache EXCEPT ![ProcessOf[w]] = <<>>]
      BY <2>5 DEF AnswerAndInvalidate, CrashProcess, WriteStep, Invalidate
    <3>4. \A d : KeptCache(Others(cache[ProcessOf[w]], d))
      BY ProcessIs, OthersAreKept DEF TypesInv, CachesKept
    <3>5. CachesKept'
      BY <1>2, <2>3, <3>3, <3>4, EmptyIsKept
    <3> QED
      BY <1>3, <2>1, <3>2, <3>5
  <2> QED
    BY <1>5, <2>4, <2>5 DEF ReadersNext
<1> QED
  BY <1>4, <1>5

LEMMA InitTypes == ReadersInit => TypesInv
BY IdleIsNoRead, EmptyIsKept
   DEF ReadersInit, TypesInv, ReadShape, Projected, CachesKept

(* Reads keep to their types, and a cache never holds more than its size    *)
(* nor two entries of a document, however reads, uploads, erasures and      *)
(* crashes interleave on it.                                                *)
THEOREM ReadersTypeCorrect == ReadersSpec => []ReadersTypeOK
BY InitTypes, TypesStep, TypesAre, PTL DEF ReadersSpec

=============================================================================
