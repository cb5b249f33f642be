--------------------------- MODULE DocumentReaders ---------------------------
(***************************************************************************)
(* What requests that read see of a store others write: /route, the table   *)
(* of contents, its export and the list of documents, beside the uploads    *)
(* and erasures of DocumentLifecycle.  A read is several transactions, and  *)
(* a routing request goes through the cache of projected tables of contents *)
(* each server process keeps (router/graph.py), which uploads and erasures  *)
(* invalidate after they committed, in their own process only.              *)
(***************************************************************************)
EXTENDS DocumentLifecycle, SequencesExt

CONSTANTS
  Readers,     \* concurrently running requests that read
  Processes,   \* server processes, each with its cache
  ProcessOf,   \* the process that runs each worker and reader
  CacheSize    \* _TOC_CACHE_MAXSIZE

ASSUME ReadersAssumption ==
  /\ ProcessOf \in [Workers \cup Readers -> Processes]
  /\ CacheSize \in Nat \ {0}
  /\ IsFiniteSet(DocIds)

VARIABLES
  reader,     \* what each reader is doing
  cache,      \* each process's cache, least recently used first
  witnessed   \* readers whose document was readable at some moment of theirs

readVars == <<reader, cache, witnessed>>
allVars == <<vars, readVars>>

(* A table of contents is empty or has the sections its content determines. *)
Tocs == {"empty", "full"}

RouteRead == [kind: {"route", "toc"}, doc: DocIds, by: Callers,
              record: {"unread", "none", "found"},
              at: {"live", "rows", "read", "fill", "model", "answer"},
              toc: Tocs, prompt: Tocs, routed: BOOLEAN,
              before: SUBSET DocIds]

ListRead == [kind: {"list"}, at: {"count", "page", "answer"}, by: Callers,
             count: Nat, page: SUBSET DocIds, before: SUBSET DocIds]

ReadersInit ==
  /\ Init
  /\ reader = [r \in Readers |-> Idle]
  /\ cache = [p \in Processes |-> <<>>]
  /\ witnessed = {}

Erased == {d \in DocIds : Tombstoned(d)}

(* Faulty: the tombstone is left out of the filter.                         *)
VisibleWhenErased(d, t) == Exists(d) /\ Owner(d) = t

(* Rows the tenant's SELECTs find.                                          *)
Visible(d, t) == Live(d) /\ Owner(d) = t

ReadOn(r, new) == reader' = [reader EXCEPT ![r] = new]
EndRead(r) == ReadOn(r, Idle)

-----------------------------------------------------------------------------
(* The record and the sections of a document.                               *)

StartRead(r) ==
  /\ reader[r] = Idle
  /\ \E k \in {"route", "toc"}, d \in DocIds, t \in Callers :
       ReadOn(r, [kind |-> k, doc |-> d, by |-> t, record |-> "unread",
                  at |-> "live", toc |-> "empty", prompt |-> "empty",
                  routed |-> FALSE, before |-> Erased \cap {d}])
  /\ UNCHANGED <<vars, cache>>

IsRead(r, kinds) == reader[r] # Idle /\ reader[r].kind \in kinds

(* /route is refused with 404 or, for a flat document, with 422.            *)
GetDocument(r) ==
  LET q == reader[r]
      found == Visible(q.doc, q.by)
  IN /\ IsRead(r, {"route", "toc"})
     /\ q.record = "unread"
     /\ IF q.kind = "route" /\ (~found \/ documents[q.doc].fallback)
        THEN EndRead(r)
        ELSE ReadOn(r, [q EXCEPT !.record = IF found THEN "found" ELSE "none"])
     /\ UNCHANGED <<vars, cache>>

(* The table of contents and the export gather both reads, in any order.    *)
MayReadSections(q) == q.kind = "toc" \/ q.record = "found"

(* Faulty: the sections are read without asking for the document.           *)
CheckNothing(r) ==
  LET q == reader[r]
  IN /\ IsRead(r, {"route", "toc"})
     /\ q.at = "live"
     /\ MayReadSections(q)
     /\ ReadOn(r, [q EXCEPT !.at = "rows"])
     /\ UNCHANGED <<vars, cache>>

(* First transaction of get_sections.                                       *)
CheckLive(r) ==
  LET q == reader[r]
  IN /\ IsRead(r, {"route", "toc"})
     /\ q.at = "live"
     /\ MayReadSections(q)
     /\ ReadOn(r, [q EXCEPT !.at = IF Visible(q.doc, q.by) THEN "rows"
                                   ELSE "read"])
     /\ UNCHANGED <<vars, cache>>

(* Second transaction of get_sections.                                      *)
ReadRows(r) ==
  LET q == reader[r]
  IN /\ IsRead(r, {"route", "toc"})
     /\ q.at = "rows"
     /\ ReadOn(r, [q EXCEPT !.at = "read",
                            !.toc = IF q.doc \in sections THEN "full"
                                    ELSE "empty"])
     /\ UNCHANGED <<vars, cache>>

AnswerToc(r) ==
  LET q == reader[r]
  IN /\ IsRead(r, {"toc"})
     /\ q.at = "read"
     /\ q.record # "unread"
     /\ IF q.record = "found" THEN ReadOn(r, [q EXCEPT !.at = "answer"])
        ELSE EndRead(r)
     /\ UNCHANGED <<vars, cache>>

-----------------------------------------------------------------------------
(* Routing through the cache of the process.                                *)

Entries(c, d) == {i \in DOMAIN c : c[i][1] = d}
EntryOf(c, d) == c[CHOOSE i \in Entries(c, d) : TRUE]
Others(c, d) == IF Entries(c, d) = {} THEN c
                ELSE RemoveAt(c, CHOOSE i \in Entries(c, d) : TRUE)
Newest(c) == IF Len(c) > CacheSize THEN Tail(c) ELSE c

(* A cached projection is used, whatever the request read itself.           *)
HitCache(r) ==
  LET q == reader[r]
      c == cache[ProcessOf[r]]
  IN /\ IsRead(r, {"route"})
     /\ q.at = "read"
     /\ Entries(c, q.doc) # {}
     /\ ReadOn(r, [q EXCEPT !.at = "model", !.prompt = EntryOf(c, q.doc)[2]])
     /\ cache' = [cache EXCEPT ![ProcessOf[r]] =
                    Append(Others(c, q.doc), EntryOf(c, q.doc))]
     /\ UNCHANGED vars

MissCache(r) ==
  LET q == reader[r]
  IN /\ IsRead(r, {"route"})
     /\ q.at = "read"
     /\ Entries(cache[ProcessOf[r]], q.doc) = {}
     /\ ReadOn(r, [q EXCEPT !.at = "fill"])
     /\ UNCHANGED <<vars, cache>>

(* Faulty: the entry is added without looking again.                        *)
FillBlindly(r) ==
  LET q == reader[r]
      c == cache[ProcessOf[r]]
  IN /\ IsRead(r, {"route"})
     /\ q.at = "fill"
     /\ ReadOn(r, [q EXCEPT !.at = "model", !.prompt = q.toc])
     /\ cache' = [cache EXCEPT ![ProcessOf[r]] = Append(c, <<q.doc, q.toc>>)]
     /\ UNCHANGED vars

(* The projection was computed outside the lock: by now another request may *)
(* have filled the entry, which is kept, or an upload invalidated it.       *)
FillCache(r) ==
  LET q == reader[r]
      c == cache[ProcessOf[r]]
      entry == IF Entries(c, q.doc) # {} THEN EntryOf(c, q.doc)
               ELSE <<q.doc, q.toc>>
  IN /\ IsRead(r, {"route"})
     /\ q.at = "fill"
     /\ ReadOn(r, [q EXCEPT !.at = "model", !.prompt = entry[2]])
     /\ cache' = [cache EXCEPT ![ProcessOf[r]] =
                    Newest(Append(Others(c, q.doc), entry))]
     /\ UNCHANGED vars

(* Sections the model names count only if this request read them.           *)
MayRoute(q) == q.toc = "full"

(* The model is asked, unless the table read is empty; it may name sections *)
(* or none, fail, or answer with something that is not valid.               *)
AskModel(r) ==
  LET q == reader[r]
  IN /\ IsRead(r, {"route"})
     /\ q.at = "model"
     /\ \E routed \in {FALSE, MayRoute(q)} :
          ReadOn(r, [q EXCEPT !.at = "answer", !.routed = routed])
     /\ UNCHANGED <<vars, cache>>

-----------------------------------------------------------------------------
(* The list: COUNT and SELECT in one transaction, each with its snapshot    *)
(* under the default isolation, READ COMMITTED.                             *)

StartList(r) ==
  /\ reader[r] = Idle
  /\ \E t \in Callers :
       ReadOn(r, [kind |-> "list", at |-> "count", by |-> t, count |-> 0,
                  page |-> {}, before |-> Erased])
  /\ UNCHANGED <<vars, cache>>

Listed(t) == {d \in DocIds : Visible(d, t)}

CountDocuments(r) ==
  LET q == reader[r]
  IN /\ IsRead(r, {"list"})
     /\ q.at = "count"
     /\ ReadOn(r, [q EXCEPT !.at = "page", !.count = Cardinality(Listed(q.by))])
     /\ UNCHANGED <<vars, cache>>

SelectPage(r) ==
  LET q == reader[r]
  IN /\ IsRead(r, {"list"})
     /\ q.at = "page"
     /\ ReadOn(r, [q EXCEPT !.at = "answer", !.page = Listed(q.by)])
     /\ UNCHANGED <<vars, cache>>

-----------------------------------------------------------------------------
Answer(r) ==
  /\ reader[r] # Idle
  /\ reader[r].at = "answer"
  /\ EndRead(r)
  /\ UNCHANGED <<vars, cache>>

(* A SELECT fails: the request is answered 503.                             *)
SelectFails(r) ==
  /\ "postgres" \in Faults
  /\ reader[r] # Idle
  /\ reader[r].at \in {"live", "rows", "count", "page"}
  /\ EndRead(r)
  /\ UNCHANGED <<vars, cache>>

ReadStep(r) ==
  \/ StartRead(r) \/ GetDocument(r) \/ CheckLive(r) \/ ReadRows(r)
  \/ AnswerToc(r) \/ HitCache(r) \/ MissCache(r) \/ FillCache(r)
  \/ AskModel(r) \/ StartList(r) \/ CountDocuments(r) \/ SelectPage(r)
  \/ Answer(r) \/ SelectFails(r)

-----------------------------------------------------------------------------
(* The writers, with what they do to the cache.                             *)

Invalidate(w) ==
  cache' = [cache EXCEPT ![ProcessOf[w]] = Others(@, job[w].doc)]

AnswerAndInvalidate(w) ==
  /\ AnswerIngest(w) \/ AnswerDelete(w)
  /\ Invalidate(w)
  /\ UNCHANGED reader

(* The process dies with its cache and the requests it serves.              *)
CrashProcess(w) ==
  LET p == ProcessOf[w]
  IN /\ Crash(w)
     /\ cache' = [cache EXCEPT ![p] = <<>>]
     /\ reader' = [r \in Readers |-> IF ProcessOf[r] = p THEN Idle
                                     ELSE reader[r]]

WriteStep(w) ==
  /\ \/ Start(w)
     \/ job[w].at # "answer" /\ IngestStep(w)
     \/ job[w].at # "receipt" /\ DeleteStep(w)
     \/ DatabaseFails(w) \/ CommitReplyLost(w) \/ EmbedFails(w)
     \/ UpsertFails(w) \/ RollbackFails(w)
  /\ UNCHANGED <<reader, cache>>

(* The reader's document is live, its caller's, and has sections.           *)
Readable(r) ==
  /\ IsRead(r, {"route", "toc"})
  /\ Live(reader[r].doc)
  /\ Owner(reader[r].doc) = reader[r].by
  /\ reader[r].doc \in sections

Witness ==
  witnessed' = {r \in Readers :
                  reader'[r] # Idle /\ (r \in witnessed \/ Readable(r)')}

ReadersNext ==
  /\ \/ \E r \in Readers : ReadStep(r)
     \/ \E w \in Workers :
          AnswerAndInvalidate(w) \/ CrashProcess(w) \/ WriteStep(w)
  /\ Witness

ReadersSpec == ReadersInit /\ [][ReadersNext]_allVars

-----------------------------------------------------------------------------
(* Properties.                                                              *)

(* Each cache keeps to its bound and has one entry per document.            *)
ReadersTypeOK ==
  /\ reader \in [Readers -> {Idle} \cup RouteRead \cup ListRead]
  /\ cache \in [Processes -> Seq(DocIds \X Tocs)]
  /\ \A p \in Processes :
       /\ Len(cache[p]) <= CacheSize
       /\ \A d \in DocIds : Cardinality(Entries(cache[p], d)) <= 1
  /\ witnessed \subseteq Readers

(* No request that began after an erasure committed is told anything of the *)
(* document: not its record, not its sections, whatever a cache still holds *)
(* of them, and not in a list.                                              *)
HiddenOnceErased ==
  \A r \in Readers :
    /\ IsRead(r, {"route", "toc"}) /\ reader[r].doc \in reader[r].before =>
         reader[r].record # "found" /\ reader[r].toc = "empty"
    /\ IsRead(r, {"list"}) => reader[r].page \cap reader[r].before = {}

(* Sections are shown or routed to only if, at one moment of the request,   *)
(* the document was live, the caller's own and had them: two transactions   *)
(* and a cache filled by others read like one.                              *)
AnswersWereReadable ==
  \A r \in Readers :
    /\ IsRead(r, {"route", "toc"})
    /\ reader[r].toc = "full" \/ reader[r].routed
    => r \in witnessed

-----------------------------------------------------------------------------
(* What comments of the repository say; the code differs.                   *)

(* graph.py:131-133: after an upload the next routing call rebuilds the     *)
(* projection instead of serving a stale entry.  In one process, no entry   *)
(* says that a live document whose upload was answered has no sections.     *)
AnsweredUploadIsRouted ==
  \A d \in acked, p \in Processes :
    Live(d) => <<d, "empty">> \notin {cache[p][i] : i \in DOMAIN cache[p]}

=============================================================================
