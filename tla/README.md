# Verification of the RAG refinement system

TLA+ models of the document service in this repository: FastAPI backend,
ingestion pipeline, TOC router and the streaming chat client. Each module is
translated from the source named in its header; `PROJECT.json` maps every
definition to the lines it stands for. TLC checks small instances, TLAPS proves
the main theorems for all values of the constants.

Contents: [1 inventory](#1-inventory) ·
[2 modules](#2-modules-and-how-they-correspond-to-the-code) ·
[3 runs](#3-runs) · [4 fairness](#4-fairness) · [5 proofs](#5-proofs) ·
[6 where code and comments disagree](#6-where-the-code-and-its-comments-disagree) ·
[7 not modelled](#7-what-is-not-modelled) · [8 plan](#8-plan) ·
[9 how to run](#9-how-to-run)

## 1. Inventory

What happens to a document: a client uploads a PDF; the **parser** reads its
pages, **structure extraction** makes a table of contents of them, the
**chunker** cuts each section's text, the **pipeline** commits rows to the
**structure store** (Postgres), has the chunks **embedded** and upserts the
vectors to the **vector store** (Qdrant), whose collection a **provisioning run**
made. Readers list documents and read tables
of contents. A question goes to **/route** or **/answer**: the **routing
adapter** reads the tables of contents of the documents asked about, the
**router** has a small model rank their sections, the **answer stream** has a
large model write the answer, and the **streaming client** shows it. **Erasure**
(DPDP) tombstones a document and records in an outbox what must be deleted from
each store.

| component | state it keeps | operations | what is hard | what makes it correct |
|---|---|---|---|---|
| upload pipeline (`ingestion/pipeline.py`, `backend/app/adapters/ingestor.py`) | none; works on both stores | look up by hash, parse, commit, embed, upsert, roll back, answer | several transactions and calls without a common commit; two uploads of the same bytes; a crash or failure between any two; erasure in the middle | vectors only behind committed rows; what was answered as indexed stays searchable; a retry repairs |
| structure store (`adapters/stores.py`, `adapters/document_store.py`, `db/models.py`) | `documents`, `sections`, `erasure_outbox` | upsert with sections, tombstone, get, list | insert conflicts, READ COMMITTED snapshots, lost commit replies | a tombstone is final; a row agrees with its sections |
| vector store (`adapters/stores.py`, `db/qdrant_bootstrap.py`) | points of each document | upsert, delete by document, bootstrap | an upsert that fails may have been applied in part; deletion does not know whose points it deletes | agrees with the sections when a document is quiet |
| erasure (`api/documents.py`, `document_store.py`) | tombstone, outbox | delete, receipt | racing deletes; uploads in flight | one receipt per document; outbox rows for exactly the erased |
| parsing and structure (`ingestion/parser.py`, `toc_extractor.py`) | none | pages, bookmarks, headers, refiner hook, page ranges | pages that fail; bookmarks outside the file, unordered, on one page | sections are disjoint and contiguous |
| chunking (`ingestion/chunker.py`) | none | windows of each section | windows and pages do not end together | no text lost, repeated or in another's section |
| embedding (`ingestion/embedder.py`) | lazily built clients | embed, fall back | the fallback's vectors have another dimension | a wrong dimension never reaches the vector store |
| document reads (`api/documents.py`) | none | list, record, TOC, export | an answer is two to four SELECTs; writers commit between | nothing of an erased document is shown |
| TOC cache (`router/graph.py`) | per process: LRU of projected TOCs | hit, fill, invalidate | fill computed between two lock sections; one cache per process | an answer never uses more than the request could read |
| router (`router/graph.py`, `schema.py`, `llm.py`) | state of one request | complete, parse, validate, threshold, output | an untrusted reply; thresholds, caps and ties together | only sections of the table; honest fallback |
| routing adapter and API (`adapters/router.py`, `api/routing.py`) | none | fetch and judge records, route each, merge | concurrency; one failure of several; ties | one document's order or failure does not hide another |
| answer stream (`api/answer.py`, `adapters/generation.py`) | one generator per connection | route, stream tokens, final or error frame | disconnects, timeouts, server stop | ends with an answer or an error |
| streaming client (`api/sse.ts`, `useAnswerStream.ts`) | turns, controller, pending flag | ask, abort, reset, unmount | late callbacks of superseded streams, broken connections | composer and turns follow the live stream |
| rate limiter (`security/rate_limit.py`) | windows per credential and scope | check (with clean-up and eviction) | clock read outside the lock; eviction | bounded admissions, no unfair 429 |
| authentication (`security/auth.py`) | API key records of the process; JWKS handled by libraries | register, rotate, resolve a key; verify a token | the key store is built by whoever comes first | issued keys authenticate, as their owner |
| application assembly (`main.py`, `dependencies.py`, `settings.py`, `health.py`, …) | collaborators built on first use | build, probe, dispose | nested builders under one lock; builds that fail | built once, nobody waits for ever |
| web client pages (`App.tsx`, screens, dropzone, library, card, `client.ts`) | view; list, page, flags; contents, selection | upload, erase, turn the page, open, select, chat | overlapping uploads, late answers, stale closures, lost calls | a screen shows what it says it shows |
| schema and migrations (`db/models.py`, `migrations/`) | – | – | keys and constraints the transactions rely on | – |
| productization, ledger tooling, deployment | metrics counters; none; none | – | – | – |

Interaction: API handlers call adapters; adapters run the synchronous pipeline
in a thread, so uploads and deletions interleave at every transaction and every
call to Qdrant. Pipeline and deletion meet only in the stores. The pipeline
calls `invalidate_toc_cache` after its commit, in its own process. Routing reads
the structure store and the cache; the answer stream calls the routing adapter
and the generator; client and server share only the connection. Every
authenticated request passes the rate limiter first. Threads meet in the
collaborators that the first of them builds. The screens of the web client share
the API and the documents behind it, and hand each other only the document to
open.

## 2. Modules and how they correspond to the code

### DocumentLifecycle — uploads and erasures over two stores

`documents`, `sections`, `outbox` are the tables, `points` is Qdrant (a
document's points are absent, partly there, or all there), `job[w]` is where
request `w` stands. A request takes one step per transaction or external call:

| action | code |
|---|---|
| `StartIngest`, `AnswerDuplicate`, `RejectUnreadable`, `LookupAndParse` | the hash lookup and the parse, `pipeline.py:445-474` |
| `CommitDocument`, `SelectAbsent`, `UpdateDocument`, `InsertDocument`, `InsertConflict`, `RefuseTombstoned` | `upsert_document_and_replace_sections`, `stores.py:194-283`: SELECT … FOR UPDATE of an absent row locks nothing, so the INSERT is a step of its own that may conflict |
| `EmbedChunks`, `EmbedFails` | embedding and the dimension check; of the embedders only the outcome is kept: `FallbackEmbedder` gives a vector of either adapter's dimension and only one is `ValidDimension` |
| `UpsertPoints`, `UpsertFails`, `RollBackPoints`, `RollbackFails` | `pipeline.py:508-525`, `stores.py:348-396` |
| `AnswerIngest` | result, HTTP answer |
| `StartDelete`, `TombstoneDocument`, `DeleteNotFound`, `AnswerDelete` | `documents.py:383-424`, `document_store.py:233-287` |
| `DatabaseFails`, `CommitReplyLost`, `Crash` | exceptions of a session; a commit that happened though its reply was lost; the end of the process |

A content is modelled by the shape that parsing finds in it (`Shape`); document
ids are pairs of tenant and content, as `ids.py` derives them from both. History
variables (`offered`, `acked`, `receipts`, `rolledBack`) are read by no guard.

**ErasableStore** is what clients may rely on: a document is absent, live, then
erased for good; vectors exist only behind a document; one receipt is given,
after the erasure. `DocumentLifecycle` implements it under the refinement
mapping `StateOf`, checked (`IsErasableStore`) and proved
(`ImplementsErasableStore`). It lets vectors change after an erasure, since an
upload that committed its row before the tombstone upserts after it, and nothing
in this repository removes them later. `LateVectorsAreInFlight` bounds that: only
uploads that were writing vectors when the document was erased change them, and
no upload joins these.

**DocumentService** puts the lifecycle into a world (`world`): nothing ever
fails, or things fail, perhaps until they stop failing (`FaultsStop`); clients
keep uploading (`StartUpload`), with `force_reingest` or without. It follows one
document of any shape: each step of the lifecycle reads and writes one document,
and requests for different documents share nothing. What is promised depends on
the world and is stated there (`RowTellsWhatIsKept`, `QuietStoresAgree`,
`ForcedRetryRepairs`). Its history variable `overlapped` names the one case in
which an ephemeral row has sections: a no-retention upload that found nothing is
about to write the row a retained upload committed since.

### ColdStart — what is made on first use

`cell` holds the globals of shared collaborators, 0 for None; `holder` and
`depth` their locks; `job[a]` where a thread stands.

| action | code |
|---|---|
| `Call`, `Look`, `Acquire`, `Found`, `Missing`, `Build`, `BuildFails`, `Return` | any of the eleven lazy builders: the four of `dependencies.py` under one re-entrant lock, the seven others double-checked (`get_api_key_store`, `get_rate_limiter`, `router.route`, the clients of Qdrant, OpenAI, BGE-M3 and Anthropic) |
| `CallPart`, `ReturnPart` | `_router_singleton` asks for the document store under the lock it holds, `dependencies.py:91` |
| `Register`, `Rotate`, `ReadKeys` | `ApiKeyStore`, `auth.py:119-196` |
| `StartRun` … `ReplyLost` | `bootstrap_collection`, `qdrant_bootstrap.py:99-192`, each request to Qdrant a step |

An exception in a builder leaves every `with` block it is in, so `BuildFails`
releases the lock as deep as it is held. In the API key store keys are kept, so
that *which* store a thread was handed matters; of the others, that it is the
only one. Provisioning assumes that Qdrant answers 400 or 409 to a payload index
only when that index is there, as `ensure_payload_indexes` does.

**OnceCells** is what collaborators promise: a cell is empty, is filled once, in
one step, with its part if it has one, and whoever asks is handed what is in it.
`ColdStart` implements it, checked (`AreOnceCells`) and proved
(`ImplementsOnceCells`).

### LibraryScreens — library, document and chat screens

`view` is App's state, `shelf` and `reader` the states of the mounted screens,
`calls` the API calls in flight with what awaits each answer, `library` the
documents at the server. `User` actions are what a person can do on the screen
that is open; `Serve` is the API answering, refusing or being lost; `Deliver`
the code after each `await`, which runs whether or not the screen that called is
still there: `loadPage` sets whatever list arrives last, an upload reloads the
page of the closure that began it, a duplicate opens its document from wherever
the user has gone. `Abandoned`/`TakesToc` are the `active` flag of an effect.
There is no way back to the library, as in `App.tsx`. The history variables
(`mishaps`, `lost`, `swapped`) only say when the code makes no promise: two loads
crossed, a call failed without an answer, a document changed under the user.

### Structure — from a file to sections and chunks

A file is a sequence of pages (number of words, header or none) and bookmarks,
which may point anywhere. `ParsePage`/`SkipPage`/`Unparsable` are the parser (an
error that is no page's may end it at any page);
`ExtractNative`, `DetectHeaders`, `Refine`, `NoStructure` are `extract_toc` with
its scenarios A, B, C, through the operator `PageRanges`, the closed form of
`_select_survivors` and `_derive_page_ranges` (clamp, stable sort, one survivor
per start page, end just before the next start); `ChunkDocument` is the chunker
with `_assert_section_bound`. Which typography makes a header is an input. A
word is named by its page and position, so that lost, repeated or moved text
shows.

### DocumentReaders — reads beside writers

Extends `DocumentLifecycle` with requests that read. `GetDocument`, `CheckLive`
and `ReadRows` are the three transactions of a TOC or routing request; `/answer`
reads exactly as `/route` does (the record, then its adapter's sections), and GET
of a document is the record half of a TOC request;
`CountDocuments` and `SelectPage` the two statements of a list; `HitCache`,
`MissCache`, `FillCache` the lock sections of `_cached_toc_json`, with a cache
per process that `AnswerAndInvalidate` invalidates in the uploader's process
only; `AskModel` the router as seen from the cache. Which process a reader or
writer is in is a parameter, `ProcessOf`: one process in the run `Readers`, any
number of them in the theorems. The history variable `witnessed` says which readers' documents were readable at some moment of their
request.

### Router — one routing request

`Fetch` and `Reject` are the handler's record checks (`routing.py`), `ReadToc`,
`Complete`, `CompletionFails` one document's way through `router/graph.py`, with
`Validated`, `ApplyThreshold`, `RouterOutput` and `Contribution` as operators on
the reply, `MergeFairly` and `Answer` the adapter. A reply is any ranking of
real and fabricated sections, or a failure. Confidences are small numbers of
which only the order is used. A selection is the set of the reply's items, each
with the place it has in the reply, and is put in order only after the band is
chosen: `_apply_threshold` sorts first, but sorting is stable and a filter keeps
the order, so both give the same list. `MergeFairly` is `_merge_fairly`: first
one representative of each document, the item with emission index 0, then the
remainder, each in the order of descending confidence, then document, then
emission index. The emission index counts the items of the same document that a
stable sort by confidence puts before one, whichever document is named first.

### AnswerStream — one conversation

Server (`Receive`, `Refuse`, `OpenStream`, `SendToken`, `SendFinal`,
`SendError`, `NoticeDisconnect`, `CancelHandler`), connection (`wire`, `link`,
`BreakLink`), decoder (`FetchFails` … `ReadAborted`) and hook (`Ask`, `Abort`,
`Reset`, `Unmount`, `Settle`). JavaScript runs callbacks to completion, so the
end of a stream and the hook's `finally` are one step; several turns' streams
interleave freely.

### RateLimiter — the fixed-window limiter

`ReadClock` is the call up to the lock, `Count` the locked section (evict, clean
up, roll over, count, answer), `Tick` time. A thread's time may be old by up to
`MaxDelay` when it gets the lock. `_windows` is `windows`; `_check_count` is
kept modulo the clean-up interval. The history variable `admitted` counts the
admissions of one bucket, `Watched`, by age, and `forgotten` says that its window
was evicted while a late call could still count in it.

## 3. Runs

"States" are distinct states.

| run | what it asks | bounds, and why they are enough | states |
|---|---|---|---|
| `Lifecycle` | stores stay consistent, the whole refines `ErasableStore`, forced retries repair | two concurrent requests on one document, which may have any of the four shapes; retained or not, forced or not; erased by its owner or asked for by another tenant; every kind of failure, none, or failures that stop. All conflicts of the code are between two requests for one document; the theorems hold for any number | 132k |
| `Readers` | nothing of an erased document is shown; two transactions and a cache read like one | two readers, one writer, two documents, room for one in the cache, so that entries are evicted while they are in use | 1.2M |
| `Router` | fallback, threshold, order, fairness | two documents and two sections each with a fabricated id; levels below, at and above the floor, at and above the threshold, and a threshold below the floor; caps 1–3, around the number of documents | 619k |
| `Structure` | sections tile, chunks keep all text | three pages (first, inner, last), two bookmarks anywhere from 0 to 4, two refined entries; three words on a page and chunks of two, so that windows straddle pages | 473k |
| `AnswerStream` | turns, text and composer | two turns (one supersedes the other) of up to two tokens | 342k |
| `RateLimiter` | admissions in any stretch of time, refusals, memory | three buckets, limit of two (so that a window may be full, part full or fresh), cap of one, delay of one tick, window of two, times 0 to 4: eviction, clean-up and roll-over all meet | 3.4M |
| `ColdStart` | collaborators, keys, provisioning | two threads (one builds while the other comes); the document store, the router built of it, and the key store, which between them have both kinds of lock, nesting, and state; two keys of one owner and one of another; three indexes; runs by either thread at any time. The other eight collaborators are built as the document store or the key store is | 202k |
| `LibraryScreens` | what screens show, of documents and of work in progress | two documents on pages of one, so that pages vanish and are turned; two calls in flight, so that answers cross | 300k |
| `FindNoRepair`, `FindRollbackLoss`, `FindStaleToc`, `FindLostPages` | a comment of the repository, each refuted by a trace | see section 6 | – |

The passing runs show that:

- vectors never outrun the committed rows (`VectorsHaveSections`), a tombstone
  and its outbox rows are final and complete (`ErasureIsFinal`,
  `OutboxMatchesTombstones`), racing deletes give one receipt
  (`IsErasableStore`), only uploads already at Qdrant write vectors of an erased
  document (`LateVectorsAreInFlight`), and only a compensating rollback ever takes
  vectors from a document that was answered as indexed (`AckedStaysSearchable`);
- whatever fails or overlaps, a row has its hash exactly if it is not ephemeral,
  and an ephemeral row has no sections, but for one race (section 6), which the
  property names; unless re-ingestion is forced, an
  indexed row has sections and a fallback row none (`RowTellsWhatIsKept`).
  Nothing is kept unasked (`OnlyOfferedIsKept`, part of it); where nothing fails,
  overlapping uploads and erasures leave both stores in agreement
  (`QuietStoresAgree`); once failures stop, a forced upload repairs whatever
  stopped between the stores (`ForcedRetryRepairs`);
- a reader that starts after an erasure sees nothing of the document, not even
  through a stale cache entry (`HiddenOnceErased`), and sections shown or routed
  to were readable at one moment of the request (`AnswersWereReadable`). The run
  has one process; that both hold where a cache belongs to a process that is never
  told of uploads and erasures is in the theorems;
- the model is not asked for a request that is refused (part of the router's
  `TypeOK`), the full-document fallback is reported exactly when no usable
  section was ranked (`FallbackIsHonest`), bands do not mix and the reply's order
  is kept (`SelectionFollowsReply`), every document is heard before one is heard
  twice, and the order in which documents are named does not matter
  (`MergeIsFair`);
- sections tile the pages counted, from the first section on, whatever bookmarks
  and parse failures there are (`RangesTile`); bookmarks are the table of contents
  if their pages, clamped to the count of the pages that parsed, are two or more
  (`BookmarksHeard`; two pages of the file may be clamped to one, see section 6);
  chunks are the text from the first section to the last page counted, in order,
  once (`ChunksKeepText`), and each of its own section
  (`ChunksKeepBounds`), so the run-time check of bounds never fails an upload;
- the composer is disabled exactly while a live stream runs
  (`ComposerFollowsStream`), a finished turn always shows an answer, an error or
  that it was cancelled, an answer and an error together only where the connection
  broke behind the answer (`TurnsEndHonestly`), the text is the generator's
  (`TextIsTheAnswer`), an aborted turn comes to show no error but that of a refusal
  whose body was being read (`AbortStaysSilent`), and every turn settles (`TurnsSettle`);
- the limiter admits at most twice its limit in any window-long stretch if a
  thread waits at most one tick (three times less one beyond that), except for a
  bucket whose window was evicted while calls could count in it, which starts
  afresh (`BudgetHolds`); it refuses only
  buckets that had their limit (`RefusedOnlyOverLimit`); its table overshoots its
  cap by one at most (part of `TypeOK`);
- however first requests race and builds fail, each collaborator is built once
  and nobody is handed None or a second one (`AreOnceCells`), no lock is kept by
  who is not going on (`LocksAreFreed`), and exactly the keys that were issued and
  not rotated out authenticate (`IssuedKeysResolve`); a provisioning run that
  reports success left a collection that fits and all its indexes, whatever other
  runs did (`ReportedIsProvisioned`);
- what a screen shows as in progress is in progress, and the reverse but for
  overlapping uploads and loads (`FlagsFollowCalls`); contents are of the document
  named, and the list is the server's page of the number the library is on, with
  the exceptions the properties name, each of which the code does have (section
  6) (`ScreensShowWhatTheyName`); no upload and no fetch of contents is shown for
  ever, and the skeleton gives way to the grid, unless a list failed and none had
  come before it: then it stays, though nothing loads (`ScreensSettle`).

Each property of a passing run also has a faulty variant of a mapped definition
(marked "Faulty:" in the modules) that makes the run fail.

Deadlock is checked in `Lifecycle`, `ColdStart` and `Readers`, where a request
can always start. The other systems stop for good: a file's processing or a routing
request ends, a bounded conversation or clock runs out, a user reaches the chat,
which `AnswerStream` models.

## 4. Fairness

- `Lifecycle`, `FindNoRepair` (`ServiceSpec`): weak fairness of each worker's own
  steps (a thread or coroutine that runs is scheduled; a call to Postgres, Qdrant
  or an embedder is taken to end, in success or failure), and strong fairness of
  an upload by each worker, for clients "that upload again", the premise of the
  comments that promise repair. Failures are never fair; `FaultsStop` need not
  happen, and `ForcedRetryRepairs` and `RetryRepairs` speak only of behaviours in
  which it has.
- `AnswerStream`: weak fairness of each handler and of each reader. The
  generator has a timeout (`DEFAULT_STREAM_TIMEOUT`), a disconnect is noticed by
  the handler, and the browser runs the reactions of what arrives. Nobody has to
  ask, abort, break a connection or stop the server.
- `ColdStart`: weak fairness of each thread's steps. That a thread gets a lock
  that others keep taking is not assumed (no `RLock` promises it), so
  `LocksAreFreed` says that a lock is let go of, not that a given thread gets it.
- `LibraryScreens`: weak fairness of `Serve` and `Deliver` for each call: `fetch`
  is answered or rejects at last, and the browser runs what awaits it. The client
  sets no timeout; a call that hangs for ever shows its skeleton for ever. Nothing
  is assumed of the user.

## 5. Proofs

`DocumentProofs` (of `DocumentLifecycle`, `DocumentService` and
`DocumentReaders`), `StructureProofs`, `RouterProofs`, `AnswerStreamProofs`,
`RateLimiterProofs`, `ColdStartProofs` and `LibraryScreensProofs`;
`SequenceLemmas` has the lemmas that several of them need. Every invariant and
every action property that a passing run checks is a theorem, and so are both
refinements. No theorem assumes more than the `ASSUME` of its module, which TLC
also evaluates. That sets are finite is assumed where something is counted or
listed: the documents of `DocumentReaders`, `Router` and `LibraryScreens`
(of which there is at least one, since the page that vanishes is the last of
some), and the buckets of `RateLimiter`.

**SequenceLemmas**. The provers do no induction over an operator, so induction up
to a bound is a lemma about a set (`UpToBound`, from the well-foundedness of `<`).
From it follow what the models' folds give: where the elements of several
sequences are in `FlattenSeq` of them (`FlattenLocates`, by offsets), that it
rises if they do and each is before the next (`FlattenRises`); that `RemoveAt`
keeps the rest; that a finite set can be put in the order of a relation
(`OrderExists`) and in one way only (`OrderCovers`, `RisingUnique`: of two
sequences that rise and hold the same, neither can differ at a first place).

**DocumentLifecycle**, for any tenants, contents, workers and kinds of failure:

| theorem | inductive invariant |
|---|---|
| `TypeCorrect` | `TypeOK`; a job's record type follows from its step (`JobKinds`), a written row is a row (`RowForIsRow`) |
| `VectorsFollowSections` | `VectorInv`: `VectorsHaveSections` is not inductive alone, since an upload in flight writes points later; each job in embed, upsert or rollback must still have its row and sections (`WriterHasSections`). Rows and sections never go away, so other workers cannot disturb it (`OtherWriter`) |
| `ErasureFinal` | an action property from `TypeOK`: every commit tests the tombstone in its own transaction (`CommitSparesTombstones`) |
| `LateVectors` | an action property from `TypeOK`: an upload begins to write vectors only by committing its row and sections, which no commit does behind a tombstone (`WriterSteps`, `LateVectorsStep`) |
| `OutboxComplete` | `OutboxMatchesTombstones`, from what a step may do to the tables (`StoreSteps`) |
| `OneReceipt` | `ReceiptInv`: a worker about to answer with a receipt is the only one for its document, none was given yet, and the document is erased |
| `AckedSearchable` | `AckInv`: a worker about to claim vectors that it wrote has them, rollbacks aside; no step but a rollback takes all vectors away (`SearchableStays`) |
| `ImplementsErasableStore` | initial states map to initial states (`AbstractInit`); each step maps to a step of `ErasableStore` or a stutter (`AbstractStep`), using `VectorInv` for `ChangeVectors`, `ReceiptInv` for `GiveReceipt` |
| `OfferedKept` | `OfferedInv`: sections and hashes are of offered documents only, and a job that asks for retention has offered its document; vectors follow from `VectorInv` |

**DocumentService**, for any worlds, clients and shapes:

| theorem | argument |
|---|---|
| `ServiceIsLifecycle` | each step of the service is a step of the lifecycle or a stutter (`ServiceStep`), so that all theorems above hold of it |
| `RowsTell` | `OfferedKept`, through `ServiceIsLifecycle`. `RowInv`: sections behind an unhashed row are of an overlapped document, as is every document that a no-retention upload is about to overwrite, and a no-retention upload past its lookup found no row (`Settled`). `UnforcedInv`: while nothing is forced, no upload past its lookup found a row, and sections are of structured documents only. Two uploads of one content that both found none are in it: what each commits depends on the content and on retention alone |
| `QuietAgree` | `SoundInv`: while nothing fails, sections of a document with text have all its vectors, or some upload is about to embed or upsert them (`Provided`), and no rollback is ever due |

**DocumentReaders**, for any readers, processes and sizes of the cache:

| theorem | argument |
|---|---|
| `ReadersAreLifecycle` | readers only look and writers are the lifecycle's, so that all theorems about the stores hold beside readers |
| `ErasedIsHidden` | `HiddenInv`: a read of a document erased before it began has found no record, and so is never about to select sections; an erased document stays erased (`ErasedStays`) |
| `ReadersTypeCorrect` | `TypeOK` of the lifecycle with the types of readers and caches; the bound on a cache, since an entry is only added after one was removed from a full one, and the entries of a cache are of different documents |
| `AnswersReadable` | `ReadableInv`: between the two transactions a document found live stays live, or is erased with the sections it had (`RowsStay`); so what the second one reads was readable at one moment |

**Structure**, for files of any size and any bookmarks:

| theorem | argument |
|---|---|
| `SectionsTile` | `PageRangesTile` shows of the operator `PageRanges`, for any sequence of anchors and any count, that its sections tile: an end page is one less than the least later start (`MinIsLeast`), and a page lies in the section of the greatest start not above it (`GreatestBelow`, from well-foundedness). `ExtractInv` adds that the count does not change once there are sections |
| `TypeCorrect` | `TypeOK` with `ExtractInv`; a survivor's title is the title of some anchor, its pages are pages of the file (`PageRangesType`), and fewer pages are counted than were read |
| `BookmarksAreHeard` | `HeardInv`: after extraction, the sections are those of the bookmarks (`Native`) if there are any, and otherwise the scenario is not A. Those sections are one for each page named, with the title of the first bookmark there (`FirstAnchor`, `SectionsAreNamed`); there are none only if no two bookmarks name different pages (`NoSectionsNoStarts`) |
| `TextIsKept` | `ChunkInv`: a file is chunked once, all of it, or not at all. Both the chunks read in order (`ChunkTextIs`) and the text of the pages are sequences of words that rise by page and place, and hold the same words: those of the pages that parsed in some section, which are all from the first start to the last page counted, as the sections tile. A rising sequence is determined by what it holds (`RisingUnique`) |
| `BoundsAreKept` | `ChunkInv` with `AllChunksAre`: windows cut a text of any length into pieces of the maximum and one remainder (`CutIs`, `WindowIs`), so that the chunks of a section lie in it and only the last is short; the check of the bounds then never fails (`BoundsHold`) |

**Router**, for any documents, sections, replies, thresholds and caps, from one
invariant, `RouterInv` = `TypeInv`, `AdmitInv` (a table of contents is only read
when all records asked for are there, so nothing was asked of the model for a
request that is refused) and `MergeInv` (an answer is the merge of what each
document contributes, from replies that no longer change):

| theorem | argument |
|---|---|
| `RouterTypeCorrect` | `TypeInv` and `AdmitInv`; what is shown is made of items (`EntriesAre`, `MergedIs`) |
| `FallbackHonest` | a document contributes nothing exactly if its reply ranks no section of the table that is high enough (`SelectedIs`, `ContributionIs`), and the merge is empty exactly if every contribution is |
| `SelectionFollows` | a contribution is a band of the reply by descending confidence, equals as the reply ranks them, cut at the cap (`EligibleAre`, `DescendingIs`, `CappedIs`); its items come in that order in the merge, since an emission index is the place in the contribution (`EmissionIs`) |
| `MergeFair` | what is shown is the first items of the merge, each once (`MergedOnce`), representatives first, so that every document with something to show is heard before one is heard twice. The entries merged do not depend on the order in which documents are named, and the order of the keys is total, so the merge does not either (`OrderIsNaught`) |

**AnswerStream**, for any number of turns and tokens:

| theorem | inductive invariant |
|---|---|
| `TypeCorrect` | `TypeOK` |
| `ComposerFollows` | `ComposerInv`: the property, nothing of a turn that was not asked yet (`NoneAhead`), and no current stream once unmounted |
| `TextIsGenerated` | `TextInv`: the tokens shown and the frames on the wire are no more than the tokens sent and the end frame; a turn that shows its final answer has every token sent, and its wire is empty |
| `TurnsTell` | `EndInv` with `WireInv` (an end frame is the last on the wire, its handler is closed, and a response only ends behind one): a turn is cancelled only when it is done and has no terminal frame. `FinalInv` with `TextInv`: an error is shown by a stream that has ended or by its last frame, so no answer comes behind one; behind an answer nothing is left to read, so an error is that of a broken response, which stays broken |
| `AbortIsSilent` | an action property from `TypeOK`: a frame is read, and a failure reported, only of a turn that is not aborted, a refusal aside (`SettleStep`) |

**RateLimiter**, for any buckets, threads, limits and delays:

| theorem | inductive invariant |
|---|---|
| `TypeCorrect` | `TypeOK` with `PastInv` (a call counts with a time that has been); the bound on the table, part of `TypeOK`, since a full table is halved before a bucket is added (`RoomIsMade`) |
| `BudgetIsKept` | `LimiterInv` = `TypeOK`, `PastInv`, `LateInv` (a call is late by the delay at most), `CountIsOfHits` and `HitsBounded`: what the current window says of the hits of the bucket. Since its start there are at most as many as it counts; in any stretch that reaches back before it, at most as many as windows may have begun in the stretch. It is kept by a tick (`BoundsTick`), a hit (`BoundsHit`) and a new window (`BoundsOpen`), and gives the budget (`BoundsBudget`). Sums over ages are handled by `RunningSumIs` and what shifting and adding do to them |
| `RefusalIsEarned` | `CountIsOfHits`: the count of a window is made of hits since its start, so a full one was filled by hits that are not older than a window and the delay |

**ColdStart**, for any threads, collaborators, keys and fields:

| theorem | inductive invariant |
|---|---|
| `TypeCorrect` | `CellInv` = `TypeOK`, `LocksAreHeld` (a lock's depth is the number of `with` blocks its holder is in, which is computed from where its thread stands, and nobody else is in one), `JobInv` (a thread that builds finds its cell empty; one that returns finds it full; one that uses keys holds the store everybody else does). Two threads that build one cell would both hold its lock (`OneBuilder`), so the check under the lock stays true while the build goes on |
| `ImplementsOnceCells` | each step maps to `Fill`, `Hand` or a stutter, from `CellInv` |
| `KeysResolve` | `KeyInv`: the records are those of the issued keys, in the one store there is; a store is handed out before any key is |
| `ReportsAreTrue` | `RunInv`: a run at its indexes has a collection that fits, and what it has done is indexed; nothing deletes either |

**LibraryScreens**, for any number of documents and of calls in flight:

| theorem | inductive invariant |
|---|---|
| `FlagsTell` | `ShapeInv` (every call has a taker that fits it) and `WorkInv`: a flag is up exactly if a call of its kind is in flight, and at most one is, unless two have overlapped; the flag goes down when one ends |
| `ScreensTypeCorrect` | `ShapeInv`, `FetchInv` and `TypeInv`: lists and pages are of the library's size, as it is or was with one document more (`PagesFit`, `LibraryShrinks`) |
| `ScreensAreHonest` | of the reader's half, `FetchInv` (one awaited fetch at most, for the document named, and none in the library) and `HonestInv` (contents kept are the named document's, or were kept across a change of document). Of the library's half, `CurrentInv`: while nothing went wrong, every call that will reload reloads the page shown, and unless an upload or erasure was answered whose reload is still to come (`Changed`), any list on its way is current and, with none on its way, so is the list shown (`ListsAreCurrent`). A change at the server makes lists stale and is such an answer in the same step (`ServeCurrent`) |

Only model-checked: liveness (`ForcedRetryRepairs`, `TurnsSettle`, `LocksAreFreed`, `ScreensSettle`), which needs fairness and `ENABLED`, and these
the prover does not do.

No module declares a RECURSIVE operator.

## 6. Where the code and its comments disagree

Shown by a run that finds the comment's claim violated:

- **FindNoRepair** — a crash between commit and upsert is said to be
  "retriable" (`pipeline.py:479-480`, `514-515`). The committed row carries the
  hash, so each later upload is answered as a duplicate (`pipeline.py:454`) and
  never upserts. Only `force_reingest` gets past it (`ForcedRetryRepairs`, run `Lifecycle`), and
  nothing in `src/` sets it.
- **FindRollbackLoss** — the rollback is said to keep Qdrant consistent with
  Postgres (`pipeline.py:512-513`). It deletes by document, and so also what a
  concurrent identical upload was acknowledged for.
- **FindStaleToc** — after an upload "the next routing call … rebuilds its TOC
  projection" (`graph.py:131-133`). A routing request that read a no-retention
  row, without sections, before a retained upload of the same bytes committed may
  fill the cache after the invalidation, and later ones are prompted with it.
- **FindLostPages** — a section dropped for its start page "loses no content"
  (`toc_extractor.py:175-177`). When a page fails to parse, pages keep their
  numbers but the count shrinks (`parser.py:172`), later starts are clamped onto
  one page, and the last pages are in no section and no chunk.

Met while modelling, as the models have it, without a run of their own; where a
passing property makes an exception of one, it is named:

- No-retention processing is to "purge raw + chunks + sections after ingest"
  (`openapi.yaml:872`), and a no-retention duplicate is to leave an existing
  document's row alone (`pipeline.py:528-529`). Whether it is a duplicate was
  looked up before parsing: a retained upload of the same bytes that commits in
  between has its row overwritten (`pipeline.py:553`): ephemeral, no hash, another
  region, over its sections (`overlapped`, in `RowTellsWhatIsKept`).
- "Only true same-start duplicates are dropped" (`toc_extractor.py:18-20`). For
  the reason of `FindLostPages`, bookmarks of two pages that parsed may be clamped
  onto one, and the second is dropped, or the bookmarks are given up
  (`BookmarksHeard` is about the pages after clamping).
- "A deliberate abort stays silent on every path" (`sse.ts:250-252`). While the
  body of a refusal is read the signal is not looked at again (`sse.ts:295`), and
  the cancelled turn shows an error (`AbortStaysSilent`).
- The final event is "terminal" (`sse.ts:10`, `:245`). A connection that breaks
  between it and the end of the body is reported as an error (`sse.ts:328-333`),
  in a turn that shows its answer (`FinalIsTerminal`, in `TurnsEndHonestly`).
- An erased content can never be uploaded again by its tenant: ids are
  deterministic and the tombstoned row refuses it with 409
  (`stores.py:241-248`), though a comment on the partial index permits it
  (`models.py:121-124`).
- A no-retention upload leaves a row although no rows are said to be persisted
  (`pipeline.py:60-61`).
- Two concurrent uploads of the same bytes may both be answered 201
  (`ingestor.py:147-149` says this is eliminated).
- A forced re-ingest may leave a row "indexed" without sections
  (`pipeline.py:548`); hence that half of `RowTellsWhatIsKept` is about uploads
  that are not forced.
- No worker in `src/` reads `erasure_outbox` (`models.py:191-193`).
- The fallback embedder's 1024 dimensions never pass the check for 1536, so a
  fallback always ends in `EmbedderDimensionError`.
- A file all of whose pages fail has `total_pages` 0 and is answered 409 "still
  being indexed" by `/route` for ever (`routing.py:132-146`).
- Bookmarks that all point to one page lead to header detection, not to
  scenario C; pages before the first section are in none.
- COUNT and page of a list are two snapshots (`document_store.py:150-152`).
- The frame of a stopping server is no RFC 7807 problem (`answer.py:154-157`) and
  is shown as a malformed stream.
- `Retry-After` is truncated (`rate_limit.py:87`) and may be up to a second
  early.
- Eviction removes windows that are still current, oldest start first
  (`rate_limit.py`), so a bucket that is evicted, or a call that was waiting for
  the lock and reopens an old window, may get more than the budget: `BudgetHolds`
  excepts it (`forgotten`).
- Section ids that a reply ranks twice are not merged.
- `_dispose_engines` disposes "all SQLAlchemy engine connection pools"
  (`dependencies.py:194-196`), but looks for an attribute `_engine` that the
  document store does not have, and at the ingestor's engine not at all.
- A second provisioning run that loses the race to create the collection fails
  there, before it ensures any index; if the winner dies next, indexes are
  missing until somebody runs it again.

The web client's screens, as `LibraryScreens` has them; where a property makes an
exception, this is why:

- `uploading` is "whether an upload is in progress" (`UploadDropzone.tsx:22`). The
  first of two overlapping uploads to end clears it (`UploadLibraryScreen.tsx:105`).
- The screen renders the contents of "the open document"
  (`DocumentViewScreen.tsx:19-25`). After a change of document, a fetch that fails
  with no `ApiError` leaves the former's contents under the new title (`:53`).
- The answer that an upload is a duplicate opens that document from any screen,
  also from a chat (`UploadLibraryScreen.tsx:70`).
- An upload or erasure reloads the page of the closure that began it, and the
  list that arrives last is shown, whatever page was asked for last (`:43`,
  `:100`, `:116`). The pager counts from the list shown, so that the next click
  may set the page it is on already, and do nothing.
- Erasing the last document of the last page reloads a page that is no more: the
  API answers 422 (`documents.py:284-293`) and the erased document stays listed.
- A first load that fails leaves the skeleton, as there is no list (`:153`).
- A change of document keeps the selected section of the former
  (`DocumentViewScreen.tsx:66`).
- No screen leads back to the library.

## 7. What is not modelled

Prompts, hashes, formatting, logging, latency and token estimates: no property
depends on them. Verification of tokens (a function of libraries; the tenant it
yields is a parameter). Settings, wiring, the rendering of errors, health probes
and shutdown of the application. Migrations as programs. Metrics, tracing and the
ROI calculator, which influence no request. Rendering, toasts and the export of
the web client. Documentation tooling and deployment files.

Data is abstracted: contents to their shape, a document's points to none, part
or all, confidences and times to small numbers, keys and documents to names.
Errors inside a transaction are one outcome (rolled back), except the lost reply
of a commit. `Retry-After` is not modelled: the limiter's clock has whole ticks.
That COUNT and page of a list may disagree is what `DocumentReaders` has, and no
property can hold of it; `LibraryScreens` takes a list as one read.

## 8. Plan

Done, in this order: `DocumentLifecycle` with `ErasableStore` and, around it,
`DocumentService` (the most important behaviour: two stores without a common
commit), their proofs; `AnswerStream`; `RateLimiter`; `DocumentReaders` (composes
the lifecycle with readers and caches); `Router`; `Structure`, its proofs;
`ColdStart` with `OnceCells`, its proofs; `LibraryScreens`.

The proofs of `DocumentReaders`, `AnswerStream`, `RateLimiter`,
`LibraryScreens` and `Router` followed, and those of the limiter's budget, of the
chunker and of what the screens' lists show, which needed `SequenceLemmas`.

Left to prove: nothing that a passing run checks but liveness. What could still be said
more strongly is a refinement of the answer stream (a turn as a request that is
answered once) and an abstract limiter that `RateLimiter` implements. No component
is left that is the service's own logic and not in a module.

## 9. How to run

    tlc -config Router.cfg Router.tla           # a run: see PROJECT.json
    tlapm DocumentProofs.tla                    # the proofs

`Lifecycle` and `FindNoRepair` use `MCDocumentService.tla`, `FindRollbackLoss`
`MCDocumentLifecycle.tla`, `ColdStart` `MCColdStart.tla`, and so on: PROJECT.json
names the module of each run. `Readers.cfg` has a `VIEW` that leaves out the
outbox, the vectors and the writers' history, which no step and no property of
that run reads. `RateLimiter.cfg` and it use `SYMMETRY`; both check safety
properties only.
