---------------------------- MODULE LibraryScreens ----------------------------
(***************************************************************************)
(* The screens of the web client between which a user moves: the library    *)
(* with its dropzone, a document with its table of contents, its chat (of   *)
(* which AnswerStream models the conversation).  They call the API, which   *)
(* answers in its own time, and each answer goes to the closure that        *)
(* awaits it, whatever the user has done meanwhile.                         *)
(*                                                                          *)
(* An answer is handled to its last statement before anything else runs in  *)
(* the browser.  One user has one window; tables of contents, records and   *)
(* documents are named by their document.  Toasts and the export, which     *)
(* change nothing else, are left out.                                       *)
(***************************************************************************)
EXTENDS Naturals, Sequences, SequencesExt

CONSTANTS
  Docs,
  NoDoc,
  PageSize,   \* documents on a page of the list, 20 in the code
  MaxCalls    \* bound on the calls in flight

ASSUME ConstantsAssumption ==
  /\ IsFiniteSet(Docs) /\ Docs # {} /\ NoDoc \notin Docs
  /\ PageSize \in Nat \ {0} /\ MaxCalls \in Nat \ {0}

Slots == 1..MaxCalls

Names == Docs \cup {NoDoc}

(* DocumentListResponse: a page and how many there are.  Page 0: null.      *)
NoList == [page |-> 0, pages |-> 0, docs |-> <<>>]

(* for: who takes the answer.  The effect of a screen, an upload or an      *)
(* erasure, which reload page once they are answered, or nobody any more.   *)
NoCall == [kind |-> "none", doc |-> NoDoc, page |-> 0, for |-> "nobody",
           reply |-> "none", list |-> NoList]

Calling(kind, for, doc, page) ==
  [NoCall EXCEPT !.kind = kind, !.for = for, !.doc = doc, !.page = page]

VARIABLES
  library,   \* the server's documents, oldest first
  erased,    \* those erased from it
  calls,     \* the API calls in flight
  view,      \* App's view state
  shelf,     \* UploadLibraryScreen's state while it is mounted
  reader,    \* DocumentViewScreen's, or ChatScreen's, while mounted
  mishaps    \* History: what may leave the library out of date

server == <<library, erased>>
screens == <<view, shelf, reader>>
vars == <<server, calls, screens, mishaps>>

FreshShelf == [list |-> NoList, loading |-> TRUE, uploading |-> FALSE,
               page |-> 1]

(* lost and swapped are history: the effect's own fetch failed without an   *)
(* answer; the document was changed while the screen stayed mounted.        *)
FreshReader == [toc |-> NoDoc, loading |-> FALSE, error |-> FALSE,
                selected |-> NoDoc, lost |-> FALSE, swapped |-> FALSE]

Init ==
  /\ \E n \in 0..Cardinality(Docs) : library = SubSeq(SetToSeq(Docs), 1, n)
  /\ erased = {}
  /\ calls = [s \in Slots |-> IF s = 1
                              THEN Calling("list", "screen", NoDoc, 1)
                              ELSE NoCall]
  /\ view = [name |-> "library", doc |-> NoDoc]
  /\ shelf = FreshShelf
  /\ reader = FreshReader
  /\ mishaps = {}

InLibrary == view.name = "library"

(* The library does not come back once it was left, nor do its mishaps.     *)
Suffer(new) == mishaps' = IF InLibrary THEN mishaps \cup new ELSE mishaps

-----------------------------------------------------------------------------
(* The server.                                                              *)

Pages(lib) == (Len(lib) + PageSize - 1) \div PageSize

ListOf(lib, p) ==
  [page |-> p, pages |-> Pages(lib),
   docs |-> SubSeq(lib, (p - 1) * PageSize + 1,
                   IF p * PageSize < Len(lib) THEN p * PageSize ELSE Len(lib))]

Beyond(lib, p) == p > 1 /\ p > Pages(lib)

Kept(d) == d \in ToSet(library)

Reply(s, answer) == calls' = [calls EXCEPT ![s].reply = answer]

Waiting(s, kinds) == calls[s].kind \in kinds /\ calls[s].reply = "none"

(* A page past the last is refused, but for the first.  DocumentReaders     *)
(* has the two SELECTs of a list, which are one step here.                  *)
AnswerList(s) ==
  /\ Waiting(s, {"list"})
  /\ IF Beyond(library, calls[s].page)
       THEN Reply(s, "refused")
       ELSE calls' = [calls EXCEPT ![s].reply = "ok",
                                   ![s].list = ListOf(library, calls[s].page)]
  /\ UNCHANGED <<server, screens, mishaps>>

AnswerRecord(s) ==
  /\ Waiting(s, {"get", "toc"})
  /\ Reply(s, IF Kept(calls[s].doc) THEN "ok" ELSE "refused")
  /\ UNCHANGED <<server, screens, mishaps>>

(* An upload of what is there is a duplicate, but where either was made     *)
(* without retention; of what was erased, it is refused.                    *)
AnswerUpload(s) ==
  LET d == calls[s].doc
  IN /\ Waiting(s, {"upload"})
     /\ \/ Kept(d) /\ Reply(s, "duplicate") /\ UNCHANGED library
        \/ Kept(d) /\ Reply(s, "ok") /\ UNCHANGED library
        \/ d \in erased /\ Reply(s, "refused") /\ UNCHANGED library
        \/ /\ ~Kept(d) /\ d \notin erased
           /\ Reply(s, "ok")
           /\ library' = Append(library, d)
     /\ UNCHANGED <<erased, screens, mishaps>>

AnswerErase(s) ==
  LET d == calls[s].doc
  IN /\ Waiting(s, {"erase"})
     /\ IF Kept(d)
          THEN /\ library' = RemoveAt(library, CHOOSE i \in DOMAIN library :
                                                  library[i] = d)
               /\ erased' = erased \cup {d}
               /\ Reply(s, "ok")
          ELSE Reply(s, "refused") /\ UNCHANGED server
     /\ UNCHANGED <<screens, mishaps>>

(* The list is refused for another reason than its page, an erasure or an   *)
(* upload before it did anything.                                           *)
RefuseCall(s) ==
  /\ calls[s].kind # "none" /\ calls[s].reply = "none"
  /\ Reply(s, "refused")
  /\ Suffer({"failed" : k \in {calls[s].kind} \cap {"list"}})
  /\ UNCHANGED <<server, screens>>

(* fetch rejects, or the body is not what it should be; the server may have *)
(* done what it was asked.  But for contents, only a toast tells this from  *)
(* a refusal.                                                               *)
LoseCall(s) ==
  LET outcome == IF calls[s].kind = "toc" THEN "lost" ELSE "refused"
  IN /\ calls[s].kind # "none" /\ calls[s].reply # outcome
     /\ calls' = [calls EXCEPT ![s].reply = outcome, ![s].list = NoList]
     /\ Suffer({"failed" : k \in {calls[s].kind}
                                \cap {"list", "upload", "erase"}})
     /\ UNCHANGED <<server, screens>>

-----------------------------------------------------------------------------
(* What the library shows.                                                  *)

Shown(list) == ToSet(list.docs)

(* The grid replaces the skeleton when nothing loads and a list is there.   *)
GridShown == InLibrary /\ ~shelf.loading /\ shelf.list # NoList

InFlight(kinds) == {s \in Slots : calls[s].kind \in kinds}

Uploads == {s \in Slots : calls[s].kind = "upload" \/ calls[s].for = "upload"}

(* Slots are all alike: the first that is free is taken.                    *)
Free(s) == calls[s] = NoCall /\ \A t \in 1..(s - 1) : calls[t] # NoCall
Send(s, call) == calls' = [calls EXCEPT ![s] = call]

(* The dropzone takes a file at any time, also while one is uploaded.       *)
PickFile(s, d) ==
  /\ InLibrary
  /\ Free(s)
  /\ Send(s, Calling("upload", "upload", d, shelf.page))
  /\ shelf' = [shelf EXCEPT !.uploading = TRUE]
  /\ Suffer({"uploads crossed" : t \in Uploads})
  /\ UNCHANGED <<server, view, reader>>

ConfirmErase(s, d) ==
  /\ GridShown
  /\ d \in Shown(shelf.list)
  /\ Free(s)
  /\ Send(s, Calling("erase", "erase", d, shelf.page))
  /\ UNCHANGED <<server, screens, mishaps>>

(* The pager counts from the list that is shown, and an empty one has none. *)
(* Only another value of the state runs the effect.                         *)
TurnPage(s, p) ==
  /\ GridShown
  /\ shelf.list.docs # <<>>
  /\ p + 1 = shelf.list.page \/ p = shelf.list.page + 1
  /\ p # shelf.page
  /\ Free(s)
  /\ Send(s, Calling("list", "screen", NoDoc, p))
  /\ shelf' = [shelf EXCEPT !.page = p, !.loading = TRUE]
  /\ Suffer({"loads crossed" : t \in InFlight({"list", "upload", "erase"})})
  /\ UNCHANGED <<server, view, reader>>

-----------------------------------------------------------------------------
(* The screens of one document.                                             *)

(* Faulty: the effect has no cleanup.                                       *)
AbandonedNever == calls

(* The cleanup of an effect clears its active flag.                         *)
Abandoned ==
  [t \in Slots |-> IF calls[t].kind = "toc"
                   THEN [calls[t] EXCEPT !.for = "nobody"] ELSE calls[t]]

(* setView: the library unmounts, a document screen that is mounted stays   *)
(* and is given another document; only then does its effect run again,      *)
(* which leaves the former contents and selection.                          *)
OpenDocument(s, d) ==
  /\ view' = [name |-> "document", doc |-> d]
  /\ shelf' = FreshShelf
  /\ mishaps' = {}
  /\ IF view' = view
       THEN calls' = [calls EXCEPT ![s] = NoCall] /\ UNCHANGED reader
       ELSE /\ calls' = [Abandoned EXCEPT ![s] =
                           Calling("toc", "screen", d, 0)]
            /\ reader' = IF view.name = "document"
                         THEN [reader EXCEPT !.loading = TRUE, !.error = FALSE,
                                             !.lost = FALSE, !.swapped = TRUE]
                         ELSE [FreshReader EXCEPT !.loading = TRUE]

OpenCard(s, d) ==
  /\ GridShown
  /\ d \in Shown(shelf.list)
  /\ Free(s)
  /\ OpenDocument(s, d)
  /\ UNCHANGED server

ContentsShown ==
  /\ view.name = "document"
  /\ ~reader.loading /\ ~reader.error
  /\ reader.toc # NoDoc

SelectSection ==
  /\ ContentsShown
  /\ reader' = [reader EXCEPT !.selected = reader.toc]
  /\ UNCHANGED <<server, calls, view, shelf, mishaps>>

StartChat(s) ==
  /\ ContentsShown
  /\ Free(s)
  /\ view' = [view EXCEPT !.name = "chat"]
  /\ reader' = FreshReader
  /\ calls' = [Abandoned EXCEPT ![s] = Calling("toc", "screen", view.doc, 0)]
  /\ UNCHANGED <<server, shelf, mishaps>>

-----------------------------------------------------------------------------
(* Answers reach the code that awaits them.                                 *)

Answered(s, kind) == calls[s].kind = kind /\ calls[s].reply # "none"
Ok(s) == calls[s].reply = "ok"
Over(s) == calls' = [calls EXCEPT ![s] = NoCall]

(* Setting the state of a screen that is gone does nothing.                 *)
OnShelf(new) == shelf' = IF InLibrary THEN new ELSE shelf

(* loadPage: also when the page has been turned since.                      *)
LoadPage(s) ==
  /\ Send(s, Calling("list", calls[s].for, NoDoc, calls[s].page))
  /\ OnShelf([shelf EXCEPT !.loading = TRUE])
  /\ Suffer({"loads crossed" : t \in InFlight({"list"})})

(* Faulty: the flag that shows a load is cleared on success only.           *)
ListArrivesOnSuccess(s) ==
  /\ Answered(s, "list")
  /\ OnShelf([shelf EXCEPT
       !.list = IF Ok(s) THEN calls[s].list ELSE @,
       !.loading = IF Ok(s) THEN FALSE ELSE @,
       !.uploading = IF calls[s].for = "upload" THEN FALSE ELSE @])
  /\ Over(s)
  /\ UNCHANGED <<server, view, reader, mishaps>>

(* The last list to arrive is shown, whichever was asked for last; with it  *)
(* ends the upload or erasure that asked for it.                            *)
ListArrives(s) ==
  /\ Answered(s, "list")
  /\ OnShelf([shelf EXCEPT
       !.list = IF Ok(s) THEN calls[s].list ELSE @,
       !.loading = FALSE,
       !.uploading = IF calls[s].for = "upload" THEN FALSE ELSE @])
  /\ Over(s)
  /\ UNCHANGED <<server, view, reader, mishaps>>

(* Faulty: the flag is cleared when the file is sent, before the reload.    *)
UploadSentIsOver(s) ==
  /\ Answered(s, "upload") /\ Ok(s)
  /\ Send(s, Calling("list", "upload", NoDoc, calls[s].page))
  /\ OnShelf([shelf EXCEPT !.loading = TRUE, !.uploading = FALSE])
  /\ Suffer({"loads crossed" : t \in InFlight({"list"})})
  /\ UNCHANGED <<server, view, reader>>

UploadStored(s) ==
  /\ Answered(s, "upload") /\ Ok(s)
  /\ LoadPage(s)
  /\ UNCHANGED <<server, view, reader>>

UploadIsDuplicate(s) ==
  /\ Answered(s, "upload") /\ calls[s].reply = "duplicate"
  /\ Send(s, Calling("get", "upload", calls[s].doc, 0))
  /\ UNCHANGED <<server, screens, mishaps>>

(* The upload failed, or the document it duplicates cannot be read.         *)
UploadFails(s) ==
  /\ \/ Answered(s, "upload") /\ calls[s].reply = "refused"
     \/ Answered(s, "get") /\ ~Ok(s)
  /\ OnShelf([shelf EXCEPT !.uploading = FALSE])
  /\ Over(s)
  /\ UNCHANGED <<server, view, reader, mishaps>>

(* From whatever screen the user has gone to.                               *)
DuplicateOpens(s) ==
  /\ Answered(s, "get") /\ Ok(s)
  /\ OpenDocument(s, calls[s].doc)
  /\ UNCHANGED server

(* Faulty: the list is left as it was.                                      *)
EraseWithoutReload(s) ==
  /\ Answered(s, "erase")
  /\ Over(s)
  /\ UNCHANGED <<server, shelf, view, reader, mishaps>>

EraseEnds(s) ==
  /\ Answered(s, "erase")
  /\ IF Ok(s) THEN LoadPage(s) ELSE Over(s) /\ UNCHANGED <<shelf, mishaps>>
  /\ UNCHANGED <<server, view, reader>>

(* Faulty: nobody looks at the active flag.                                 *)
TakesAnyToc(s) == TRUE

TakesToc(s) == calls[s].for # "nobody"

(* DocumentViewScreen: without a Problem there is no error to show.  Chat   *)
(* shows no contents when they cannot be fetched.                           *)
TocArrives(s) ==
  /\ Answered(s, "toc")
  /\ Over(s)
  /\ reader' =
       IF TakesToc(s)
         THEN [reader EXCEPT
                 !.toc = IF Ok(s) THEN calls[s].doc ELSE @,
                 !.loading = FALSE,
                 !.error = view.name = "document" /\ calls[s].reply = "refused",
                 !.lost = calls[s].reply = "lost"]
         ELSE reader
  /\ UNCHANGED <<server, view, shelf, mishaps>>

-----------------------------------------------------------------------------
Serve(s) ==
  \/ AnswerList(s) \/ AnswerRecord(s) \/ AnswerUpload(s) \/ AnswerErase(s)
  \/ RefuseCall(s) \/ LoseCall(s)

Deliver(s) ==
  \/ ListArrives(s) \/ UploadStored(s) \/ UploadIsDuplicate(s)
  \/ UploadFails(s) \/ DuplicateOpens(s) \/ EraseEnds(s) \/ TocArrives(s)

User(s) ==
  \/ \E d \in Docs : PickFile(s, d) \/ ConfirmErase(s, d) \/ OpenCard(s, d)
  \/ \E p \in 1..shelf.list.pages : TurnPage(s, p)
  \/ StartChat(s)

Next == SelectSection \/ \E s \in Slots : Serve(s) \/ Deliver(s) \/ User(s)

(* A call is answered or fails at last, and its answer is handled.          *)
FairSpec ==
  /\ Init
  /\ [][Next]_vars
  /\ \A s \in Slots : WF_vars(Serve(s)) /\ WF_vars(Deliver(s))

-----------------------------------------------------------------------------
(* Properties.                                                              *)

Call == [kind: {"none", "list", "upload", "erase", "get", "toc"},
         doc: Names, page: 0..Cardinality(Docs),
         for: {"nobody", "screen", "upload", "erase"},
         reply: {"none", "ok", "duplicate", "refused", "lost"},
         list: [page: 0..Cardinality(Docs), pages: 0..Cardinality(Docs),
                docs: Seq(Docs)]]

(* The state is well typed; no document is listed twice; and one call at    *)
(* most fetches the contents of the screen that is open.                    *)
TypeOK ==
  /\ library \in Seq(Docs) /\ IsInjective(library)
  /\ erased \subseteq Docs /\ erased \cap ToSet(library) = {}
  /\ calls \in [Slots -> Call]
  /\ view.name \in {"library", "document", "chat"}
  /\ view.doc \in Names /\ (view.doc = NoDoc <=> InLibrary)
  /\ shelf.page \in 1..Cardinality(Docs)
  /\ {shelf.loading, shelf.uploading} \subseteq BOOLEAN
  /\ {reader.toc, reader.selected} \subseteq Names
  /\ {reader.loading, reader.error} \subseteq BOOLEAN
  /\ \A s, t \in Slots :
       /\ calls[s].kind = "toc" /\ calls[s].for = "screen"
       /\ calls[t].kind = "toc" /\ calls[t].for = "screen"
       => s = t /\ calls[s].doc = view.doc

FetchesToc(s) == calls[s].kind = "toc" /\ calls[s].for = "screen"

(* What the screens say of work in progress is so: a load, an upload or the *)
(* fetch of contents that is shown is in flight, and, unless one began      *)
(* while another ran, what is in flight is shown.                           *)
FlagsFollowCalls ==
  /\ InLibrary =>
       /\ shelf.loading => InFlight({"list"}) # {}
       /\ shelf.uploading => Uploads # {}
       /\ InFlight({"list"}) # {} => shelf.loading \/ "loads crossed" \in mishaps
       /\ Uploads # {} => shelf.uploading \/ "uploads crossed" \in mishaps
  /\ view.name = "document" =>
       (reader.loading <=> \E s \in Slots : FetchesToc(s))

(* Contents shown under the name of a document are that document's, however *)
(* late the answers of another come, unless the fetch for this one failed   *)
(* without an answer; and so is the section that is selected, unless an     *)
(* upload's late answer changed the document under the user.                *)
ReaderShowsWhatItNames ==
  /\ ContentsShown => reader.toc = view.doc \/ reader.lost
  /\ view.name = "chat" => reader.toc \in {NoDoc, view.doc}
  /\ view.name = "document" =>
       reader.selected \in {NoDoc, view.doc} \/ reader.swapped

(* When nothing is in flight the list shown is the server's page of the     *)
(* number the library is on, unless that page is no more, two loads crossed,*)
(* the page was turned before an upload or erasure had ended, or a call     *)
(* failed.                                                                  *)
LibraryIsCurrent ==
  /\ GridShown
  /\ InFlight({"list", "upload", "erase"}) = {}
  /\ mishaps \subseteq {"uploads crossed"}
  => shelf.list = ListOf(library, shelf.page) \/ Beyond(library, shelf.page)

(* What is on screen is what the screen says it is.                         *)
ScreensShowWhatTheyName == ReaderShowsWhatItNames /\ LibraryIsCurrent

(* What is shown as in progress ends: the upload, the fetch of contents,    *)
(* and the skeleton, which gives way to the grid unless a list failed and   *)
(* none had come before it; then it stays though nothing loads              *)
(* (UploadLibraryScreen.tsx:153).                                           *)
SkeletonShown == InLibrary /\ (shelf.loading \/ shelf.list = NoList)

ScreensSettle ==
  /\ SkeletonShown ~> \/ ~SkeletonShown
                      \/ ~shelf.loading /\ "failed" \in mishaps
  /\ shelf.uploading ~> ~shelf.uploading
  /\ reader.loading ~> ~reader.loading

=============================================================================
