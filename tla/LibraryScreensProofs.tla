------------------------- MODULE LibraryScreensProofs -------------------------
(***************************************************************************)
(* What the screens show of work in progress, and of whom, for any number   *)
(* of documents and calls in flight, any size of page, and any order in     *)
(* which calls are answered, refused or lost.                               *)
(***************************************************************************)
EXTENDS LibraryScreens, SequenceLemmas, FiniteSetTheorems

-----------------------------------------------------------------------------
(* The shape of the state: every call knows who takes its answer.           *)

CallWith(d, p, l) ==
  [kind: {"none", "list", "upload", "erase", "get", "toc"},
   doc: {d}, page: {p}, for: {"nobody", "screen", "upload", "erase"},
   reply: {"none", "ok", "duplicate", "refused", "lost"}, list: {l}]

TakerFits(c) ==
  /\ c.kind \in {"upload", "get"} => c.for = "upload"
  /\ c.for = "upload" => c.kind \in {"upload", "get", "list"}
  /\ c.kind = "toc" => /\ c.for \in {"screen", "nobody"}
                       /\ c.reply \in {"none", "ok", "refused", "lost"}

IsCall(c) == TakerFits(c) /\ \E d, p, l : c \in CallWith(d, p, l)

IsShelf(x) ==
  /\ x = [list |-> x.list, loading |-> x.loading, uploading |-> x.uploading,
          page |-> x.page]
  /\ x.loading \in BOOLEAN /\ x.uploading \in BOOLEAN

IsReader(x) ==
  /\ x = [toc |-> x.toc, loading |-> x.loading, error |-> x.error,
          selected |-> x.selected, lost |-> x.lost, swapped |-> x.swapped]
  /\ x.loading \in BOOLEAN /\ x.error \in BOOLEAN
  /\ x.lost \in BOOLEAN /\ x.swapped \in BOOLEAN

ShapeInv ==
  /\ calls = [s \in Slots |-> calls[s]]
  /\ \A s \in Slots : IsCall(calls[s])
  /\ IsShelf(shelf)
  /\ IsReader(reader)
  /\ view = [name |-> view.name, doc |-> view.doc]

LEMMA CallingIs ==
  ASSUME NEW k \in {"none", "list", "upload", "erase", "get", "toc"},
         NEW f \in {"nobody", "screen", "upload", "erase"},
         NEW d, NEW p
  PROVE  LET c == Calling(k, f, d, p)
         IN /\ c \in CallWith(d, p, NoList)
            /\ c.kind = k /\ c.for = f /\ c.doc = d /\ c.page = p
            /\ c.reply = "none"
<1>1. NoCall \in CallWith(NoDoc, 0, NoList) /\ NoCall.reply = "none"
  BY DEF CallWith, NoCall
<1> DEFINE a == [NoCall EXCEPT !.kind = k]
           b == [a EXCEPT !.for = f]
           c == [b EXCEPT !.doc = d]
           e == [c EXCEPT !.page = p]
<1>2. a \in CallWith(NoDoc, 0, NoList) /\ a.kind = k /\ a.reply = "none"
  BY <1>1, Zenon DEF CallWith
<1> HIDE DEF a
<1>3. /\ b \in CallWith(NoDoc, 0, NoList)
      /\ b.kind = k /\ b.for = f /\ b.reply = "none"
  BY <1>2, Zenon DEF CallWith
<1> HIDE DEF b
<1>4. /\ c \in CallWith(d, 0, NoList)
      /\ c.kind = k /\ c.for = f /\ c.doc = d /\ c.reply = "none"
  BY <1>3, Zenon DEF CallWith
<1> HIDE DEF c
<1>5. /\ e \in CallWith(d, p, NoList)
      /\ e.kind = k /\ e.for = f /\ e.doc = d /\ e.page = p /\ e.reply = "none"
  BY <1>4, Zenon DEF CallWith
<1>6. e = Calling(k, f, d, p)
  BY DEF a, b, c, Calling
<1> QED
  BY <1>5, <1>6

LEMMA CallsHaveShape ==
  /\ IsCall(NoCall) /\ NoCall.kind = "none" /\ NoCall.for = "nobody"
  /\ \A d, p : /\ IsCall(Calling("upload", "upload", d, p))
               /\ IsCall(Calling("get", "upload", d, p))
               /\ IsCall(Calling("erase", "erase", d, p))
               /\ IsCall(Calling("toc", "screen", d, p))
               /\ \A f \in {"nobody", "screen", "upload", "erase"} :
                    IsCall(Calling("list", f, d, p))
<1>1. NoCall \in CallWith(NoDoc, 0, NoList)
  BY DEF NoCall, CallWith
<1>2. IsCall(NoCall) /\ NoCall.kind = "none" /\ NoCall.for = "nobody"
  BY <1>1 DEF IsCall, TakerFits, NoCall
<1> QED
  BY <1>2, CallingIs DEF IsCall, TakerFits

Replied(c, x, l, n) ==
  n = [c EXCEPT !.reply = x] \/ n = [c EXCEPT !.reply = x, !.list = l]

(* A call that is answered, or abandoned, stays the call it is.             *)
LEMMA ReplyKeepsCall ==
  ASSUME NEW c, IsCall(c),
         NEW x \in {"ok", "duplicate", "refused", "lost"},
         c.kind = "toc" => x # "duplicate",
         NEW l, NEW n,
         Replied(c, x, l, n)
  PROVE  /\ IsCall(n)
         /\ n.kind = c.kind /\ n.for = c.for /\ n.doc = c.doc
<1> PICK d, p, m : c \in CallWith(d, p, m)
  BY DEF IsCall
<1>1. CASE n = [c EXCEPT !.reply = x]
  <2>1. n \in CallWith(d, p, m)
    BY <1>1, Zenon DEF CallWith
  <2>2. n.kind = c.kind /\ n.for = c.for /\ n.doc = c.doc /\ n.reply = x
    BY <1>1, Zenon DEF CallWith
  <2> QED
    BY <2>1, <2>2 DEF IsCall, TakerFits
<1>2. CASE n = [c EXCEPT !.reply = x, !.list = l]
  <2>1. n \in CallWith(d, p, l)
    BY <1>2 DEF CallWith
  <2>2. n.kind = c.kind /\ n.for = c.for /\ n.doc = c.doc /\ n.reply = x
    BY <1>2 DEF CallWith
  <2> QED
    BY <2>1, <2>2 DEF IsCall, TakerFits
<1> QED
  BY <1>1, <1>2 DEF Replied

LEMMA AbandonKeepsCall ==
  ASSUME NEW c, IsCall(c), c.kind = "toc"
  PROVE  LET n == [c EXCEPT !.for = "nobody"]
         IN IsCall(n) /\ n.kind = "toc" /\ n.for = "nobody"
<1> PICK d, p, m : c \in CallWith(d, p, m)
  BY DEF IsCall
<1> DEFINE n == [c EXCEPT !.for = "nobody"]
<1>1. n \in CallWith(d, p, m)
  BY Zenon DEF CallWith
<1>2. n.kind = c.kind /\ n.for = "nobody" /\ n.reply = c.reply
  BY Zenon DEF CallWith
<1> HIDE DEF n
<1>3. IsCall(n)
  BY <1>1, <1>2 DEF IsCall, TakerFits
<1> QED
  BY <1>2, <1>3 DEF n

(* One call is made, goes on as another, or ends.                           *)
LEMMA CallChange ==
  ASSUME ShapeInv, NEW s \in Slots, NEW c, IsCall(c),
         calls' = [calls EXCEPT ![s] = c]
  PROVE  /\ calls' = [t \in Slots |-> calls'[t]]
         /\ \A t \in Slots : IsCall(calls'[t])
         /\ calls'[s] = c
         /\ \A t \in Slots \ {s} : calls'[t] = calls[t]
BY DEF ShapeInv

LEMMA ServeEffect ==
  ASSUME ShapeInv, NEW s \in Slots, Serve(s)
  PROVE  /\ calls' = [t \in Slots |-> calls'[t]]
         /\ \A t \in Slots :
              /\ IsCall(calls'[t])
              /\ calls'[t].kind = calls[t].kind
              /\ calls'[t].for = calls[t].for
              /\ calls'[t].doc = calls[t].doc
         /\ UNCHANGED screens
         /\ mishaps \subseteq mishaps'
<1>1. /\ UNCHANGED screens
      /\ mishaps \subseteq mishaps'
  BY DEF Serve, AnswerList, AnswerRecord, AnswerUpload, AnswerErase, RefuseCall,
         LoseCall, Suffer, screens
<1>2. PICK x \in {"ok", "duplicate", "refused", "lost"} : \E l :
        /\ calls[s].kind = "toc" => x # "duplicate"
        /\ \/ calls' = [calls EXCEPT ![s].reply = x]
           \/ calls' = [calls EXCEPT ![s].reply = x, ![s].list = l]
  BY DEF Serve, AnswerList, AnswerRecord, AnswerUpload, AnswerErase, RefuseCall,
         LoseCall, Reply, Waiting
<1>3. PICK l :
        /\ calls[s].kind = "toc" => x # "duplicate"
        /\ \/ calls' = [calls EXCEPT ![s].reply = x]
           \/ calls' = [calls EXCEPT ![s].reply = x, ![s].list = l]
  BY <1>2
<1> SUFFICES ASSUME NEW c, c = calls[s]
             PROVE  \A t \in Slots : /\ IsCall(calls'[t])
                                     /\ calls'[t].kind = calls[t].kind
                                     /\ calls'[t].for = calls[t].for
                                     /\ calls'[t].doc = calls[t].doc
  BY <1>1, <1>3 DEF ShapeInv
<1>4. \E n : calls' = [calls EXCEPT ![s] = n] /\ Replied(c, x, l, n)
  BY <1>3, Zenon DEF ShapeInv, Replied
<1>5. PICK n : calls' = [calls EXCEPT ![s] = n] /\ Replied(c, x, l, n)
  BY <1>4
<1>6. IsCall(c) /\ (c.kind = "toc" => x # "duplicate")
  BY <1>3 DEF ShapeInv
<1>7. /\ IsCall(n) /\ n.kind = c.kind /\ n.for = c.for
      /\ n.doc = c.doc
  BY <1>5, <1>6, ReplyKeepsCall
<1> QED
  BY <1>5, <1>7 DEF ShapeInv

(* The effect of the screen that was open is abandoned when another begins. *)
LEMMA AbandonedCalls ==
  ASSUME ShapeInv
  PROVE  /\ Abandoned = [t \in Slots |-> Abandoned[t]]
         /\ \A t \in Slots :
              /\ IsCall(Abandoned[t])
              /\ Abandoned[t].kind = "toc" => Abandoned[t].for = "nobody"
BY AbandonKeepsCall DEF ShapeInv, Abandoned

LEMMA OpenEffect ==
  ASSUME ShapeInv, NEW s \in Slots, NEW d, OpenDocument(s, d)
  PROVE  /\ view' = [name |-> "document", doc |-> d]
         /\ shelf' = FreshShelf
         /\ \/ /\ view' = view /\ reader' = reader
               /\ calls' = [calls EXCEPT ![s] = NoCall]
            \/ /\ calls' = [Abandoned EXCEPT ![s] =
                              Calling("toc", "screen", d, 0)]
               /\ reader'.loading /\ IsReader(reader')
               /\ \/ reader'.swapped
                  \/ reader'.toc = NoDoc /\ reader'.selected = NoDoc
<1>1. CASE view' = view
  BY <1>1 DEF OpenDocument
<1>2. CASE view' # view /\ view.name = "document"
  BY <1>2 DEF OpenDocument, ShapeInv, IsReader
<1>3. CASE view' # view /\ view.name # "document"
  BY <1>3 DEF OpenDocument, IsReader, FreshReader
<1> QED
  BY <1>1, <1>2, <1>3 DEF OpenDocument

LEMMA ShapeStep == ShapeInv /\ [Next]_vars => ShapeInv'
<1> SUFFICES ASSUME ShapeInv, [Next]_vars
             PROVE  ShapeInv'
  OBVIOUS
<1>1. CASE UNCHANGED vars
  BY <1>1 DEF vars, screens, ShapeInv
<1>2. CASE SelectSection
  BY <1>2 DEF SelectSection, ShapeInv, IsReader
<1>3. ASSUME NEW s \in Slots, Serve(s)
      PROVE  ShapeInv'
  BY <1>3, ServeEffect DEF ShapeInv, screens
<1>4. ASSUME NEW s \in Slots, NEW d, OpenDocument(s, d)
      PROVE  ShapeInv'
  <2>1. IsShelf(FreshShelf)
    BY DEF FreshShelf, IsShelf
  <2>2. IsReader(reader') /\ shelf' = FreshShelf
    BY <1>4, OpenEffect DEF ShapeInv
  <2>3. /\ calls' = [t \in Slots |-> calls'[t]]
        /\ \A t \in Slots : IsCall(calls'[t])
    BY <1>4, OpenEffect, AbandonedCalls, CallsHaveShape DEF ShapeInv
  <2>4. view' = [name |-> view'.name, doc |-> view'.doc]
    BY <1>4, OpenEffect
  <2> QED
    BY <2>1, <2>2, <2>3, <2>4 DEF ShapeInv
<1>5. ASSUME NEW s \in Slots, Deliver(s), ~DuplicateOpens(s)
      PROVE  ShapeInv'
  <2>1. view' = view
    BY <1>5 DEF Deliver, ListArrives, UploadStored, UploadIsDuplicate, UploadFails,
                EraseEnds, TocArrives, screens
  <2>2. IsShelf(shelf')
    BY <1>5 DEF Deliver, ListArrives, UploadStored, UploadIsDuplicate, UploadFails,
                EraseEnds, TocArrives, LoadPage, OnShelf, screens, ShapeInv, IsShelf
  <2>3. IsReader(reader')
    BY <1>5 DEF Deliver, ListArrives, UploadStored, UploadIsDuplicate, UploadFails,
                EraseEnds, TocArrives, screens, ShapeInv, IsReader
  <2>4. PICK c : calls' = [calls EXCEPT ![s] = c] /\ IsCall(c)
    <3>1. calls[s].for \in {"nobody", "screen", "upload", "erase"}
      BY DEF ShapeInv, IsCall, CallWith
    <3>2. CASE Over(s)
      BY <3>2, CallsHaveShape DEF Over
    <3>3. CASE LoadPage(s)
      <4>1. IsCall(Calling("list", calls[s].for, NoDoc, calls[s].page))
        BY <3>1, CallsHaveShape
      <4> QED
        BY <3>3, <4>1, Zenon DEF LoadPage, Send
    <3>4. CASE UploadIsDuplicate(s)
      <4>1. IsCall(Calling("get", "upload", calls[s].doc, 0))
        BY CallsHaveShape
      <4> QED
        BY <3>4, <4>1, Zenon DEF UploadIsDuplicate, Send
    <3> QED
      BY <1>5, <3>2, <3>3, <3>4
         DEF Deliver, ListArrives, UploadStored, UploadFails, EraseEnds, TocArrives
  <2> QED
    BY <2>1, <2>2, <2>3, <2>4, CallChange DEF ShapeInv
<1>6. ASSUME NEW s \in Slots, NEW d, PickFile(s, d) \/ ConfirmErase(s, d)
      PROVE  ShapeInv'
  <2>1. PICK c : calls' = [calls EXCEPT ![s] = c] /\ IsCall(c)
    <3>1. /\ IsCall(Calling("upload", "upload", d, shelf.page))
          /\ IsCall(Calling("erase", "erase", d, shelf.page))
      BY CallsHaveShape
    <3> QED
      BY <1>6, <3>1, Zenon DEF PickFile, ConfirmErase, Send
  <2>2. IsShelf(shelf') /\ UNCHANGED <<view, reader>>
    BY <1>6 DEF PickFile, ConfirmErase, screens, ShapeInv, IsShelf
  <2> QED
    BY <2>1, <2>2, CallChange DEF ShapeInv
<1>7. ASSUME NEW s \in Slots, NEW p, TurnPage(s, p)
      PROVE  ShapeInv'
  <2>1. PICK c : calls' = [calls EXCEPT ![s] = c] /\ IsCall(c)
    BY <1>7, CallsHaveShape DEF TurnPage, Send
  <2>2. IsShelf(shelf') /\ UNCHANGED <<view, reader>>
    BY <1>7 DEF TurnPage, ShapeInv, IsShelf
  <2> QED
    BY <2>1, <2>2, CallChange DEF ShapeInv
<1>8. ASSUME NEW s \in Slots, StartChat(s)
      PROVE  ShapeInv'
  <2>1. /\ calls' = [t \in Slots |-> calls'[t]]
        /\ \A t \in Slots : IsCall(calls'[t])
    BY <1>8, AbandonedCalls, CallsHaveShape DEF StartChat
  <2>2. IsReader(reader') /\ shelf' = shelf
    BY <1>8 DEF StartChat, FreshReader, IsReader
  <2>3. view' = [name |-> view'.name, doc |-> view'.doc]
    BY <1>8 DEF StartChat, ShapeInv
  <2> QED
    BY <2>1, <2>2, <2>3 DEF ShapeInv
<1> QED
  BY <1>1, <1>2, <1>3, <1>4, <1>5, <1>6, <1>7, <1>8
     DEF Next, User, OpenCard, DuplicateOpens

-----------------------------------------------------------------------------
(* The library.  That a flag is set while something is in flight is not     *)
(* inductive: the flag is cleared when one load, or upload, ends, so there  *)
(* must be no other, but where they crossed.                                *)

Lists(s) == calls[s].kind = "list"
Uploading(s) == calls[s].for = "upload"

WorkInv ==
  InLibrary =>
    /\ shelf.loading => \E s \in Slots : Lists(s)
    /\ shelf.uploading => \E s \in Slots : Uploading(s)
    /\ \A s \in Slots : Lists(s) =>
         shelf.loading \/ "loads crossed" \in mishaps
    /\ \A s \in Slots : Uploading(s) =>
         shelf.uploading \/ "uploads crossed" \in mishaps
    /\ \/ "loads crossed" \in mishaps
       \/ \A s, t \in Slots : Lists(s) /\ Lists(t) => s = t
    /\ \/ "uploads crossed" \in mishaps
       \/ \A s, t \in Slots : Uploading(s) /\ Uploading(t) => s = t

(* A list is asked for, and another in flight is remembered.                *)
LEMMA LoadBegins ==
  ASSUME ShapeInv, WorkInv, InLibrary, NEW s \in Slots, ~Lists(s),
         NEW c, c.kind = "list", c.for = "upload" <=> Uploading(s),
         calls' = [calls EXCEPT ![s] = c],
         view' = view, shelf'.loading, shelf'.uploading = shelf.uploading,
         mishaps \subseteq mishaps',
         (\E t \in Slots : Lists(t)) => "loads crossed" \in mishaps'
  PROVE  WorkInv'
<1>1. calls'[s] = c /\ \A t \in Slots \ {s} : calls'[t] = calls[t]
  BY DEF ShapeInv
<1>2. /\ \A t \in Slots : Uploading(t)' <=> Uploading(t)
      /\ \A t \in Slots \ {s} : Lists(t)' <=> Lists(t)
      /\ Lists(s)'
  BY <1>1 DEF Lists, Uploading
<1>3. /\ InLibrary'
      /\ \/ "loads crossed" \in mishaps'
         \/ \A t \in Slots : ~Lists(t)
  BY DEF InLibrary
<1> QED
  BY <1>2, <1>3 DEF WorkInv

LEMMA DeliverWork ==
  ASSUME ShapeInv, WorkInv, InLibrary, NEW s \in Slots, Deliver(s),
         ~DuplicateOpens(s)
  PROVE  WorkInv'
<1>1. IsCall(calls[s]) /\ IsShelf(shelf)
  BY DEF ShapeInv
<1>2. CASE UploadStored(s) \/ (EraseEnds(s) /\ Ok(s))
  <2> DEFINE c == Calling("list", calls[s].for, NoDoc, calls[s].page)
  <2>1. calls[s].for \in {"nobody", "screen", "upload", "erase"}
    BY <1>1 DEF IsCall, CallWith
  <2>2. c.kind = "list" /\ c.for = calls[s].for
    BY <2>1, CallingIs
  <2>3. ~Lists(s) /\ LoadPage(s) /\ view' = view
    BY <1>2 DEF UploadStored, EraseEnds, Answered, Lists
  <2> HIDE DEF c
  <2>4. calls' = [calls EXCEPT ![s] = c]
    BY <2>3 DEF LoadPage, Send, c
  <2>5. shelf'.loading /\ shelf'.uploading = shelf.uploading
    BY <1>1, <2>3 DEF LoadPage, OnShelf, IsShelf
  <2>6. /\ mishaps \subseteq mishaps'
        /\ (\E t \in Slots : Lists(t)) => "loads crossed" \in mishaps'
    BY <2>3 DEF LoadPage, Suffer, InFlight, Lists
  <2> QED
    BY <2>2, <2>3, <2>4, <2>5, <2>6, LoadBegins DEF Uploading
<1>3. CASE EraseEnds(s) /\ ~Ok(s)
  <2>1. calls[s].kind = "erase" /\ ~Uploading(s) /\ ~Lists(s)
    BY <1>1, <1>3 DEF EraseEnds, Answered, IsCall, TakerFits, Uploading, Lists
  <2>2. /\ calls'[s] = NoCall /\ \A t \in Slots \ {s} : calls'[t] = calls[t]
        /\ UNCHANGED <<shelf, view, mishaps>>
    BY <1>3 DEF EraseEnds, Over, ShapeInv
  <2>3. /\ ~Lists(s)' /\ ~Uploading(s)'
        /\ \A t \in Slots \ {s} : /\ Lists(t)' <=> Lists(t)
                                  /\ Uploading(t)' <=> Uploading(t)
    BY <2>2, CallsHaveShape DEF Lists, Uploading
  <2> QED
    BY <2>1, <2>2, <2>3 DEF WorkInv, InLibrary
<1>4. CASE ListArrives(s)
  <2>1. Lists(s)
    BY <1>4 DEF ListArrives, Answered, Lists
  <2>2. /\ calls'[s] = NoCall /\ \A t \in Slots \ {s} : calls'[t] = calls[t]
        /\ UNCHANGED <<view, mishaps>>
    BY <1>4 DEF ListArrives, Over, ShapeInv
  <2>3. /\ ~shelf'.loading
        /\ shelf'.uploading = IF Uploading(s) THEN FALSE ELSE shelf.uploading
    BY <1>1, <1>4 DEF ListArrives, OnShelf, IsShelf, Uploading
  <2>4. /\ ~Lists(s)' /\ ~Uploading(s)'
        /\ \A t \in Slots \ {s} : /\ Lists(t)' <=> Lists(t)
                                  /\ Uploading(t)' <=> Uploading(t)
    BY <2>2, CallsHaveShape DEF Lists, Uploading
  <2> QED
    BY <1>1, <2>1, <2>2, <2>3, <2>4 DEF WorkInv, InLibrary, IsShelf
<1>5. CASE UploadIsDuplicate(s)
  <2> DEFINE c == Calling("get", "upload", calls[s].doc, 0)
  <2>1. c.kind = "get" /\ c.for = "upload"
    BY CallingIs
  <2>2. Uploading(s) /\ ~Lists(s)
    BY <1>1, <1>5
       DEF UploadIsDuplicate, Answered, IsCall, TakerFits, Uploading, Lists
  <2> HIDE DEF c
  <2>3. calls'[s] = c /\ \A t \in Slots \ {s} : calls'[t] = calls[t]
    BY <1>5 DEF UploadIsDuplicate, Send, ShapeInv, c
  <2>4. UNCHANGED <<view, shelf, mishaps>>
    BY <1>5 DEF UploadIsDuplicate, screens
  <2>5. /\ ~Lists(s)' /\ Uploading(s)'
        /\ \A t \in Slots \ {s} : /\ Lists(t)' <=> Lists(t)
                                  /\ Uploading(t)' <=> Uploading(t)
    BY <2>1, <2>3 DEF Lists, Uploading
  <2> QED
    BY <2>2, <2>4, <2>5 DEF WorkInv, InLibrary
<1>6. CASE UploadFails(s)
  <2>1. Uploading(s) /\ ~Lists(s)
    BY <1>1, <1>6 DEF UploadFails, Answered, IsCall, TakerFits, Uploading, Lists
  <2>2. /\ calls'[s] = NoCall /\ \A t \in Slots \ {s} : calls'[t] = calls[t]
        /\ UNCHANGED <<view, mishaps>>
    BY <1>6 DEF UploadFails, Over, ShapeInv
  <2>3. ~shelf'.uploading /\ shelf'.loading = shelf.loading
    BY <1>1, <1>6 DEF UploadFails, OnShelf, IsShelf
  <2>4. /\ ~Lists(s)' /\ ~Uploading(s)'
        /\ \A t \in Slots \ {s} : /\ Lists(t)' <=> Lists(t)
                                  /\ Uploading(t)' <=> Uploading(t)
    BY <2>2, CallsHaveShape DEF Lists, Uploading
  <2> QED
    BY <2>1, <2>2, <2>3, <2>4 DEF WorkInv, InLibrary
<1>7. CASE TocArrives(s)
  <2>1. ~Uploading(s) /\ ~Lists(s)
    BY <1>1, <1>7 DEF TocArrives, Answered, IsCall, TakerFits, Uploading, Lists
  <2>2. /\ calls'[s] = NoCall /\ \A t \in Slots \ {s} : calls'[t] = calls[t]
        /\ UNCHANGED <<shelf, view, mishaps>>
    BY <1>7 DEF TocArrives, Over, ShapeInv
  <2>3. /\ ~Lists(s)' /\ ~Uploading(s)'
        /\ \A t \in Slots \ {s} : /\ Lists(t)' <=> Lists(t)
                                  /\ Uploading(t)' <=> Uploading(t)
    BY <2>2, CallsHaveShape DEF Lists, Uploading
  <2> QED
    BY <2>1, <2>2, <2>3 DEF WorkInv, InLibrary
<1> QED
  BY <1>2, <1>3, <1>4, <1>5, <1>6, <1>7 DEF Deliver

LEMMA UserWork ==
  ASSUME ShapeInv, WorkInv, NEW s \in Slots, User(s)
  PROVE  WorkInv'
<1>1. IsShelf(shelf) /\ (calls[s] = NoCall => ~Lists(s) /\ ~Uploading(s))
  BY CallsHaveShape DEF ShapeInv, Lists, Uploading
<1>2. ASSUME NEW d \in Docs, PickFile(s, d)
      PROVE  WorkInv'
  <2> DEFINE c == Calling("upload", "upload", d, shelf.page)
  <2>1. c.kind = "upload" /\ c.for = "upload"
    BY CallingIs
  <2> HIDE DEF c
  <2>2. /\ calls'[s] = c /\ \A t \in Slots \ {s} : calls'[t] = calls[t]
        /\ view' = view /\ InLibrary /\ ~Lists(s) /\ ~Uploading(s)
    BY <1>1, <1>2 DEF PickFile, Send, ShapeInv, Free, c
  <2>3. shelf'.uploading /\ shelf'.loading = shelf.loading
    BY <1>1, <1>2 DEF PickFile, IsShelf
  <2>4. /\ mishaps \subseteq mishaps'
        /\ (\E t \in Slots : Uploading(t)) => "uploads crossed" \in mishaps'
    BY <1>2 DEF PickFile, Suffer, Uploads, Uploading
  <2>5. /\ \A t \in Slots : Lists(t)' <=> Lists(t)
        /\ \A t \in Slots \ {s} : Uploading(t)' <=> Uploading(t)
        /\ Uploading(s)'
    BY <2>1, <2>2 DEF Lists, Uploading
  <2>6. /\ InLibrary /\ InLibrary'
        /\ \/ "uploads crossed" \in mishaps'
           \/ \A t \in Slots : ~Uploading(t)
    BY <2>2, <2>4 DEF InLibrary
  <2> QED
    BY <2>3, <2>4, <2>5, <2>6 DEF WorkInv
<1>3. ASSUME NEW d \in Docs, ConfirmErase(s, d)
      PROVE  WorkInv'
  <2> DEFINE c == Calling("erase", "erase", d, shelf.page)
  <2>1. c.kind = "erase" /\ c.for = "erase"
    BY CallingIs
  <2> HIDE DEF c
  <2>2. /\ calls'[s] = c /\ \A t \in Slots \ {s} : calls'[t] = calls[t]
        /\ UNCHANGED <<view, shelf, mishaps>> /\ ~Lists(s) /\ ~Uploading(s)
    BY <1>1, <1>3 DEF ConfirmErase, Send, ShapeInv, Free, screens, c
  <2>3. /\ \A t \in Slots : Lists(t)' <=> Lists(t)
        /\ \A t \in Slots : Uploading(t)' <=> Uploading(t)
    BY <2>1, <2>2 DEF Lists, Uploading
  <2> QED
    BY <2>2, <2>3 DEF WorkInv, InLibrary
<1>4. ASSUME NEW p, TurnPage(s, p)
      PROVE  WorkInv'
  <2> DEFINE c == Calling("list", "screen", NoDoc, p)
  <2>1. c.kind = "list" /\ c.for = "screen"
    BY CallingIs
  <2> HIDE DEF c
  <2>2. /\ calls' = [calls EXCEPT ![s] = c] /\ view' = view
        /\ InLibrary /\ ~Lists(s) /\ ~Uploading(s)
    BY <1>1, <1>4 DEF TurnPage, GridShown, Send, Free, c
  <2>3. shelf'.loading /\ shelf'.uploading = shelf.uploading
    BY <1>1, <1>4 DEF TurnPage, IsShelf
  <2>4. /\ mishaps \subseteq mishaps'
        /\ (\E t \in Slots : Lists(t)) => "loads crossed" \in mishaps'
    BY <1>4, <2>2 DEF TurnPage, Suffer, InFlight, Lists
  <2> QED
    BY <2>1, <2>2, <2>3, <2>4, LoadBegins
<1>5. ASSUME NEW d \in Docs, OpenCard(s, d)
      PROVE  WorkInv'
  BY <1>5 DEF OpenCard, OpenDocument, WorkInv, InLibrary
<1>6. CASE StartChat(s)
  BY <1>6 DEF StartChat, ShapeInv, WorkInv, InLibrary
<1> QED
  BY <1>2, <1>3, <1>4, <1>5, <1>6 DEF User

LEMMA WorkStep == ShapeInv /\ WorkInv /\ [Next]_vars => WorkInv'
<1> SUFFICES ASSUME ShapeInv, WorkInv, [Next]_vars
             PROVE  WorkInv'
  OBVIOUS
<1>1. CASE UNCHANGED vars
  BY <1>1 DEF vars, screens, WorkInv, InLibrary, Lists, Uploading
<1>2. CASE SelectSection
  BY <1>2 DEF SelectSection, WorkInv, InLibrary, Lists, Uploading
<1>3. ASSUME NEW s \in Slots, Serve(s)
      PROVE  WorkInv'
  <2>1. \A t \in Slots : /\ Lists(t)' <=> Lists(t)
                         /\ Uploading(t)' <=> Uploading(t)
    BY <1>3, ServeEffect DEF Lists, Uploading
  <2>2. UNCHANGED <<view, shelf>> /\ mishaps \subseteq mishaps'
    BY <1>3, ServeEffect DEF screens
  <2> QED
    BY <2>1, <2>2 DEF WorkInv, InLibrary
<1>4. ASSUME NEW s \in Slots, Deliver(s)
      PROVE  WorkInv'
  <2>1. CASE DuplicateOpens(s)
    BY <2>1 DEF DuplicateOpens, OpenDocument, WorkInv, InLibrary
  <2>2. CASE ~DuplicateOpens(s) /\ ~InLibrary
    BY <1>4, <2>2
       DEF Deliver, ListArrives, UploadStored, UploadIsDuplicate, UploadFails,
           EraseEnds, TocArrives, screens, WorkInv, InLibrary
  <2> QED
    BY <1>4, <2>1, <2>2, DeliverWork
<1> QED
  BY <1>1, <1>2, <1>3, <1>4, UserWork DEF Next

-----------------------------------------------------------------------------
(* The screens of a document: one fetch at most is awaited, for the document*)
(* named, and none in the library.                                          *)

Screens == {"library", "document", "chat"}

FetchInv ==
  /\ view.name \in Screens
  /\ \A s \in Slots : FetchesToc(s) => ~InLibrary /\ calls[s].doc = view.doc
  /\ \A s, t \in Slots : FetchesToc(s) /\ FetchesToc(t) => s = t
  /\ view.name = "document" =>
       (reader.loading <=> \E s \in Slots : FetchesToc(s))

LEMMA FetchBegins ==
  ASSUME ShapeInv, NEW s \in Slots, NEW d,
         calls' = [Abandoned EXCEPT ![s] = Calling("toc", "screen", d, 0)]
  PROVE  /\ FetchesToc(s)' /\ calls'[s].doc = d
         /\ \A t \in Slots \ {s} : ~FetchesToc(t)'
<1> DEFINE c == Calling("toc", "screen", d, 0)
<1>1. c.kind = "toc" /\ c.for = "screen" /\ c.doc = d
  BY CallingIs
<1> HIDE DEF c
<1>2. calls'[s] = c /\ \A t \in Slots \ {s} : calls'[t] = Abandoned[t]
  BY AbandonedCalls DEF c
<1> QED
  BY <1>1, <1>2, AbandonedCalls DEF FetchesToc

LEMMA OpenFetch ==
  ASSUME ShapeInv, FetchInv, NEW s \in Slots, NEW d,
         ~FetchesToc(s), OpenDocument(s, d)
  PROVE  FetchInv'
<1>1. view'.name = "document" /\ view'.doc = d
  BY OpenEffect
<1>2. CASE view' = view /\ reader' = reader /\ calls' = [calls EXCEPT ![s] = NoCall]
  <2>1. calls'[s] = NoCall /\ \A t \in Slots \ {s} : calls'[t] = calls[t]
    BY <1>2 DEF ShapeInv
  <2>2. \A t \in Slots : /\ FetchesToc(t)' <=> FetchesToc(t)
                         /\ FetchesToc(t) => calls'[t].doc = calls[t].doc
    BY <2>1, CallsHaveShape DEF FetchesToc
  <2> QED
    BY <1>2, <2>2 DEF FetchInv, InLibrary
<1>3. CASE /\ calls' = [Abandoned EXCEPT ![s] = Calling("toc", "screen", d, 0)]
           /\ reader'.loading
  BY <1>1, <1>3, FetchBegins DEF FetchInv, InLibrary, Screens
<1> QED
  BY <1>2, <1>3, OpenEffect

(* A step that neither opens a document nor ends a fetch that is awaited.   *)
LEMMA FetchKept ==
  ASSUME FetchInv, UNCHANGED <<view, reader>>,
         \A t \in Slots : /\ FetchesToc(t)' <=> FetchesToc(t)
                          /\ FetchesToc(t) => calls'[t].doc = calls[t].doc
  PROVE  FetchInv'
BY DEF FetchInv, InLibrary

LEMMA DeliverFetch ==
  ASSUME ShapeInv, FetchInv, NEW s \in Slots, Deliver(s), ~DuplicateOpens(s)
  PROVE  FetchInv'
<1>1. IsCall(calls[s]) /\ IsReader(reader)
  BY DEF ShapeInv
<1>2. CASE TocArrives(s)
  <2>1. /\ calls'[s] = NoCall /\ \A t \in Slots \ {s} : calls'[t] = calls[t]
        /\ view' = view
    BY <1>2 DEF TocArrives, Over, ShapeInv
  <2>2. calls[s].kind = "toc" /\ (TakesToc(s) <=> FetchesToc(s))
    BY <1>1, <1>2
       DEF TocArrives, Answered, TakesToc, FetchesToc, IsCall, TakerFits
  <2>3. /\ ~FetchesToc(s)'
        /\ \A t \in Slots \ {s} : FetchesToc(t)' <=> FetchesToc(t)
        /\ \A t \in Slots \ {s} : FetchesToc(t) => calls'[t].doc = calls[t].doc
    BY <2>1, CallsHaveShape DEF FetchesToc
  <2>4. CASE FetchesToc(s)
    <3>1. ~reader'.loading
      BY <1>1, <1>2, <2>2, <2>4 DEF TocArrives, IsReader
    <3> QED
      BY <2>1, <2>3, <2>4, <3>1 DEF FetchInv, InLibrary
  <2>5. CASE ~FetchesToc(s)
    <3>1. reader' = reader
      BY <1>2, <2>2, <2>5 DEF TocArrives
    <3> QED
      BY <2>1, <2>3, <2>5, <3>1, FetchKept
  <2> QED
    BY <2>4, <2>5
<1>3. CASE ~TocArrives(s)
  <2>1. UNCHANGED <<view, reader>> /\ calls[s].kind # "toc"
    BY <1>3 DEF Deliver, ListArrives, UploadStored, UploadIsDuplicate, UploadFails,
                EraseEnds, Answered, screens
  <2>2. PICK c : calls' = [calls EXCEPT ![s] = c] /\ c.kind # "toc"
    <3>1. calls[s].for \in {"nobody", "screen", "upload", "erase"}
      BY <1>1 DEF IsCall, CallWith
    <3>2. CASE Over(s)
      BY <3>2, CallsHaveShape DEF Over
    <3>3. CASE LoadPage(s)
      <4>1. Calling("list", calls[s].for, NoDoc, calls[s].page).kind # "toc"
        BY <3>1, CallingIs
      <4> QED
        BY <3>3, <4>1, Zenon DEF LoadPage, Send
    <3>4. CASE UploadIsDuplicate(s)
      <4>1. Calling("get", "upload", calls[s].doc, 0).kind # "toc"
        BY CallingIs
      <4> QED
        BY <3>4, <4>1, Zenon DEF UploadIsDuplicate, Send
    <3> QED
      BY <1>3, <3>2, <3>3, <3>4
         DEF Deliver, ListArrives, UploadStored, UploadFails, EraseEnds
  <2>3. calls'[s] = c /\ \A t \in Slots \ {s} : calls'[t] = calls[t]
    BY <2>2 DEF ShapeInv
  <2> QED
    BY <2>1, <2>2, <2>3, FetchKept DEF FetchesToc
<1> QED
  BY <1>2, <1>3

LEMMA UserFetch ==
  ASSUME ShapeInv, FetchInv, NEW s \in Slots, User(s)
  PROVE  FetchInv'
<1>1. CASE ~StartChat(s) /\ ~\E d \in Docs : OpenCard(s, d)
  <2>1. UNCHANGED <<view, reader>> /\ calls[s] = NoCall
    BY <1>1 DEF User, PickFile, ConfirmErase, TurnPage, Free, screens
  <2>2. PICK c : calls' = [calls EXCEPT ![s] = c] /\ c.kind # "toc"
    <3>1. \A d, p : /\ Calling("upload", "upload", d, p).kind # "toc"
                   /\ Calling("erase", "erase", d, p).kind # "toc"
                   /\ Calling("list", "screen", d, p).kind # "toc"
      BY CallingIs
    <3> QED
      BY <1>1, <3>1, Zenon DEF User, PickFile, ConfirmErase, TurnPage, Send
  <2>3. calls'[s] = c /\ \A t \in Slots \ {s} : calls'[t] = calls[t]
    BY <2>2 DEF ShapeInv
  <2> QED
    BY <2>1, <2>2, <2>3, CallsHaveShape, FetchKept DEF FetchesToc
<1>2. ASSUME NEW d \in Docs, OpenCard(s, d)
      PROVE  FetchInv'
  BY <1>2, OpenFetch, CallsHaveShape DEF OpenCard, Free, FetchesToc
<1>3. CASE StartChat(s)
  <2>1. view'.name = "chat" /\ view'.doc = view.doc
    BY <1>3 DEF StartChat, ShapeInv
  <2>2. calls' = [Abandoned EXCEPT ![s] = Calling("toc", "screen", view.doc, 0)]
    BY <1>3 DEF StartChat
  <2> QED
    BY <2>1, <2>2, FetchBegins DEF FetchInv, InLibrary, Screens
<1> QED
  BY <1>1, <1>2, <1>3

LEMMA FetchStep == ShapeInv /\ FetchInv /\ [Next]_vars => FetchInv'
<1> SUFFICES ASSUME ShapeInv, FetchInv, [Next]_vars
             PROVE  FetchInv'
  OBVIOUS
<1>1. CASE UNCHANGED vars
  BY <1>1, FetchKept DEF vars, screens, FetchesToc
<1>2. CASE SelectSection
  BY <1>2 DEF SelectSection, ShapeInv, IsReader, FetchInv, InLibrary, FetchesToc
<1>3. ASSUME NEW s \in Slots, Serve(s)
      PROVE  FetchInv'
  <2>1. \A t \in Slots : /\ FetchesToc(t)' <=> FetchesToc(t)
                         /\ FetchesToc(t) => calls'[t].doc = calls[t].doc
    BY <1>3, ServeEffect DEF FetchesToc
  <2> QED
    BY <1>3, <2>1, ServeEffect, FetchKept DEF screens
<1>4. ASSUME NEW s \in Slots, DuplicateOpens(s)
      PROVE  FetchInv'
  <2>1. ~FetchesToc(s) /\ OpenDocument(s, calls[s].doc)
    BY <1>4 DEF DuplicateOpens, Answered, FetchesToc
  <2> QED
    BY <2>1, OpenFetch
<1> QED
  BY <1>1, <1>2, <1>3, <1>4, DeliverFetch, UserFetch DEF Next

-----------------------------------------------------------------------------
(* Whose contents a screen shows.  Old contents stay while new ones load,   *)
(* so what is kept is of the document named or was changed under the user.  *)

HonestInv ==
  /\ view.name = "document" =>
       /\ reader.toc \in {NoDoc, view.doc} \/ reader.swapped
       /\ reader.selected \in {NoDoc, view.doc} \/ reader.swapped
       /\ \/ reader.loading \/ reader.error \/ reader.lost
          \/ reader.toc \in {NoDoc, view.doc}
  /\ view.name = "chat" => reader.toc \in {NoDoc, view.doc}

LEMMA HonestStep ==
  ShapeInv /\ FetchInv /\ HonestInv /\ [Next]_vars => HonestInv'
<1> SUFFICES ASSUME ShapeInv, FetchInv, HonestInv, [Next]_vars
             PROVE  HonestInv'
  OBVIOUS
<1>1. CASE UNCHANGED <<view, reader>>
  BY <1>1 DEF HonestInv
<1>2. CASE SelectSection
  <2>1. /\ view' = view /\ ContentsShown
        /\ reader' = [reader EXCEPT !.selected = reader.toc]
    BY <1>2 DEF SelectSection
  <2>2. /\ reader'.toc = reader.toc /\ reader'.selected = reader.toc
        /\ reader'.loading = reader.loading /\ reader'.error = reader.error
        /\ reader'.lost = reader.lost /\ reader'.swapped = reader.swapped
    BY <2>1 DEF ShapeInv, IsReader
  <2> QED
    BY <2>1, <2>2 DEF HonestInv, ContentsShown
<1>3. ASSUME NEW s \in Slots, NEW d, OpenDocument(s, d)
      PROVE  HonestInv'
  BY <1>3, OpenEffect DEF HonestInv
<1>4. ASSUME NEW s \in Slots, TocArrives(s), FetchesToc(s)
      PROVE  HonestInv'
  <2>1. view' = view /\ view.name \in {"document", "chat"}
    BY <1>4 DEF TocArrives, FetchInv, InLibrary, Screens
  <2>2. /\ calls[s].reply \in {"ok", "refused", "lost"}
        /\ calls[s].doc = view.doc
    BY <1>4
       DEF TocArrives, Answered, FetchesToc, FetchInv, ShapeInv, IsCall, TakerFits
  <2>3. reader' =
          [reader EXCEPT
             !.toc = IF Ok(s) THEN calls[s].doc ELSE @,
             !.loading = FALSE,
             !.error = view.name = "document" /\ calls[s].reply = "refused",
             !.lost = calls[s].reply = "lost"]
    BY <1>4 DEF TocArrives, TakesToc, FetchesToc
  <2>4. /\ reader'.toc = IF Ok(s) THEN view.doc ELSE reader.toc
        /\ reader'.selected = reader.selected
        /\ reader'.swapped = reader.swapped
        /\ reader'.error <=> view.name = "document" /\ calls[s].reply = "refused"
        /\ reader'.lost <=> calls[s].reply = "lost"
    BY <2>2, <2>3 DEF ShapeInv, IsReader
  <2> QED
    BY <2>1, <2>2, <2>4 DEF HonestInv, Ok
<1>5. ASSUME NEW s \in Slots, TocArrives(s), ~FetchesToc(s)
      PROVE  HonestInv'
  <2>1. ~TakesToc(s)
    BY <1>5
       DEF TocArrives, Answered, TakesToc, FetchesToc, ShapeInv, IsCall, TakerFits
  <2> QED
    BY <1>1, <1>5, <2>1 DEF TocArrives
<1>6. ASSUME NEW s \in Slots, StartChat(s)
      PROVE  HonestInv'
  BY <1>6 DEF StartChat, FreshReader, ShapeInv, HonestInv
<1>7. ASSUME NEW s \in Slots, Serve(s)
      PROVE  HonestInv'
  BY <1>1, <1>7, ServeEffect DEF screens
<1>8. ASSUME NEW s \in Slots, Deliver(s), ~DuplicateOpens(s), ~TocArrives(s)
      PROVE  HonestInv'
  BY <1>1, <1>8
     DEF Deliver, ListArrives, UploadStored, UploadIsDuplicate, UploadFails,
         EraseEnds, screens
<1>9. ASSUME NEW s \in Slots, NEW d, NEW p,
             PickFile(s, d) \/ ConfirmErase(s, d) \/ TurnPage(s, p)
      PROVE  HonestInv'
  BY <1>1, <1>9 DEF PickFile, ConfirmErase, TurnPage, screens
<1> QED
  BY <1>1, <1>2, <1>3, <1>4, <1>5, <1>6, <1>7, <1>8, <1>9
     DEF Next, User, OpenCard, DuplicateOpens, vars, screens

-----------------------------------------------------------------------------
(* What the library shows.  That its list is current once nothing is in     *)
(* flight is not inductive: while a list is, or a change of the library is  *)
(* answered but not yet followed by the list that will be asked for, the    *)
(* list may be old; and the calls that reload must reload the page shown.   *)

Reloads(s) == calls[s].kind \in {"list", "upload", "erase"}

Changed(s) == calls[s].kind \in {"upload", "erase"} /\ calls[s].reply = "ok"

Clean == mishaps \subseteq {"uploads crossed"}

OnPage(list) ==
  list = ListOf(library, shelf.page) \/ Beyond(library, shelf.page)

ListsAreCurrent ==
  /\ \A s \in Slots : Lists(s) /\ Ok(s) => OnPage(calls[s].list)
  /\ \A s \in Slots : Lists(s) /\ calls[s].reply \notin {"none", "ok"} =>
       Beyond(library, shelf.page)
  /\ (\A s \in Slots : ~Lists(s)) => OnPage(shelf.list)

CurrentInv ==
  InLibrary /\ Clean =>
    /\ \A s \in Slots : Reloads(s) => calls[s].page = shelf.page
    /\ (\A s \in Slots : ~Changed(s)) => ListsAreCurrent

(* The call that is answered, and the others.                               *)
LEMMA ReplyFields ==
  ASSUME ShapeInv, NEW s \in Slots, NEW x,
         calls' = [calls EXCEPT ![s].reply = x]
  PROVE  /\ calls'[s].kind = calls[s].kind /\ calls'[s].for = calls[s].for
         /\ calls'[s].doc = calls[s].doc /\ calls'[s].page = calls[s].page
         /\ calls'[s].list = calls[s].list /\ calls'[s].reply = x
         /\ \A t \in Slots \ {s} : calls'[t] = calls[t]
<1>1. calls'[s] = [calls[s] EXCEPT !.reply = x]
  BY DEF ShapeInv
<1>2. \A t \in Slots \ {s} : calls'[t] = calls[t]
  BY DEF ShapeInv
<1> PICK d, p, m : calls[s] \in CallWith(d, p, m)
  BY DEF ShapeInv, IsCall
<1> QED
  BY <1>1, <1>2 DEF CallWith

Listed(c, x, l) == [c EXCEPT !.reply = x, !.list = l]

LEMMA ListFields ==
  ASSUME NEW c, IsCall(c), NEW x, NEW l
  PROVE  /\ Listed(c, x, l).kind = c.kind /\ Listed(c, x, l).doc = c.doc
         /\ Listed(c, x, l).page = c.page
         /\ Listed(c, x, l).list = l /\ Listed(c, x, l).reply = x
<1> PICK d, p, m : c \in CallWith(d, p, m)
  BY DEF IsCall
<1> DEFINE n == Listed(c, x, l)
<1>1. c = [kind |-> c.kind, doc |-> c.doc, page |-> c.page, for |-> c.for,
           reply |-> c.reply, list |-> c.list]
  BY DEF CallWith
<1>2. n = [c EXCEPT !.reply = x, !.list = l]
  BY Zenon DEF Listed
<1> HIDE DEF n
<1>3. n = [kind |-> c.kind, doc |-> c.doc, page |-> c.page, for |-> c.for,
           reply |-> x, list |-> l]
  BY <1>1, <1>2
<1>4. /\ n.kind = c.kind /\ n.doc = c.doc /\ n.page = c.page
      /\ n.list = l /\ n.reply = x
  BY <1>3
<1> QED
  BY <1>4 DEF n

(* A step that changes neither the library nor what is shown of it, and in  *)
(* which no change, and no answered list, goes.                             *)
LEMMA CurrentKept ==
  ASSUME CurrentInv, NEW s \in Slots,
         \A t \in Slots \ {s} : calls'[t] = calls[t],
         library' = library,
         InLibrary' /\ Clean' =>
           /\ InLibrary /\ Clean
           /\ shelf'.page = shelf.page /\ shelf'.list = shelf.list
           /\ Reloads(s)' => calls'[s].page = shelf.page
           /\ ~Changed(s)
           /\ Lists(s) => Lists(s)'
           /\ Lists(s)' /\ ~Changed(s)' =>
                \/ calls'[s].reply = "none"
                \/ calls'[s].reply = "ok" /\ OnPage(calls'[s].list)
                \/ calls'[s].reply \notin {"none", "ok"}
                   /\ Beyond(library, shelf.page)
  PROVE  CurrentInv'
<1> SUFFICES ASSUME InLibrary', Clean'
             PROVE  /\ \A t \in Slots : Reloads(t)' => calls'[t].page = shelf'.page
                    /\ (\A t \in Slots : ~Changed(t)') => ListsAreCurrent'
  BY DEF CurrentInv
<1>1. /\ \A t \in Slots \ {s} : /\ Reloads(t)' <=> Reloads(t)
                                /\ Changed(t)' <=> Changed(t)
                                /\ Lists(t)' <=> Lists(t)
                                /\ Ok(t)' <=> Ok(t)
      /\ \A l : OnPage(l)' <=> OnPage(l)
      /\ Beyond(library, shelf.page)' <=> Beyond(library, shelf.page)
  BY DEF Reloads, Changed, Lists, Ok, OnPage, ListOf, Beyond, Pages
<1>2. \A t \in Slots : Reloads(t)' => calls'[t].page = shelf'.page
  BY <1>1 DEF CurrentInv
<1>3. ASSUME \A t \in Slots : ~Changed(t)'
      PROVE  ListsAreCurrent'
  <2>1. ListsAreCurrent
    BY <1>1, <1>3 DEF CurrentInv
  <2>2. \A t \in Slots : Lists(t)' /\ Ok(t)' => OnPage(calls'[t].list)
    BY <1>1, <1>3, <2>1 DEF ListsAreCurrent, Ok
  <2>3. \A t \in Slots : Lists(t)' /\ calls'[t].reply \notin {"none", "ok"} =>
                         Beyond(library, shelf.page)
    BY <1>1, <1>3, <2>1 DEF ListsAreCurrent
  <2>4. (\A t \in Slots : ~Lists(t)') => OnPage(shelf.list)
    BY <1>1, <2>1 DEF ListsAreCurrent
  <2> QED
    BY <1>1, <2>2, <2>3, <2>4 DEF ListsAreCurrent
<1> QED
  BY <1>2, <1>3

(* A change of the library is answered to the call that will ask for a list *)
(* next, so that no list needs to be current until then.                    *)
LEMMA ServeCurrent ==
  ASSUME ShapeInv, CurrentInv, NEW s \in Slots, Serve(s)
  PROVE  CurrentInv'
<1>1. UNCHANGED <<view, shelf>> /\ mishaps \subseteq mishaps'
  BY ServeEffect DEF screens
<1>2. InLibrary' <=> InLibrary
  BY <1>1 DEF InLibrary
<1>3. Clean' => Clean
  BY <1>1 DEF Clean
<1>4. CASE AnswerList(s)
  <2>1. /\ Lists(s) /\ calls[s].reply = "none" /\ library' = library
    BY <1>4 DEF AnswerList, Waiting, Lists, server
  <2>2. /\ Lists(s)' /\ calls'[s].page = calls[s].page
        /\ \A t \in Slots \ {s} : calls'[t] = calls[t]
        /\ IF Beyond(library, calls[s].page)
             THEN calls'[s].reply = "refused"
             ELSE /\ calls'[s].reply = "ok"
                  /\ calls'[s].list = ListOf(library, calls[s].page)
    <3>1. CASE Beyond(library, calls[s].page)
      <4>1. calls' = [calls EXCEPT ![s].reply = "refused"]
        BY <1>4, <3>1 DEF AnswerList, Reply
      <4> QED
        BY <2>1, <3>1, <4>1, ReplyFields DEF Lists
    <3>2. CASE ~Beyond(library, calls[s].page)
      <4> DEFINE l == ListOf(library, calls[s].page)
      <4>1. calls' = [calls EXCEPT ![s].reply = "ok", ![s].list = l]
        BY <1>4, <3>2 DEF AnswerList
      <4> HIDE DEF l
      <4>2. /\ calls'[s].kind = calls[s].kind /\ calls'[s].page = calls[s].page
            /\ calls'[s].list = l /\ calls'[s].reply = "ok"
            /\ \A t \in Slots \ {s} : calls'[t] = calls[t]
        <5>1. calls'[s] = Listed(calls[s], "ok", l)
          BY <4>1, Zenon DEF ShapeInv, Listed
        <5>2. \A t \in Slots \ {s} : calls'[t] = calls[t]
          BY <4>1 DEF ShapeInv
        <5> QED
          BY <5>1, <5>2, ListFields DEF ShapeInv
      <4> QED
        BY <2>1, <3>2, <4>2 DEF Lists, l
    <3> QED
      BY <3>1, <3>2
  <2>3. ASSUME InLibrary', Clean'
        PROVE  /\ calls'[s].page = shelf.page
               /\ \/ calls'[s].reply = "ok" /\ OnPage(calls'[s].list)
                  \/ calls'[s].reply = "refused" /\ Beyond(library, shelf.page)
    <3>1. calls[s].page = shelf.page
      BY <1>2, <1>3, <2>1, <2>3 DEF CurrentInv, Reloads, Lists
    <3> QED
      BY <2>2, <3>1 DEF OnPage
  <2>4. ~Changed(s)
    BY <2>1 DEF Changed
  <2> QED
    BY <1>1, <1>2, <1>3, <2>1, <2>2, <2>3, <2>4, CurrentKept
<1>5. CASE AnswerRecord(s)
  <2>1. PICK x \in {"ok", "refused"} : calls' = [calls EXCEPT ![s].reply = x]
    BY <1>5 DEF AnswerRecord, Reply
  <2>2. calls[s].kind \in {"get", "toc"} /\ library' = library
    BY <1>5 DEF AnswerRecord, Waiting, server
  <2>3. calls'[s].kind \in {"get", "toc"} /\ \A t \in Slots \ {s} : calls'[t] = calls[t]
    BY <2>1, <2>2, ReplyFields
  <2> QED
    BY <1>1, <1>2, <1>3, <2>2, <2>3, CurrentKept DEF Reloads, Lists, Changed
<1>6. CASE AnswerUpload(s) \/ AnswerErase(s)
  <2>1. calls[s].kind \in {"upload", "erase"} /\ calls[s].reply = "none"
    BY <1>6 DEF AnswerUpload, AnswerErase, Waiting
  <2>2. PICK x \in {"ok", "duplicate", "refused"} :
          /\ calls' = [calls EXCEPT ![s].reply = x]
          /\ x = "ok" \/ library' = library
    BY <1>6 DEF AnswerUpload, AnswerErase, Reply, server
  <2>3. /\ calls'[s].kind = calls[s].kind /\ calls'[s].page = calls[s].page
        /\ calls'[s].reply = x
        /\ \A t \in Slots \ {s} : calls'[t] = calls[t]
    BY <2>2, ReplyFields
  <2>4. Reloads(s) /\ ~Changed(s) /\ ~Lists(s) /\ ~Lists(s)'
    BY <2>1, <2>3 DEF Reloads, Changed, Lists
  <2>5. CASE x = "ok"
    <3>1. Changed(s)'
      BY <2>1, <2>3, <2>5 DEF Changed
    <3>2. \A t \in Slots : /\ Reloads(t)' <=> Reloads(t)
                           /\ calls'[t].page = calls[t].page
      BY <2>3 DEF Reloads
    <3> QED
      BY <1>1, <1>2, <1>3, <3>1, <3>2 DEF CurrentInv
  <2>6. CASE x # "ok"
    <3>1. library' = library
      BY <2>2, <2>6
    <3>2. InLibrary /\ Clean => calls[s].page = shelf.page
      BY <2>4 DEF CurrentInv
    <3> QED
      BY <1>1, <1>2, <1>3, <2>3, <2>4, <3>1, <3>2, CurrentKept
  <2> QED
    BY <2>5, <2>6
<1>7. CASE RefuseCall(s)
  <2>1. /\ calls[s].reply = "none" /\ library' = library
        /\ calls' = [calls EXCEPT ![s].reply = "refused"]
    BY <1>7 DEF RefuseCall, Reply, server
  <2>2. /\ calls'[s].kind = calls[s].kind /\ calls'[s].page = calls[s].page
        /\ calls'[s].reply = "refused"
        /\ \A t \in Slots \ {s} : calls'[t] = calls[t]
    BY <2>1, ReplyFields
  <2>3. InLibrary' /\ Clean' => ~Lists(s)
    <3>1. InLibrary /\ Lists(s) => "failed" \in mishaps'
      BY <1>7 DEF RefuseCall, Suffer, Lists
    <3> QED
      BY <1>2, <3>1 DEF Clean
  <2>4. InLibrary /\ Clean /\ Reloads(s) => calls[s].page = shelf.page
    BY DEF CurrentInv
  <2> QED
    BY <1>1, <1>2, <1>3, <2>1, <2>2, <2>3, <2>4, CurrentKept
       DEF Lists, Changed, Reloads
<1>8. CASE LoseCall(s)
  <2>1. library' = library
    BY <1>8 DEF LoseCall, server
  <2>2. PICK x : calls' = [calls EXCEPT ![s].reply = x, ![s].list = NoList]
    BY <1>8 DEF LoseCall
  <2>3. /\ calls'[s].kind = calls[s].kind
        /\ \A t \in Slots \ {s} : calls'[t] = calls[t]
    <3>1. calls'[s] = Listed(calls[s], x, NoList)
      BY <2>2, Zenon DEF ShapeInv, Listed
    <3>2. \A t \in Slots \ {s} : calls'[t] = calls[t]
      BY <2>2 DEF ShapeInv
    <3> QED
      BY <3>1, <3>2, ListFields DEF ShapeInv
  <2>4. InLibrary' /\ Clean' => ~Reloads(s)
    <3>1. InLibrary /\ Reloads(s) => "failed" \in mishaps'
      BY <1>8 DEF LoseCall, Suffer, Reloads
    <3> QED
      BY <1>2, <3>1 DEF Clean
  <2> QED
    BY <1>1, <1>2, <1>3, <2>1, <2>3, <2>4, CurrentKept
       DEF Lists, Changed, Reloads
<1> QED
  BY <1>4, <1>5, <1>6, <1>7, <1>8 DEF Serve

(* A list that is asked for now will be current when it is answered.        *)
LEMMA ReloadIsCurrent ==
  ASSUME NEW s \in Slots, library' = library,
         \A t \in Slots \ {s} : calls'[t] = calls[t],
         InLibrary' /\ Clean' =>
           /\ \A t \in Slots \ {s} : ~Lists(t)
           /\ \A t \in Slots \ {s} : Reloads(t) => calls[t].page = shelf'.page
           /\ Lists(s)' /\ calls'[s].reply = "none"
           /\ calls'[s].page = shelf'.page
  PROVE  CurrentInv'
<1> SUFFICES ASSUME InLibrary', Clean'
             PROVE  /\ \A t \in Slots : Reloads(t)' => calls'[t].page = shelf'.page
                    /\ ListsAreCurrent'
  BY DEF CurrentInv
<1>1. \A t \in Slots \ {s} : Reloads(t)' <=> Reloads(t)
  BY DEF Reloads
<1>2. \A t \in Slots : Reloads(t)' => calls'[t].page = shelf'.page
  BY <1>1
<1>3. \A t \in Slots : Lists(t)' => t = s
  BY DEF Lists
<1> QED
  BY <1>2, <1>3 DEF ListsAreCurrent, Ok

LEMMA CurrentOnlyInLibrary == ~InLibrary' => CurrentInv'
BY DEF CurrentInv

LEMMA DeliverCurrent ==
  ASSUME ShapeInv, WorkInv, CurrentInv, NEW s \in Slots, Deliver(s)
  PROVE  CurrentInv'
<1>1. CASE DuplicateOpens(s)
  BY <1>1, CurrentOnlyInLibrary DEF DuplicateOpens, OpenDocument, InLibrary
<1> SUFFICES ASSUME ~DuplicateOpens(s) PROVE CurrentInv'
  BY <1>1
<1>2. library' = library /\ view' = view /\ mishaps \subseteq mishaps'
  BY DEF Deliver, ListArrives, UploadStored, UploadIsDuplicate, UploadFails,
         EraseEnds, TocArrives, LoadPage, Suffer, server, screens
<1>3. InLibrary' <=> InLibrary
  BY <1>2 DEF InLibrary
<1>4. Clean' => Clean
  BY <1>2 DEF Clean
<1>5. IsCall(calls[s]) /\ IsShelf(shelf)
  BY DEF ShapeInv
<1>6. CASE ListArrives(s)
  <2>1. /\ Lists(s) /\ calls[s].reply # "none"
        /\ calls'[s] = NoCall /\ \A t \in Slots \ {s} : calls'[t] = calls[t]
    BY <1>6 DEF ListArrives, Answered, Lists, Over, ShapeInv
  <2>2. InLibrary =>
          /\ shelf'.list = IF Ok(s) THEN calls[s].list ELSE shelf.list
          /\ shelf'.page = shelf.page
    BY <1>5, <1>6 DEF ListArrives, OnShelf, IsShelf
  <2> SUFFICES ASSUME InLibrary', Clean'
               PROVE  /\ \A t \in Slots : Reloads(t)' => calls'[t].page = shelf'.page
                      /\ (\A t \in Slots : ~Changed(t)') => ListsAreCurrent'
    BY DEF CurrentInv
  <2>3. \A t \in Slots \ {s} : ~Lists(t)
    BY <1>3, <1>4, <2>1 DEF WorkInv, Clean
  <2>4. /\ ~Lists(s)' /\ ~Reloads(s)' /\ ~Changed(s)
        /\ \A t \in Slots \ {s} : /\ Lists(t)' <=> Lists(t)
                                  /\ Reloads(t)' <=> Reloads(t)
                                  /\ Changed(t)' <=> Changed(t)
    BY <2>1, CallsHaveShape DEF Lists, Reloads, Changed
  <2>5. \A t \in Slots : Reloads(t)' => calls'[t].page = shelf'.page
    BY <1>3, <1>4, <2>1, <2>2, <2>4 DEF CurrentInv
  <2>6. ASSUME \A t \in Slots : ~Changed(t)'
        PROVE  ListsAreCurrent'
    <3>1. ListsAreCurrent
      BY <1>3, <1>4, <2>4, <2>6 DEF CurrentInv
    <3>2. \/ calls[s].reply = "ok" /\ OnPage(calls[s].list)
          \/ Beyond(library, shelf.page)
      BY <2>1, <3>1 DEF ListsAreCurrent, Ok
    <3>3. \/ shelf'.list = ListOf(library, shelf.page)
          \/ Beyond(library, shelf.page)
      BY <1>3, <2>2, <3>2 DEF OnPage, Ok
    <3>4. OnPage(shelf.list)'
      BY <1>2, <1>3, <2>2, <3>3 DEF OnPage, ListOf, Beyond, Pages
    <3> QED
      BY <2>3, <2>4, <3>4 DEF ListsAreCurrent
  <2> QED
    BY <2>5, <2>6
<1>7. CASE UploadStored(s) \/ (EraseEnds(s) /\ Ok(s))
  <2> DEFINE c == Calling("list", calls[s].for, NoDoc, calls[s].page)
  <2>1. calls[s].for \in {"nobody", "screen", "upload", "erase"}
    BY <1>5 DEF IsCall, CallWith
  <2>2. c.kind = "list" /\ c.reply = "none" /\ c.page = calls[s].page
    BY <2>1, CallingIs
  <2>3. ~Lists(s) /\ Reloads(s) /\ LoadPage(s)
    BY <1>7 DEF UploadStored, EraseEnds, Answered, Lists, Reloads
  <2> HIDE DEF c
  <2>4. calls'[s] = c /\ \A t \in Slots \ {s} : calls'[t] = calls[t]
    BY <2>3 DEF LoadPage, Send, ShapeInv, c
  <2>5. InLibrary => shelf'.page = shelf.page
    BY <1>5, <2>3 DEF LoadPage, OnShelf, IsShelf
  <2>6. InLibrary /\ (\E t \in Slots : Lists(t)) => "loads crossed" \in mishaps'
    BY <2>3 DEF LoadPage, Suffer, InFlight, Lists
  <2>7. InLibrary' /\ Clean' => \A t \in Slots : ~Lists(t)
    BY <1>3, <2>6 DEF Clean
  <2>8. InLibrary /\ Clean => \A t \in Slots : Reloads(t) => calls[t].page = shelf.page
    BY DEF CurrentInv
  <2> QED
    BY <1>2, <1>3, <1>4, <2>2, <2>3, <2>4, <2>5, <2>7, <2>8, ReloadIsCurrent DEF Lists
<1>8. CASE EraseEnds(s) /\ ~Ok(s)
  <2>1. /\ calls'[s] = NoCall /\ \A t \in Slots \ {s} : calls'[t] = calls[t]
        /\ shelf' = shelf
    BY <1>8 DEF EraseEnds, Over, ShapeInv
  <2>2. ~Changed(s) /\ ~Lists(s)
    BY <1>8 DEF EraseEnds, Answered, Ok, Changed, Lists
  <2> QED
    BY <1>2, <1>3, <1>4, <2>1, <2>2, CallsHaveShape, CurrentKept DEF Lists, Reloads
<1>9. CASE UploadIsDuplicate(s)
  <2> DEFINE c == Calling("get", "upload", calls[s].doc, 0)
  <2>1. c.kind = "get"
    BY CallingIs
  <2> HIDE DEF c
  <2>2. /\ calls'[s] = c /\ \A t \in Slots \ {s} : calls'[t] = calls[t]
        /\ shelf' = shelf
    BY <1>9 DEF UploadIsDuplicate, Send, ShapeInv, screens, c
  <2>3. ~Changed(s) /\ ~Lists(s)
    BY <1>9 DEF UploadIsDuplicate, Answered, Changed, Lists
  <2> QED
    BY <1>2, <1>3, <1>4, <2>1, <2>2, <2>3, CurrentKept DEF Lists, Reloads
<1>10. CASE UploadFails(s)
  <2>1. /\ calls'[s] = NoCall /\ \A t \in Slots \ {s} : calls'[t] = calls[t]
        /\ InLibrary => shelf'.page = shelf.page /\ shelf'.list = shelf.list
    BY <1>5, <1>10 DEF UploadFails, Over, ShapeInv, OnShelf, IsShelf
  <2>2. ~Changed(s) /\ ~Lists(s)
    BY <1>10 DEF UploadFails, Answered, Ok, Changed, Lists
  <2> QED
    BY <1>2, <1>3, <1>4, <2>1, <2>2, CallsHaveShape, CurrentKept DEF Lists, Reloads
<1>11. CASE TocArrives(s)
  <2>1. /\ calls'[s] = NoCall /\ \A t \in Slots \ {s} : calls'[t] = calls[t]
        /\ shelf' = shelf
    BY <1>11 DEF TocArrives, Over, ShapeInv
  <2>2. ~Changed(s) /\ ~Lists(s)
    BY <1>11 DEF TocArrives, Answered, Changed, Lists
  <2> QED
    BY <1>2, <1>3, <1>4, <2>1, <2>2, CallsHaveShape, CurrentKept DEF Lists, Reloads
<1> QED
  BY <1>6, <1>7, <1>8, <1>9, <1>10, <1>11 DEF Deliver

LEMMA UserCurrent ==
  ASSUME ShapeInv, CurrentInv, NEW s \in Slots, User(s)
  PROVE  CurrentInv'
<1>1. IsShelf(shelf)
  BY DEF ShapeInv
<1>2. calls[s] = NoCall => ~Lists(s) /\ ~Reloads(s) /\ ~Changed(s)
  BY CallsHaveShape DEF Lists, Reloads, Changed
<1>3. ASSUME NEW d \in Docs, PickFile(s, d) \/ ConfirmErase(s, d)
      PROVE  CurrentInv'
  <2>1. PICK c : /\ calls' = [calls EXCEPT ![s] = c]
                 /\ c.kind \in {"upload", "erase"} /\ c.page = shelf.page
                 /\ c.reply = "none"
    <3>1. \A k \in {"upload", "erase"} :
            LET e == Calling(k, k, d, shelf.page)
            IN e.kind = k /\ e.page = shelf.page /\ e.reply = "none"
      BY CallingIs
    <3> QED
      BY <1>3, <3>1 DEF PickFile, ConfirmErase, Send
  <2>2. /\ calls[s] = NoCall /\ library' = library /\ view' = view
        /\ mishaps \subseteq mishaps'
        /\ shelf'.page = shelf.page /\ shelf'.list = shelf.list
    BY <1>1, <1>3 DEF PickFile, ConfirmErase, Free, Suffer, IsShelf, server, screens
  <2>3. calls'[s] = c /\ \A t \in Slots \ {s} : calls'[t] = calls[t]
    BY <2>1 DEF ShapeInv
  <2>4. (InLibrary' <=> InLibrary) /\ (Clean' => Clean)
    BY <2>2 DEF InLibrary, Clean
  <2> QED
    BY <1>2, <2>1, <2>2, <2>3, <2>4, CurrentKept DEF Lists
<1>4. ASSUME NEW p, TurnPage(s, p)
      PROVE  CurrentInv'
  <2> DEFINE c == Calling("list", "screen", NoDoc, p)
  <2>1. c.kind = "list" /\ c.reply = "none" /\ c.page = p
    BY CallingIs
  <2> HIDE DEF c
  <2>2. /\ calls[s] = NoCall /\ library' = library /\ view' = view
        /\ shelf'.page = p
    BY <1>1, <1>4 DEF TurnPage, Free, IsShelf, server
  <2>3. calls'[s] = c /\ \A t \in Slots \ {s} : calls'[t] = calls[t]
    BY <1>4 DEF TurnPage, Send, ShapeInv, c
  <2>4. InLibrary /\ (\E t \in Slots : Reloads(t)) => "loads crossed" \in mishaps'
    BY <1>4 DEF TurnPage, Suffer, InFlight, Reloads
  <2>5. InLibrary' /\ Clean' => \A t \in Slots : ~Reloads(t) /\ ~Lists(t)
    BY <2>2, <2>4 DEF InLibrary, Clean, Reloads, Lists
  <2> QED
    BY <2>1, <2>2, <2>3, <2>5, ReloadIsCurrent DEF Lists
<1>5. ASSUME NEW d \in Docs, OpenCard(s, d)
      PROVE  CurrentInv'
  BY <1>5, CurrentOnlyInLibrary DEF OpenCard, OpenDocument, InLibrary
<1>6. CASE StartChat(s)
  BY <1>6, CurrentOnlyInLibrary DEF StartChat, ShapeInv, InLibrary
<1> QED
  BY <1>3, <1>4, <1>5, <1>6 DEF User

LEMMA CurrentStep ==
  ShapeInv /\ WorkInv /\ CurrentInv /\ [Next]_vars => CurrentInv'
<1> SUFFICES ASSUME ShapeInv, WorkInv, CurrentInv, [Next]_vars
             PROVE  CurrentInv'
  OBVIOUS
<1>1. CASE UNCHANGED vars \/ SelectSection
  <2>1. UNCHANGED <<library, calls, view, shelf, mishaps>>
    BY <1>1 DEF vars, server, screens, SelectSection
  <2> QED
    BY <2>1 DEF CurrentInv, InLibrary, Clean, Reloads, Changed, ListsAreCurrent,
                Lists, Ok, OnPage, ListOf, Beyond, Pages
<1> QED
  BY <1>1, ServeCurrent, DeliverCurrent, UserCurrent DEF Next

LEMMA CurrentTells == ShapeInv /\ CurrentInv => LibraryIsCurrent
<1> SUFFICES ASSUME CurrentInv, InLibrary, Clean,
                    InFlight({"list", "upload", "erase"}) = {}
             PROVE  OnPage(shelf.list)
  BY DEF LibraryIsCurrent, GridShown, OnPage, Clean
<1>1. \A s \in Slots : ~Lists(s) /\ ~Changed(s)
  BY DEF InFlight, Lists, Changed
<1> QED
  BY <1>1 DEF CurrentInv, ListsAreCurrent

-----------------------------------------------------------------------------
(* Types.  That pages are of documents there are rests on none being listed *)
(* twice; who opens a document names one.                                   *)

Total == Cardinality(Docs)

LEMMA TotalIsPositive == Total \in Nat /\ Total >= 1
BY ConstantsAssumption, FS_CardinalityType, FS_EmptySet DEF Total

IsLibrary(lib) == lib \in Seq(Docs) /\ IsInjective(lib)

LEMMA LibraryFits ==
  ASSUME NEW lib, IsLibrary(lib)
  PROVE  Len(lib) \in Nat /\ Len(lib) <= Total
<1>1. lib \in [1..Len(lib) -> Docs] /\ Len(lib) \in Nat
  BY DEF IsLibrary
<1>2. lib \in Injection(1..Len(lib), Docs)
  BY <1>1 DEF IsLibrary, Injection, IsInjective
<1>3. Cardinality(1..Len(lib)) <= Total
  BY <1>2, ConstantsAssumption, FS_Injection DEF Total
<1>4. Cardinality(1..Len(lib)) = Len(lib)
  <2>1. 1 \in Int /\ Len(lib) \in Int
    BY <1>1
  <2>2. Cardinality(1..Len(lib)) =
          IF 1 > Len(lib) THEN 0 ELSE Len(lib) - 1 + 1
    BY <2>1, FS_Interval
  <2> QED
    BY <1>1, <2>2
<1> QED
  BY <1>1, <1>3, <1>4

LEMMA PagesFit ==
  ASSUME NEW lib, IsLibrary(lib)
  PROVE  /\ Pages(lib) \in 0..Total
         /\ \A p \in 1..Pages(lib) : (p - 1) * PageSize + 1 <= Len(lib)
<1> DEFINE n == Len(lib)
           x == n + PageSize - 1
           q == x \div PageSize
<1>1. n \in Nat /\ n <= Total
  BY LibraryFits
<1>2. PageSize \in Nat /\ PageSize >= 1
  BY ConstantsAssumption
<1> HIDE DEF n
<1>3. x \in Nat /\ x = n + PageSize - 1
  BY <1>1, <1>2
<1>4. q \in Nat /\ q * PageSize <= x
  BY <1>2, <1>3
<1> HIDE DEF x, q
<1>5. \A p \in 1..q : (p - 1) * PageSize + 1 <= n
  <2> TAKE p \in 1..q
  <2>1. p * PageSize <= q * PageSize
    BY <1>2, <1>4
  <2>2. (p - 1) * PageSize = p * PageSize - PageSize
    BY <1>2
  <2>3. p * PageSize \in Int /\ q * PageSize \in Int
    BY <1>2, <1>4
  <2> QED
    BY <1>1, <1>2, <1>3, <1>4, <2>1, <2>2, <2>3
<1>6. q <= n
  <2>1. CASE q = 0
    BY <1>1, <2>1
  <2>2. CASE q # 0
    <3>1. (q - 1) * PageSize + 1 <= n
      BY <1>4, <1>5, <2>2
    <3>2. q - 1 <= (q - 1) * PageSize
      BY <1>2, <1>4, <2>2
    <3>3. (q - 1) * PageSize \in Int
      BY <1>2, <1>4
    <3> QED
      BY <1>1, <1>4, <3>1, <3>2, <3>3
  <2> QED
    BY <2>1, <2>2
<1>7. Pages(lib) = q
  BY DEF Pages, q, x, n
<1> QED
  BY <1>1, <1>4, <1>5, <1>6, <1>7, TotalIsPositive DEF n

ListType == [page: 0..Total, pages: 0..Total, docs: Seq(Docs)]

LEMMA ListsAreTyped ==
  /\ NoList \in ListType
  /\ \A lib, p : IsLibrary(lib) /\ p \in 1..Total /\ ~Beyond(lib, p) =>
                ListOf(lib, p) \in ListType
<1>1. NoList \in ListType
  BY TotalIsPositive DEF NoList, ListType
<1>2. ASSUME NEW lib, NEW p, IsLibrary(lib), p \in 1..Total
      PROVE  ListOf(lib, p) \in ListType
  <2> DEFINE a == (p - 1) * PageSize + 1
             b == IF p * PageSize < Len(lib) THEN p * PageSize ELSE Len(lib)
  <2>1. PageSize \in Nat /\ PageSize >= 1 /\ p \in Nat /\ p >= 1
    BY <1>2, ConstantsAssumption, TotalIsPositive
  <2>2. Len(lib) \in Nat /\ \A i \in 1..Len(lib) : lib[i] \in Docs
    BY <1>2, LibraryFits DEF IsLibrary
  <2>3. p * PageSize \in Int /\ (p - 1) * PageSize \in Nat
    BY <2>1
  <2>4. a \in Int /\ b \in Int /\ 1 <= a /\ b <= Len(lib)
    BY <2>2, <2>3
  <2> HIDE DEF a, b
  <2>5. \A i \in a..b : lib[i] \in Docs
    BY <2>2, <2>4
  <2>6. SubSeq(lib, a, b) \in Seq(Docs)
    BY <2>4, <2>5, SubSeqProperties
  <2>7. ListOf(lib, p) = [page |-> p, pages |-> Pages(lib),
                          docs |-> SubSeq(lib, a, b)]
    BY DEF ListOf, a, b
  <2> QED
    BY <1>2, <2>1, <2>6, <2>7, PagesFit DEF ListType
<1> QED
  BY <1>1, <1>2

(* The server's library, when a document comes or goes.                     *)
LEMMA LibraryGrows ==
  ASSUME NEW lib, IsLibrary(lib), NEW d \in Docs, d \notin ToSet(lib)
  PROVE  /\ IsLibrary(Append(lib, d))
         /\ ToSet(Append(lib, d)) = ToSet(lib) \cup {d}
<1> DEFINE n == Append(lib, d)
<1>1. lib \in Seq(Docs) /\ Len(lib) \in Nat
  BY DEF IsLibrary
<1>2. /\ n \in Seq(Docs) /\ Len(n) = Len(lib) + 1 /\ n[Len(lib) + 1] = d
      /\ \A i \in 1..Len(lib) : n[i] = lib[i]
  BY <1>1, AppendProperties
<1> HIDE DEF n
<1>3. DOMAIN n = 1..(Len(lib) + 1) /\ DOMAIN lib = 1..Len(lib)
  BY <1>1, <1>2
<1>4. \A i \in 1..Len(lib) : lib[i] # d
  BY <1>3 DEF ToSet
<1>5. IsInjective(n)
  BY <1>1, <1>2, <1>3, <1>4 DEF IsInjective, IsLibrary
<1>6. ToSet(n) = ToSet(lib) \cup {d}
  BY <1>1, <1>2, <1>3 DEF ToSet
<1> QED
  BY <1>2, <1>5, <1>6 DEF IsLibrary, n

LEMMA LibraryShrinks ==
  ASSUME NEW lib, IsLibrary(lib), NEW k \in DOMAIN lib
  PROVE  /\ IsLibrary(RemoveAt(lib, k))
         /\ ToSet(RemoveAt(lib, k)) \subseteq ToSet(lib) \ {lib[k]}
<1> DEFINE n == RemoveAt(lib, k)
<1>1. /\ lib \in Seq(Docs) /\ Len(lib) \in Nat /\ DOMAIN lib = 1..Len(lib)
      /\ k \in 1..Len(lib)
  BY DEF IsLibrary
<1>2. /\ n \in Seq(Docs) /\ Len(n) = Len(lib) - 1
      /\ \A i \in 1..(Len(lib) - 1) :
           n[i] = IF i < k THEN lib[i] ELSE lib[i + 1]
  BY <1>1, RemoveAtIs
<1> HIDE DEF n
<1>3. DOMAIN n = 1..(Len(lib) - 1)
  BY <1>1, <1>2
<1> DEFINE At(i) == IF i < k THEN i ELSE i + 1
<1>4. \A i \in DOMAIN n : At(i) \in DOMAIN lib \ {k} /\ n[i] = lib[At(i)]
  BY <1>1, <1>2, <1>3
<1>5. \A i, j \in DOMAIN n : At(i) = At(j) => i = j
  BY <1>1, <1>3
<1> HIDE DEF At
<1>6. \A a, b \in DOMAIN lib : lib[a] = lib[b] => a = b
  BY DEF IsLibrary, IsInjective
<1>7. IsInjective(n)
  BY <1>4, <1>5, <1>6 DEF IsInjective
<1>8. ToSet(n) \subseteq ToSet(lib) \ {lib[k]}
  BY <1>4, <1>6 DEF ToSet
<1> QED
  BY <1>2, <1>7, <1>8 DEF IsLibrary, n

LEMMA LibraryBegins ==
  ASSUME NEW n \in 0..Total
  PROVE  IsLibrary(SubSeq(SetToSeq(Docs), 1, n))
<1> DEFINE f == SetToSeq(Docs)
           g == SubSeq(f, 1, n)
<1>1. \E h \in [1..Total -> Docs] : IsInjective(h)
  <2>1. PICK m \in Nat : ExistsBijection(1..m, Docs)
    BY ConstantsAssumption, FS_NatBijection
  <2>2. m = Total
    BY <2>1, FS_CountingElements DEF Total
  <2> QED
    BY <2>1, <2>2 DEF ExistsBijection, Bijection, Injection, IsInjective
<1>2. f \in [1..Total -> Docs] /\ IsInjective(f)
  BY <1>1 DEF SetToSeq, Total
<1> HIDE DEF f
<1>3. n \in Nat /\ n <= Total /\ \A i \in 1..n : f[i] \in Docs
  BY <1>2, TotalIsPositive
<1>4. /\ g \in Seq(Docs) /\ Len(g) = n
      /\ \A i \in 1..n : g[i] = f[i]
  <2>1. /\ g \in Seq(Docs) /\ Len(g) = IF 1 <= n THEN n - 1 + 1 ELSE 0
        /\ \A i \in 1..(n - 1 + 1) : g[i] = f[1 + i - 1]
    BY <1>3, SubSeqProperties
  <2> QED
    BY <1>3, <2>1
<1> HIDE DEF g
<1>5. DOMAIN g = 1..n
  BY <1>3, <1>4
<1>6. IsInjective(g)
  BY <1>2, <1>3, <1>4, <1>5, TotalIsPositive DEF IsInjective
<1> QED
  BY <1>4, <1>6 DEF IsLibrary, f, g

CallTyped(c) ==
  /\ c.doc \in Names /\ c.page \in 0..Total /\ c.list \in ListType
  /\ c.kind \in {"upload", "erase", "get", "toc"} => c.doc \in Docs
  /\ c.kind \in {"list", "upload", "erase"} => c.page >= 1

TypeInv ==
  /\ IsLibrary(library)
  /\ erased \subseteq Docs /\ erased \cap ToSet(library) = {}
  /\ \A s \in Slots : CallTyped(calls[s])
  /\ shelf.list \in ListType /\ shelf.page \in 1..Total
  /\ view.doc \in Names /\ (view.doc = NoDoc <=> InLibrary)
  /\ reader.toc \in Names /\ reader.selected \in Names

LEMMA NewCallsTyped ==
  /\ CallTyped(NoCall)
  /\ \A d \in Docs :
       /\ CallTyped(Calling("get", "upload", d, 0))
       /\ CallTyped(Calling("toc", "screen", d, 0))
       /\ \A p \in 1..Total : /\ CallTyped(Calling("upload", "upload", d, p))
                             /\ CallTyped(Calling("erase", "erase", d, p))
  /\ \A p \in 1..Total :
       \A f \in {"nobody", "screen", "upload", "erase"} :
         CallTyped(Calling("list", f, NoDoc, p))
<1>1. CallTyped(NoCall)
  BY TotalIsPositive, ListsAreTyped DEF CallTyped, NoCall, Names
<1>2. ASSUME NEW k \in {"list", "upload", "erase", "get", "toc"},
             NEW f \in {"nobody", "screen", "upload", "erase"},
             NEW d \in Names, NEW p \in 0..Total,
             d \in Docs \/ k = "list", p >= 1 \/ k \in {"get", "toc"}
      PROVE  CallTyped(Calling(k, f, d, p))
  <2> DEFINE c == Calling(k, f, d, p)
  <2>1. /\ c \in CallWith(d, p, NoList)
        /\ c.kind = k /\ c.doc = d /\ c.page = p
    BY CallingIs
  <2>2. c.list = NoList
    BY <2>1 DEF CallWith
  <2> HIDE DEF c
  <2>3. CallTyped(c)
    BY <1>2, <2>1, <2>2, ListsAreTyped DEF CallTyped
  <2> QED
    BY <2>3 DEF c
<1>3. NoDoc \in Names /\ Docs \subseteq Names /\ 0 \in 0..Total
      /\ \A p \in 1..Total : p \in 0..Total /\ p >= 1
  BY TotalIsPositive DEF Names
<1> QED
  BY <1>1, <1>2, <1>3

LEMMA ServeTyped ==
  ASSUME ShapeInv, TypeInv, NEW s \in Slots, Serve(s)
  PROVE  TypeInv'
<1>1. UNCHANGED <<view, shelf, reader>>
  BY ServeEffect DEF screens
<1>2. SUFFICES /\ IsLibrary(library')
               /\ erased' \subseteq Docs /\ erased' \cap ToSet(library') = {}
               /\ \A t \in Slots : CallTyped(calls'[t])
  BY <1>1 DEF TypeInv, InLibrary
<1>3. ASSUME NEW x, calls' = [calls EXCEPT ![s].reply = x]
      PROVE  \A t \in Slots : CallTyped(calls'[t])
  BY <1>3, ReplyFields DEF TypeInv, CallTyped
<1>4. ASSUME NEW x, NEW l \in ListType,
             calls' = [calls EXCEPT ![s].reply = x, ![s].list = l]
      PROVE  \A t \in Slots : CallTyped(calls'[t])
  <2>1. /\ calls'[s].kind = calls[s].kind /\ calls'[s].doc = calls[s].doc
        /\ calls'[s].page = calls[s].page /\ calls'[s].list = l
        /\ \A t \in Slots \ {s} : calls'[t] = calls[t]
    <3>1. calls'[s] = Listed(calls[s], x, l)
      BY <1>4, Zenon DEF ShapeInv, Listed
    <3>2. \A t \in Slots \ {s} : calls'[t] = calls[t]
      BY <1>4 DEF ShapeInv
    <3> QED
      BY <3>1, <3>2, ListFields DEF ShapeInv
  <2> QED
    BY <2>1 DEF TypeInv, CallTyped
<1>5. CASE AnswerList(s)
  <2>1. UNCHANGED server /\ calls[s].kind = "list"
    BY <1>5 DEF AnswerList, Waiting
  <2>2. calls[s].page \in 1..Total
    BY <2>1, TotalIsPositive DEF TypeInv, CallTyped
  <2>3. CASE Beyond(library, calls[s].page)
    BY <1>3, <1>5, <2>1, <2>3 DEF AnswerList, Reply, TypeInv, server
  <2>4. CASE ~Beyond(library, calls[s].page)
    <3>1. ListOf(library, calls[s].page) \in ListType
      BY <2>2, <2>4, ListsAreTyped DEF TypeInv
    <3> QED
      BY <1>4, <1>5, <2>1, <2>4, <3>1 DEF AnswerList, TypeInv, server
  <2> QED
    BY <2>3, <2>4
<1>6. CASE AnswerRecord(s) \/ RefuseCall(s)
  BY <1>3, <1>6 DEF AnswerRecord, RefuseCall, Reply, TypeInv, server
<1>7. CASE AnswerUpload(s)
  <2> DEFINE d == calls[s].doc
  <2>1. d \in Docs
    BY <1>7 DEF AnswerUpload, Waiting, TypeInv, CallTyped
  <2>2. /\ erased' = erased
        /\ \/ library' = library
           \/ ~Kept(d) /\ d \notin erased /\ library' = Append(library, d)
    BY <1>7 DEF AnswerUpload
  <2>3. \E x : calls' = [calls EXCEPT ![s].reply = x]
    BY <1>7 DEF AnswerUpload, Reply
  <2> HIDE DEF d
  <2>4. \/ library' = library
        \/ /\ IsLibrary(library') /\ d \notin erased
           /\ ToSet(library') = ToSet(library) \cup {d}
    <3>1. IsLibrary(library)
      BY DEF TypeInv
    <3>2. d \notin ToSet(library) =>
            /\ IsLibrary(Append(library, d))
            /\ ToSet(Append(library, d)) = ToSet(library) \cup {d}
      BY <2>1, <3>1, LibraryGrows
    <3> QED
      BY <2>2, <3>2, Zenon DEF Kept
  <2> QED
    BY <1>3, <2>2, <2>3, <2>4 DEF TypeInv
<1>8. CASE AnswerErase(s)
  <2> DEFINE d == calls[s].doc
  <2>1. d \in Docs /\ \E x : calls' = [calls EXCEPT ![s].reply = x]
    BY <1>8 DEF AnswerErase, Waiting, Reply, TypeInv, CallTyped
  <2>2. CASE Kept(d)
    <3> DEFINE k == CHOOSE i \in DOMAIN library : library[i] = d
    <3>1. k \in DOMAIN library /\ library[k] = d
      BY <2>2 DEF Kept, ToSet
    <3>2. library' = RemoveAt(library, k) /\ erased' = erased \cup {d}
      BY <1>8, <2>2 DEF AnswerErase
    <3> HIDE DEF k
    <3> QED
      BY <1>3, <2>1, <3>1, <3>2, LibraryShrinks DEF TypeInv
  <2>3. CASE ~Kept(d)
    BY <1>3, <1>8, <2>1, <2>3 DEF AnswerErase, TypeInv, server
  <2> QED
    BY <2>2, <2>3
<1>9. CASE LoseCall(s)
  BY <1>4, <1>9, ListsAreTyped DEF LoseCall, TypeInv, server
<1> QED
  BY <1>5, <1>6, <1>7, <1>8, <1>9 DEF Serve

LEMMA AbandonedTyped ==
  ASSUME ShapeInv, TypeInv
  PROVE  \A t \in Slots : CallTyped(Abandoned[t])
<1> TAKE t \in Slots
<1>1. CASE calls[t].kind # "toc"
  BY <1>1 DEF Abandoned, TypeInv
<1>2. CASE calls[t].kind = "toc"
  <2>1. Abandoned[t] = [calls[t] EXCEPT !.for = "nobody"]
    BY <1>2 DEF Abandoned
  <2> PICK d, p, m : calls[t] \in CallWith(d, p, m)
    BY DEF ShapeInv, IsCall
  <2>2. /\ Abandoned[t].kind = calls[t].kind /\ Abandoned[t].doc = calls[t].doc
        /\ Abandoned[t].page = calls[t].page /\ Abandoned[t].list = calls[t].list
    BY <2>1 DEF CallWith
  <2> QED
    BY <2>2 DEF TypeInv, CallTyped
<1> QED
  BY <1>1, <1>2

LEMMA OpenTyped ==
  ASSUME ShapeInv, TypeInv, NEW s \in Slots, NEW d \in Docs,
         OpenDocument(s, d), UNCHANGED server
  PROVE  TypeInv'
<1>1. /\ shelf'.list \in ListType /\ shelf'.page \in 1..Total
  BY ListsAreTyped, TotalIsPositive DEF OpenDocument, FreshShelf
<1>2. view'.doc = d /\ view'.name = "document"
  BY OpenEffect
<1>3. d \in Names /\ d # NoDoc /\ NoDoc \in Names
  BY ConstantsAssumption DEF Names
<1>4. reader'.toc \in Names /\ reader'.selected \in Names
  <2>1. CASE view' = view
    BY <2>1 DEF OpenDocument, TypeInv
  <2>2. CASE view' # view /\ view.name = "document"
    BY <2>2 DEF OpenDocument, TypeInv, ShapeInv, IsReader
  <2>3. CASE view' # view /\ view.name # "document"
    BY <1>3, <2>3 DEF OpenDocument, FreshReader
  <2> QED
    BY <2>1, <2>2, <2>3
<1>5. \A t \in Slots : CallTyped(calls'[t])
  <2>1. CASE calls' = [calls EXCEPT ![s] = NoCall]
    BY <2>1, NewCallsTyped DEF TypeInv, ShapeInv
  <2>2. CASE calls' = [Abandoned EXCEPT ![s] = Calling("toc", "screen", d, 0)]
    BY <2>2, AbandonedTyped, AbandonedCalls, NewCallsTyped
  <2> QED
    BY <2>1, <2>2, OpenEffect
<1> QED
  BY <1>1, <1>2, <1>3, <1>4, <1>5 DEF TypeInv, InLibrary, server

(* One call is replaced, by one that is typed.                              *)
LEMMA CallReplaced ==
  ASSUME ShapeInv, TypeInv, NEW s \in Slots, NEW c, CallTyped(c),
         calls' = [calls EXCEPT ![s] = c], UNCHANGED server,
         view' = view, shelf'.list \in ListType, shelf'.page \in 1..Total,
         reader'.toc \in Names, reader'.selected \in Names
  PROVE  TypeInv'
BY DEF ShapeInv, TypeInv, InLibrary, server

LEMMA DeliverTyped ==
  ASSUME ShapeInv, TypeInv, NEW s \in Slots, Deliver(s)
  PROVE  TypeInv'
<1>1. CASE DuplicateOpens(s)
  BY <1>1, OpenTyped DEF DuplicateOpens, Answered, TypeInv, CallTyped
<1> SUFFICES ASSUME ~DuplicateOpens(s) PROVE TypeInv'
  BY <1>1
<1>2. UNCHANGED server /\ view' = view
  BY DEF Deliver, ListArrives, UploadStored, UploadIsDuplicate, UploadFails,
         EraseEnds, TocArrives, screens
<1>3. IsCall(calls[s]) /\ CallTyped(calls[s])
  BY DEF ShapeInv, TypeInv
<1>4. shelf'.list \in ListType /\ shelf'.page \in 1..Total
  BY <1>3 DEF Deliver, ListArrives, UploadStored, UploadIsDuplicate, UploadFails,
              EraseEnds, TocArrives, LoadPage, OnShelf, screens, ShapeInv, IsShelf,
              TypeInv, CallTyped
<1>5. reader'.toc \in Names /\ reader'.selected \in Names
  BY <1>3 DEF Deliver, ListArrives, UploadStored, UploadIsDuplicate, UploadFails,
              EraseEnds, TocArrives, screens, ShapeInv, IsReader, TypeInv, CallTyped
<1>6. PICK c : calls' = [calls EXCEPT ![s] = c] /\ CallTyped(c)
  <2>1. CASE Over(s)
    BY <2>1, NewCallsTyped DEF Over
  <2>2. CASE LoadPage(s) /\ calls[s].kind \in {"upload", "erase"}
    <3>1. calls[s].for \in {"nobody", "screen", "upload", "erase"}
      BY <1>3 DEF IsCall, CallWith
    <3>2. calls[s].page \in 1..Total
      BY <1>3, <2>2, TotalIsPositive DEF CallTyped
    <3>3. CallTyped(Calling("list", calls[s].for, NoDoc, calls[s].page))
      BY <3>1, <3>2, NewCallsTyped
    <3> QED
      BY <2>2, <3>3, Zenon DEF LoadPage, Send
  <2>3. CASE UploadIsDuplicate(s)
    <3>1. calls[s].doc \in Docs
      BY <1>3, <2>3 DEF UploadIsDuplicate, Answered, CallTyped
    <3>2. CallTyped(Calling("get", "upload", calls[s].doc, 0))
      BY <3>1, NewCallsTyped
    <3> QED
      BY <2>3, <3>2, Zenon DEF UploadIsDuplicate, Send
  <2> QED
    BY <2>1, <2>2, <2>3
       DEF Deliver, ListArrives, UploadStored, UploadFails, EraseEnds, TocArrives,
           Answered
<1> QED
  BY <1>2, <1>4, <1>5, <1>6, CallReplaced

LEMMA UserTyped ==
  ASSUME ShapeInv, TypeInv, NEW s \in Slots, User(s)
  PROVE  TypeInv'
<1>1. shelf.page \in 1..Total /\ shelf.list \in ListType
  BY DEF TypeInv
<1>2. ASSUME NEW d \in Docs, PickFile(s, d) \/ ConfirmErase(s, d)
      PROVE  TypeInv'
  <2>1. PICK c : calls' = [calls EXCEPT ![s] = c] /\ CallTyped(c)
    <3>1. /\ CallTyped(Calling("upload", "upload", d, shelf.page))
          /\ CallTyped(Calling("erase", "erase", d, shelf.page))
      BY <1>1, NewCallsTyped
    <3> QED
      BY <1>2, <3>1, Zenon DEF PickFile, ConfirmErase, Send
  <2>2. /\ UNCHANGED <<server, view, reader>>
        /\ shelf'.list = shelf.list /\ shelf'.page = shelf.page
    BY <1>2 DEF PickFile, ConfirmErase, screens, ShapeInv, IsShelf
  <2> QED
    BY <1>1, <2>1, <2>2, CallReplaced DEF TypeInv
<1>3. ASSUME NEW p \in 1..shelf.list.pages, TurnPage(s, p)
      PROVE  TypeInv'
  <2>1. p \in 1..Total
    BY <1>1, TotalIsPositive DEF ListType
  <2>2. CallTyped(Calling("list", "screen", NoDoc, p))
    BY <2>1, NewCallsTyped
  <2>3. calls' = [calls EXCEPT ![s] = Calling("list", "screen", NoDoc, p)]
    BY <1>3 DEF TurnPage, Send
  <2>4. /\ UNCHANGED <<server, view, reader>>
        /\ shelf'.list = shelf.list /\ shelf'.page = p
    BY <1>3 DEF TurnPage, ShapeInv, IsShelf
  <2> QED
    BY <1>1, <2>1, <2>2, <2>3, <2>4, CallReplaced DEF TypeInv
<1>4. ASSUME NEW d \in Docs, OpenCard(s, d)
      PROVE  TypeInv'
  BY <1>4, OpenTyped DEF OpenCard
<1>5. CASE StartChat(s)
  <2>1. /\ UNCHANGED <<server, shelf>> /\ reader' = FreshReader
        /\ view' = [view EXCEPT !.name = "chat"]
        /\ calls' = [Abandoned EXCEPT ![s] = Calling("toc", "screen", view.doc, 0)]
        /\ view.name = "document"
    BY <1>5 DEF StartChat, ContentsShown
  <2>2. view'.doc = view.doc /\ view'.name = "chat"
    BY <2>1 DEF ShapeInv
  <2>3. view.doc \in Docs /\ view.doc # NoDoc
    BY <2>1 DEF TypeInv, InLibrary, Names
  <2>4. \A t \in Slots : CallTyped(calls'[t])
    BY <2>1, <2>3, AbandonedTyped, AbandonedCalls, NewCallsTyped
  <2>5. reader'.toc \in Names /\ reader'.selected \in Names
    BY <2>1 DEF FreshReader, Names
  <2> QED
    BY <2>1, <2>2, <2>3, <2>4, <2>5 DEF TypeInv, InLibrary, server
<1> QED
  BY <1>2, <1>3, <1>4, <1>5 DEF User

LEMMA TypeStep == ShapeInv /\ TypeInv /\ [Next]_vars => TypeInv'
<1> SUFFICES ASSUME ShapeInv, TypeInv, [Next]_vars
             PROVE  TypeInv'
  OBVIOUS
<1>1. CASE UNCHANGED vars
  BY <1>1 DEF vars, server, screens, TypeInv, InLibrary
<1>2. CASE SelectSection
  BY <1>2 DEF SelectSection, server, ShapeInv, IsReader, TypeInv, InLibrary
<1> QED
  BY <1>1, <1>2, ServeTyped, DeliverTyped, UserTyped DEF Next

LEMMA TypeTells == ShapeInv /\ FetchInv /\ TypeInv => TypeOK
<1> SUFFICES ASSUME ShapeInv, FetchInv, TypeInv
             PROVE  TypeOK
  OBVIOUS
<1>1. calls \in [Slots -> Call]
  <2>1. ASSUME NEW s \in Slots
        PROVE  calls[s] \in Call
    <3>1. CallTyped(calls[s])
      BY DEF TypeInv
    <3> PICK d, p, m : calls[s] \in CallWith(d, p, m)
      BY DEF ShapeInv, IsCall
    <3> QED
      BY <3>1 DEF CallTyped, CallWith, Call, ListType, Total
  <2> QED
    BY <2>1 DEF ShapeInv
<1>2. \A s, t \in Slots :
        /\ calls[s].kind = "toc" /\ calls[s].for = "screen"
        /\ calls[t].kind = "toc" /\ calls[t].for = "screen"
        => s = t /\ calls[s].doc = view.doc
  BY DEF FetchInv, FetchesToc
<1> QED
  BY <1>1, <1>2 DEF TypeOK, TypeInv, ShapeInv, FetchInv, Screens, IsLibrary,
                    IsShelf, IsReader, Total

-----------------------------------------------------------------------------
Invs ==
  ShapeInv /\ WorkInv /\ FetchInv /\ HonestInv /\ CurrentInv /\ TypeInv

LEMMA InitInvs == Init => Invs
<1> SUFFICES ASSUME Init PROVE Invs
  OBVIOUS
<1> DEFINE c == Calling("list", "screen", NoDoc, 1)
<1>1. IsCall(c) /\ c.kind = "list" /\ c.for = "screen"
  BY CallingIs, CallsHaveShape
<1> HIDE DEF c
<1>2. /\ 1 \in Slots
      /\ calls = [s \in Slots |-> IF s = 1 THEN c ELSE NoCall]
  BY ConstantsAssumption DEF Init, Slots, c
<1>3. /\ view.name = "library"
      /\ view = [name |-> view.name, doc |-> view.doc]
      /\ IsShelf(shelf) /\ shelf.loading /\ ~shelf.uploading
  BY DEF Init, FreshShelf, IsShelf
<1>4. IsReader(reader)
  BY DEF Init, FreshReader, IsReader
<1>5. /\ \A s \in Slots : IsCall(calls[s])
      /\ \A s \in Slots : Lists(s) <=> s = 1
      /\ \A s \in Slots : ~Uploading(s) /\ ~FetchesToc(s)
  BY <1>1, <1>2, CallsHaveShape DEF Lists, Uploading, FetchesToc
<1>6. ShapeInv
  BY <1>2, <1>3, <1>4, <1>5 DEF ShapeInv
<1>7. WorkInv
  BY <1>2, <1>3, <1>5 DEF WorkInv
<1>8. FetchInv /\ HonestInv
  BY <1>3, <1>5 DEF FetchInv, HonestInv, Screens
<1>9. c.reply = "none" /\ c.page = 1 /\ CallTyped(c)
  BY CallingIs, NewCallsTyped, TotalIsPositive DEF c
<1>10. shelf.page = 1 /\ shelf.list = NoList
  BY DEF Init, FreshShelf
<1>11. CurrentInv
  BY <1>2, <1>5, <1>9, <1>10, CallsHaveShape
     DEF CurrentInv, Reloads, ListsAreCurrent, Lists, Ok
<1>12. TypeInv
  <2>1. IsLibrary(library) /\ erased = {}
    BY LibraryBegins DEF Init, Total
  <2>2. /\ shelf.list \in ListType /\ shelf.page \in 1..Total
        /\ \A s \in Slots : CallTyped(calls[s])
    BY <1>2, <1>9, <1>10, NewCallsTyped, ListsAreTyped, TotalIsPositive
  <2>3. /\ view.doc \in Names /\ (view.doc = NoDoc <=> InLibrary)
        /\ reader.toc \in Names /\ reader.selected \in Names
    BY DEF Init, FreshReader, Names, InLibrary
  <2> QED
    BY <2>1, <2>2, <2>3 DEF TypeInv
<1> QED
  BY <1>6, <1>7, <1>8, <1>11, <1>12 DEF Invs

LEMMA InvsStep == Invs /\ [Next]_vars => Invs'
BY ShapeStep, WorkStep, FetchStep, HonestStep, CurrentStep, TypeStep DEF Invs

LEMMA InvsTell ==
  Invs => TypeOK /\ FlagsFollowCalls /\ ScreensShowWhatTheyName
<1> SUFFICES ASSUME Invs
             PROVE  TypeOK /\ FlagsFollowCalls /\ ScreensShowWhatTheyName
  OBVIOUS
<1>1. /\ InFlight({"list"}) = {s \in Slots : Lists(s)}
      /\ Uploads = {s \in Slots : Uploading(s)}
  BY DEF InFlight, Uploads, Lists, Uploading, Invs, ShapeInv, IsCall, TakerFits
<1>2. FlagsFollowCalls
  BY <1>1 DEF FlagsFollowCalls, Invs, WorkInv, FetchInv
<1>3. ReaderShowsWhatItNames
  BY DEF ReaderShowsWhatItNames, ContentsShown, Invs, HonestInv
<1>4. TypeOK /\ LibraryIsCurrent
  BY TypeTells, CurrentTells DEF Invs
<1> QED
  BY <1>2, <1>3, <1>4 DEF ScreensShowWhatTheyName

(* Every state is well typed: no document is listed twice, pages are those  *)
(* of documents there are, and at most one fetch of contents is awaited,    *)
(* for the document that is open.                                           *)
THEOREM ScreensTypeCorrect == FairSpec => []TypeOK
<1>1. Init /\ [][Next]_vars => []Invs
  BY InitInvs, InvsStep, PTL
<1>2. Invs => TypeOK
  BY InvsTell
<1> QED
  BY <1>1, <1>2, PTL DEF FairSpec

(* What the screens show as in progress is in progress and, unless loads or *)
(* uploads crossed, the reverse, in whatever order calls are answered.      *)
THEOREM FlagsTell == FairSpec => []FlagsFollowCalls
<1>1. Init /\ [][Next]_vars => []Invs
  BY InitInvs, InvsStep, PTL
<1>2. Invs => FlagsFollowCalls
  BY InvsTell
<1> QED
  BY <1>1, <1>2, PTL DEF FairSpec

(* Contents shown under a document's name are that document's, unless its   *)
(* fetch failed without an answer, and so is the section selected in them,  *)
(* unless the document was changed under the user; and with nothing in      *)
(* flight the library lists what the server has on its page, unless a call  *)
(* failed, two loads crossed or the page is no more.                        *)
THEOREM ScreensAreHonest == FairSpec => []ScreensShowWhatTheyName
<1>1. Init /\ [][Next]_vars => []Invs
  BY InitInvs, InvsStep, PTL
<1>2. Invs => ScreensShowWhatTheyName
  BY InvsTell
<1> QED
  BY <1>1, <1>2, PTL DEF FairSpec
=============================================================================
