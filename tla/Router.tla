------------------------------- MODULE Router -------------------------------
(***************************************************************************)
(* One routing request over several documents, from POST /route to its      *)
(* answer: the records are fetched concurrently and checked in the order of *)
(* the request (backend/app/api/routing.py), then each document is routed   *)
(* by itself, concurrently with the others, by one call of a language model *)
(* whose reply is not trusted (router/graph.py), and what was selected is   *)
(* merged fairly (backend/app/adapters/router.py).                          *)
(***************************************************************************)
EXTENDS Integers, FiniteSets, SequencesExt

CONSTANTS
  Docs,         \* document ids, numbered in the order of their names
  Sections,     \* section ids of a table of contents
  Fabricated,   \* section ids no table of contents has
  Levels,       \* confidences, numbered upwards
  Floor,        \* LOW_CONFIDENCE_FLOOR
  Thresholds,   \* values of confidence_threshold in use
  Caps,         \* values of max_sections in use
  MaxRanked     \* bound on the sections a reply ranks

ASSUME RouterAssumption ==
  /\ Docs \subseteq Nat /\ IsFiniteSet(Docs)
  /\ Fabricated \cap Sections = {}
  /\ Levels \subseteq Nat
  /\ Floor \in Levels
  /\ Thresholds \subseteq Nat
  /\ Caps \subseteq Nat \ {0}
  /\ MaxRanked \in Nat

(* Requests that pass validation: each document is named once, and rerank,  *)
(* which is refused before anything is read, is off.                        *)
VARIABLES
  request,   \* documents in the order asked, threshold and cap
  record,    \* what fetching each document's record gave
  toc,       \* the table of contents of each document, and who has seen it
  reply,     \* what the model's reply ranks, of each document
  answer     \* what the client is told

vars == <<request, record, toc, reply, answer>>

Records == {"unread", "unreachable", "none", "fallback", "unready", "ready"}

(* A table of contents that was read is empty or full, and is replied once  *)
(* the model answered on it.                                                *)
Tocs == {"unread", "unreachable", "empty", "full", "replied"}

(* A reply that is the JSON asked for ranks section ids, whichever it likes. *)
Rankings == BoundedSeq([section: Sections \cup Fabricated,
                        confidence: Levels], MaxRanked)

Unanswered == [status |-> 0]
Refuse(status) == answer' = [status |-> status]

Init ==
  /\ request \in [order: SetToAllKPermutations(Docs) \ {<<>>},
                  threshold: Thresholds, cap: Caps]
  /\ record = [d \in Docs |-> "unread"]
  /\ toc = [d \in Docs |-> "unread"]
  /\ reply = [d \in Docs |-> <<>>]
  /\ answer = Unanswered

Asked == ToSet(request.order)

-----------------------------------------------------------------------------
(* The records.                                                             *)

Fetch(d) ==
  /\ d \in Asked
  /\ record[d] = "unread"
  /\ \E r \in Records \ {"unread"} : record' = [record EXCEPT ![d] = r]
  /\ UNCHANGED <<request, toc, reply, answer>>

Fetched == \A d \in Asked : record[d] # "unread"

(* The first of the request that could not be used decides the answer.      *)
HasAny(bad) == \E d \in Asked : record[d] \in bad
FirstIn(bad) ==
  request.order[SelectInSeq(request.order, LAMBDA d : record[d] \in bad)]

Reject ==
  /\ Fetched
  /\ answer = Unanswered
  /\ \/ /\ HasAny({"unreachable", "none"})
        /\ Refuse(IF record[FirstIn({"unreachable", "none"})] = "none"
                   THEN 404 ELSE 503)
     \/ /\ ~HasAny({"unreachable", "none"})
        /\ HasAny({"fallback"})
        /\ Refuse(422)
     \/ /\ ~HasAny({"unreachable", "none", "fallback"})
        /\ HasAny({"unready"})
        /\ Refuse(409)
  /\ UNCHANGED <<request, record, toc, reply>>

(* Faulty: a document is routed as soon as its own record is there.         *)
AdmittedAlone(d) == record[d] = "ready"

Admitted(d) == \A e \in Asked : record[e] = "ready"

-----------------------------------------------------------------------------
(* Routing of one document.                                                 *)

Routing(d) == d \in Asked /\ Admitted(d) /\ answer = Unanswered

(* get_sections: the table of contents, empty when the document has none or *)
(* was erased by now, or a failure of the store.  An empty one is not put   *)
(* to the model.                                                            *)
ReadToc(d) ==
  /\ Routing(d)
  /\ toc[d] = "unread"
  /\ \E t \in {"unreachable", "empty", "full"} : toc' = [toc EXCEPT ![d] = t]
  /\ UNCHANGED <<request, record, reply, answer>>

SectionsOf(d) == IF toc[d] \in {"full", "replied"} THEN Sections ELSE {}

Complete(d) ==
  /\ Routing(d)
  /\ toc[d] = "full"
  /\ toc' = [toc EXCEPT ![d] = "replied"]
  /\ \E ranking \in Rankings : reply' = [reply EXCEPT ![d] = ranking]
  /\ UNCHANGED <<request, record, answer>>

(* The client of the model cannot be built, the call raises, or its text,   *)
(* perhaps empty, is not the JSON asked for: nothing is ranked.             *)
CompletionFails(d) ==
  /\ Routing(d)
  /\ toc[d] = "full"
  /\ toc' = [toc EXCEPT ![d] = "replied"]
  /\ UNCHANGED <<request, record, reply, answer>>

(* Each ranked item, with the document and its rank in the reply.           *)
Items(d) ==
  {[doc |-> d, rank |-> i, section |-> reply[d][i].section,
    confidence |-> reply[d][i].confidence] : i \in DOMAIN reply[d]}

(* Faulty: fabricated ids take part in the selection.                       *)
Unvalidated(d) == Items(d)

Validated(d) == {x \in Items(d) : x.section \in SectionsOf(d)}

(* Faulty: the order of equals is turned round with the rest.               *)
AboveUnstable(x, y) ==
  \/ x.confidence > y.confidence
  \/ x.confidence = y.confidence /\ x.rank > y.rank

(* A stable sort by descending confidence keeps equals as they were ranked. *)
Above(x, y) ==
  \/ x.confidence > y.confidence
  \/ x.confidence = y.confidence /\ x.rank < y.rank

Descending(S) ==
  CHOOSE s \in [1..Cardinality(S) -> S] :
    \A i, j \in DOMAIN s : i < j => Above(s[i], s[j])

Capped(s) == SubSeq(s, 1, IF Len(s) < request.cap THEN Len(s) ELSE request.cap)

(* The sort is stable, so it may come after the sections are singled out.   *)
ApplyThreshold(ranked) ==
  LET eligible == {x \in ranked : x.confidence >= Floor}
      high == {x \in eligible : x.confidence >= request.threshold}
      mid == {x \in eligible : x.confidence < request.threshold}
  IN Capped(Descending(IF high # {} THEN high ELSE mid))

(* What the graph puts out; selecting nothing is its fallback.              *)
Selected(d) == ApplyThreshold(Validated(d))
RouterOutput(d) == [sections |-> Selected(d), fallback |-> Selected(d) = <<>>]

(* What the document contributes: joined to its table of contents again,    *)
(* without what is not in it.                                               *)
Contribution(d) ==
  LET chosen == RouterOutput(d).sections
  IN FlattenSeq([i \in DOMAIN chosen |->
                   IF chosen[i].section \in SectionsOf(d)
                   THEN <<chosen[i]>> ELSE <<>>])

-----------------------------------------------------------------------------
(* The merge.                                                               *)

(* How many of its document's sections a stable sort by descending          *)
(* confidence puts before the i-th.                                         *)
EmissionIndex(sections, i) ==
  Cardinality({j \in DOMAIN sections :
                 /\ sections[j].doc = sections[i].doc
                 /\ \/ sections[j].confidence > sections[i].confidence
                    \/ sections[j].confidence = sections[i].confidence /\ j < i})

Emitted(sections) ==
  {[of |-> sections[i], index |-> EmissionIndex(sections, i)] :
     i \in DOMAIN sections}

Precedes(a, b) ==
  \/ a.of.confidence > b.of.confidence
  \/ /\ a.of.confidence = b.of.confidence
     /\ a.of.doc < b.of.doc \/ (a.of.doc = b.of.doc /\ a.index < b.index)

InKeyOrder(S) ==
  CHOOSE s \in [1..Cardinality(S) -> S] :
    \A i, j \in DOMAIN s : i < j => Precedes(s[i], s[j])

Representatives(sections) == {e \in Emitted(sections) : e.index = 0}
Remainder(sections) == {e \in Emitted(sections) : e.index # 0}

(* Faulty: representatives of equal confidence in the order of the request. *)
MergeInRequestOrder(sections) ==
  LET first == Descending({[confidence |-> sections[i].confidence, rank |-> i] :
                             i \in {j \in DOMAIN sections :
                                      EmissionIndex(sections, j) = 0}})
      rest == InKeyOrder(Remainder(sections))
  IN Capped([k \in DOMAIN first |-> sections[first[k].rank]]
            \o [k \in DOMAIN rest |-> rest[k].of])

MergeFairly(sections) ==
  LET merged == InKeyOrder(Representatives(sections))
                \o InKeyOrder(Remainder(sections))
  IN Capped([k \in DOMAIN merged |-> merged[k].of])

Done(d) == toc[d] \in {"unreachable", "empty", "replied"}

(* One document's failure fails the request, once all have ended.           *)
RoutingFails ==
  /\ \A d \in Asked : Routing(d) /\ Done(d)
  /\ \E d \in Asked : toc[d] = "unreachable"
  /\ Refuse(503)
  /\ UNCHANGED <<request, record, toc, reply>>

Contributions(order) ==
  FlattenSeq([i \in DOMAIN order |-> Contribution(order[i])])

RouteResponse(merged) ==
  [status |-> 200, sections |-> merged, fallback |-> merged = <<>>]

Answer ==
  /\ \A d \in Asked : Routing(d) /\ Done(d) /\ toc[d] # "unreachable"
  /\ answer' = RouteResponse(MergeFairly(Contributions(request.order)))
  /\ UNCHANGED <<request, record, toc, reply>>

Next ==
  \/ \E d \in Docs : Fetch(d) \/ ReadToc(d) \/ Complete(d) \/ CompletionFails(d)
  \/ Reject \/ RoutingFails \/ Answer

Spec == Init /\ [][Next]_vars

-----------------------------------------------------------------------------
(* Properties.                                                              *)

Routed == answer.status = 200

(* The places of a document's sections in the answer.                       *)
PlacesOf(d) == {i \in DOMAIN answer.sections : answer.sections[i].doc = d}

(* Items of a reply that may be shown: of the table and above the floor.    *)
Eligible(d) ==
  {x \in Items(d) : x.section \in SectionsOf(d) /\ x.confidence >= Floor}

(* No document is read or asked about for a request that is refused because *)
(* of another: the model is paid only when every document may be routed.    *)
RefusedUnasked ==
  answer.status \in {404, 409, 422} =>
    \A d \in Docs : toc[d] = "unread"

(* State has its types, an answer keeps to the cap that was asked for, and  *)
(* a refusal costs nothing.                                                 *)
TypeOK ==
  /\ record \in [Docs -> Records]
  /\ toc \in [Docs -> Tocs]
  /\ reply \in [Docs -> Rankings]
  /\ answer.status \in {0, 200, 404, 409, 422, 503}
  /\ Routed => Len(answer.sections) \in 0..request.cap
  /\ RefusedUnasked

(* The full document is searched if, and only if, no reply that could be    *)
(* used ranks a section of its document above the floor: neither fabricated *)
(* ids, nor the threshold, nor the cap, nor another document's failed call  *)
(* hides the one section there is.                                          *)
FallbackIsHonest ==
  Routed => (answer.fallback <=> \A d \in Asked : Eligible(d) = {})

(* Of one document, sections below the threshold are shown only if the      *)
(* reply ranks none above it.                                               *)
BandsDoNotMix ==
  Routed =>
    \A d \in Asked : \A x \in Eligible(d) :
      x.confidence >= request.threshold =>
        \A i \in PlacesOf(d) :
          answer.sections[i].confidence >= request.threshold

(* Of one document, a section is never left out, or put later, in favour of *)
(* one that the reply ranks lower or equal and later.                       *)
ReplyOrderKept ==
  Routed =>
    \A d \in Asked : \A j \in PlacesOf(d) : \A x \in Eligible(d) :
      LET y == answer.sections[j]
      IN \/ x.confidence > y.confidence
         \/ x.confidence = y.confidence /\ x.rank < y.rank
         => \E i \in 1..(j - 1) : answer.sections[i] = x

(* What is shown of a document follows the model's ranking of it.           *)
SelectionFollowsReply == BandsDoNotMix /\ ReplyOrderKept

(* No document gets a second slot before every document that has something  *)
(* to show got one.                                                         *)
EveryDocumentHeard ==
  Routed =>
    \A d, e \in Asked :
      Eligible(d) # {} /\ PlacesOf(d) = {} =>
        \A i, j \in PlacesOf(e) : i = j

(* The order in which documents are named does not change what is answered. *)
OrderDoesNotMatter ==
  Routed =>
    \A order \in SetToSeqs(Asked) :
      MergeFairly(Contributions(order)) = answer.sections

(* What is shown of several documents is shared fairly and decided by them. *)
MergeIsFair == EveryDocumentHeard /\ OrderDoesNotMatter

=============================================================================
