---------------------------- MODULE DocumentService ----------------------------
(***************************************************************************)
(* DocumentLifecycle in use: clients that keep uploading, in a world where  *)
(* things never fail, or fail until they stop failing, with or without      *)
(* forced re-ingestion.  What is promised depends on which it is.           *)
(*                                                                          *)
(* Every step of DocumentLifecycle reads and writes one document only, and  *)
(* workers have nothing else in common, so each behaviour here follows the  *)
(* requests for one document, of any shape.                                 *)
(***************************************************************************)
EXTENDS DocumentLifecycle

VARIABLES
  followed,   \* the document all requests are about
  forcing,    \* whether clients use force_reingest
  world,      \* "sound": never fails; "failing"; "calm": fails no more
  \* History, read by no action:
  overlapped  \* documents a retained upload keeps while a no-retention one,
              \* whose lookup found nothing, is about to write their row

circumstances == <<followed, forcing, world>>
serviceVars == <<vars, circumstances, overlapped>>

Overlapping(d) ==
  /\ FindDocIdByHash(d)
  /\ \E w \in Workers : /\ job[w].at = "select" /\ job[w].doc = d
                       /\ ~job[w].retain /\ ~job[w].existing

(* An overlap is remembered while sections stand behind an unhashed row.    *)
NoteOverlaps ==
  overlapped' = {d \in DocIds :
    \/ Overlapping(d)'
    \/ d \in overlapped /\ d \in sections' /\ ~documents'[d].hashed}

ServiceInit ==
  /\ Init
  /\ followed \in DocIds
  /\ forcing \in ForceModes
  /\ world \in {"sound", "failing"}
  /\ overlapped = {}

Ask(w) ==
  /\ Start(w)
  /\ job'[w].doc = followed
  /\ job'[w].at = "find" /\ job'[w].force => forcing

(* A client uploads again, to keep the document, by force where it can.     *)
StartUpload(w) ==
  /\ StartIngest(w)
  /\ job'[w].doc = followed
  /\ job'[w].retain
  /\ job'[w].force = forcing

RequestStep ==
  /\ \E w \in Workers : \/ Ask(w) \/ IngestStep(w) \/ DeleteStep(w)
                        \/ world = "failing" /\ Fault(w)
  /\ NoteOverlaps
  /\ UNCHANGED circumstances

FaultsStop ==
  /\ world = "failing"
  /\ world' = "calm"
  /\ UNCHANGED <<vars, followed, forcing, overlapped>>

ServiceSpec ==
  /\ ServiceInit
  /\ [][RequestStep \/ FaultsStop]_serviceVars
  /\ \A w \in Workers :
       /\ WF_serviceVars((IngestStep(w) \/ DeleteStep(w))
                           /\ NoteOverlaps /\ UNCHANGED circumstances)
       /\ SF_serviceVars(StartUpload(w)
                           /\ NoteOverlaps /\ UNCHANGED circumstances)

-----------------------------------------------------------------------------
(* Properties.                                                              *)

(* A row tells what was kept, whatever fails or overlaps, and nothing is    *)
(* kept of a document nobody offered for retention.  The lookup by          *)
(* hash finds exactly the live rows of retained uploads.  An ephemeral row  *)
(* has no sections, unless a retained upload committed them between the     *)
(* lookup and the update of a no-retention one.  Without forced re-ingestion*)
(* an indexed row has sections and a fallback row has none.                 *)
EphemeralKeepsNothing(d) ==
  documents[d].status = "ephemeral" /\ d \in sections => d \in overlapped

StatusMatchesSections(d) ==
  /\ documents[d].status = "indexed" => d \in sections
  /\ documents[d].status = "fallback_only" => d \notin sections
  /\ documents[d].fallback => documents[d].status # "indexed"

RowTellsWhatIsKept ==
  /\ OnlyOfferedIsKept
  /\ \A d \in DocIds : Exists(d) =>
       /\ documents[d].hashed <=> documents[d].status # "ephemeral"
       /\ EphemeralKeepsNothing(d)
       /\ ~forcing => StatusMatchesSections(d)

(* When nothing ever fails, a document whose sections are committed has all *)
(* its vectors once no request works on it: overlapping uploads, forced or  *)
(* not, and erasures leave the two stores in agreement.                     *)
QuietStoresAgree ==
  \A d \in sections :
    /\ world = "sound"
    /\ ShapeOf(d) = "sectioned"
    /\ \A w \in Workers : job[w] # Idle => job[w].doc # d
    => points[d] = "all"

(* Once nothing fails any more, uploading again by force repairs whatever   *)
(* stopped between the two stores, unless the document is erased.           *)
ForcedRetryRepairs ==
  \A d \in DocIds :
    /\ forcing
    /\ world # "failing"
    /\ d \in sections
    /\ ShapeOf(d) = "sectioned"
    ~> points[d] = "all" \/ Tombstoned(d)

-----------------------------------------------------------------------------
(* What the repository's texts say of these steps; the code differs.        *)

(* pipeline.py:479-481 and 514-515 say that an upload that stopped between  *)
(* the two stores is repaired by ingesting again, forced or not.            *)
RetryRepairs ==
  \A d \in DocIds :
    world # "failing" /\ d \in sections ~> points[d] = "all" \/ Tombstoned(d)

=============================================================================
