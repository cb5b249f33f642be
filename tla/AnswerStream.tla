---------------------------- MODULE AnswerStream ----------------------------
(***************************************************************************)
(* One conversation: the chat hook of the web client, the event streams it  *)
(* opens, and the handlers that answer them.  Each turn is one POST         *)
(* /v1/answer: backend/app/api/answer.py sends frames over a connection     *)
(* that can break at any time, frontend/src/api/sse.ts decodes them, and    *)
(* frontend/src/hooks/useAnswerStream.ts keeps the turns, the controller of *)
(* the stream in flight and the flag that disables the composer.            *)
(*                                                                          *)
(* JavaScript runs each callback to completion, promise reactions included, *)
(* so the end of a stream and the hook's finally block are one step; what   *)
(* interleaves is what waits for the network or the user.                   *)
(***************************************************************************)
EXTENDS Naturals, Sequences

CONSTANTS
  MaxTurns,   \* bound on the questions asked in one conversation
  MaxTokens   \* bound on the tokens of one answer

ASSUME BoundsAssumption == MaxTurns \in Nat /\ MaxTokens \in Nat

Turns == 1..MaxTurns
None == 0

(* cancelled: the error frame of a stopping server, which is no Problem.    *)
Frames == {"token", "final", "error", "cancelled"}

VARIABLES
  handler,   \* what the server does for each turn's request
  sent,      \* tokens the generator has produced for it
  wire,      \* frames on their way to the client
  link,      \* the response: none, refused, open, ended, broken
  reader,    \* what the client's streamAnswer call waits for
  aborted,   \* turns whose AbortController has fired
  terminal,  \* turns whose handlers saw a final or an error
  turns,     \* the hook's state of each turn
  asked,     \* questions asked so far: turnCounter
  current,   \* the turn whose controller abortRef holds
  pending,   \* the composer is disabled
  mounted    \* the chat is on screen

server == <<handler, sent, wire, link>>
hook == <<turns, asked, current, pending, mounted>>
client == <<reader, aborted, terminal>>
vars == <<handler, sent, wire, link, reader, aborted, terminal,
          turns, asked, current, pending, mounted>>

NoTurn == [shown |-> FALSE, tokens |-> 0, streaming |-> FALSE,
           final |-> FALSE, error |-> FALSE, cancelled |-> FALSE]

NewTurn == [NoTurn EXCEPT !.shown = TRUE, !.streaming = TRUE]

Init ==
  /\ handler = [t \in Turns |-> "none"]
  /\ sent = [t \in Turns |-> 0]
  /\ wire = [t \in Turns |-> <<>>]
  /\ link = [t \in Turns |-> "none"]
  /\ reader = [t \in Turns |-> "idle"]
  /\ aborted = {}
  /\ terminal = {}
  /\ turns = [t \in Turns |-> NoTurn]
  /\ asked = 0
  /\ current = None
  /\ pending = FALSE
  /\ mounted = TRUE

-----------------------------------------------------------------------------
(* The handler of POST /v1/answer.                                          *)

(* The document is looked up and the question routed before any frame.      *)
Receive(t) ==
  /\ reader[t] = "fetch"
  /\ handler[t] = "none"
  /\ handler' = [handler EXCEPT ![t] = "routing"]
  /\ UNCHANGED <<sent, wire, link, client, hook>>

(* 401, 404, 422, 429 or 503 before the stream.                             *)
Refuse(t) ==
  /\ handler[t] = "routing"
  /\ handler' = [handler EXCEPT ![t] = "closed"]
  /\ link' = [link EXCEPT ![t] = "refused"]
  /\ UNCHANGED <<sent, wire, client, hook>>

OpenStream(t) ==
  /\ handler[t] = "routing"
  /\ handler' = [handler EXCEPT ![t] = "streaming"]
  /\ link' = [link EXCEPT ![t] = "open"]
  /\ UNCHANGED <<sent, wire, client, hook>>

Send(t, frame) == wire' = [wire EXCEPT ![t] = Append(@, frame)]

SendToken(t) ==
  /\ handler[t] = "streaming"
  /\ sent[t] < MaxTokens
  /\ sent' = [sent EXCEPT ![t] = @ + 1]
  /\ Send(t, "token")
  /\ UNCHANGED <<handler, link, client, hook>>

(* The generator ends: the answer, then the end of the response.            *)
SendFinal(t) ==
  /\ handler[t] = "streaming"
  /\ Send(t, "final")
  /\ handler' = [handler EXCEPT ![t] = "closed"]
  /\ link' = [link EXCEPT ![t] = "ended"]
  /\ UNCHANGED <<sent, client, hook>>

SendError(t) ==
  /\ handler[t] = "streaming"
  /\ Send(t, "error")
  /\ handler' = [handler EXCEPT ![t] = "closed"]
  /\ link' = [link EXCEPT ![t] = "ended"]
  /\ UNCHANGED <<sent, client, hook>>

(* The server stops: a frame that is not a Problem, then CancelledError     *)
(* leaves the response incomplete.                                          *)
CancelHandler(t) ==
  /\ handler[t] = "streaming"
  /\ Send(t, "cancelled")
  /\ handler' = [handler EXCEPT ![t] = "closed"]
  /\ link' = [link EXCEPT ![t] = "broken"]
  /\ UNCHANGED <<sent, client, hook>>

(* The client has gone: the handler is cancelled, nobody reads its frame.   *)
NoticeDisconnect(t) ==
  /\ t \in aborted
  /\ handler[t] \in {"routing", "streaming"}
  /\ handler' = [handler EXCEPT ![t] = "closed"]
  /\ UNCHANGED <<sent, wire, link, client, hook>>

(* The process dies or the network does, before, during or after the body,  *)
(* the end of which may be lost as well.                                    *)
BreakLink(t) ==
  /\ reader[t] \in {"fetch", "read"}
  /\ link[t] # "broken"
  /\ link' = [link EXCEPT ![t] = "broken"]
  /\ handler' = [handler EXCEPT ![t] = "closed"]
  /\ UNCHANGED <<sent, wire, client, hook>>

-----------------------------------------------------------------------------
(* The stream client and the callbacks of the hook.                         *)

(* updateTurn: nothing happens to a turn that was cleared, or to any turn   *)
(* once the chat has left the screen.                                       *)
Updated(t, new) ==
  IF mounted /\ turns[t].shown THEN [turns EXCEPT ![t] = new] ELSE turns

(* Faulty: the composer is enabled whoever finishes.                        *)
ReconcileAlways(t) ==
  /\ pending' = IF mounted THEN FALSE ELSE pending
  /\ current' = IF mounted /\ current = t THEN None ELSE current

(* Only the stream that is still the current one gives up the composer.     *)
Reconcile(t) ==
  /\ pending' = IF mounted /\ current = t THEN FALSE ELSE pending
  /\ current' = IF mounted /\ current = t THEN None ELSE current

(* Faulty: every turn whose controller fired is marked as cancelled.        *)
AbortedTurn(t, sawTerminal) ==
  [turns[t] EXCEPT !.streaming = FALSE,
                   !.error = @ \/ sawTerminal,
                   !.cancelled = @ \/ t \in aborted]

(* Faulty: only a terminal event ends the streaming.                        *)
StillStreaming(t, sawTerminal) ==
  [turns[t] EXCEPT !.streaming = @ /\ ~sawTerminal,
                   !.error = @ \/ sawTerminal,
                   !.cancelled = @ \/ (/\ t \notin terminal
                                       /\ ~sawTerminal
                                       /\ t \in aborted)]

(* What finally leaves of a turn; sawTerminal: this step called onError.    *)
SettledTurn(t, sawTerminal) ==
  [turns[t] EXCEPT !.streaming = FALSE,
                   !.error = @ \/ sawTerminal,
                   !.cancelled = @ \/ (/\ t \notin terminal
                                       /\ ~sawTerminal
                                       /\ t \in aborted)]

(* streamAnswer returns, perhaps after onError, and finally runs.           *)
Settle(t, withError) ==
  /\ reader' = [reader EXCEPT ![t] = "done"]
  /\ terminal' = IF withError THEN terminal \cup {t} ELSE terminal
  /\ turns' = Updated(t, SettledTurn(t, withError))
  /\ Reconcile(t)
  /\ UNCHANGED <<server, aborted, asked, mounted>>

(* Faulty: a fetch that was aborted is reported as one that failed.         *)
FetchFailsAborted(t) ==
  /\ reader[t] = "fetch"
  /\ link[t] \in {"broken", "open", "ended"}
  /\ Settle(t, TRUE)

(* No response comes, or a 200 without a body, which the hook is told too.  *)
FetchFails(t) ==
  /\ reader[t] = "fetch"
  /\ t \notin aborted
  /\ link[t] \in {"broken", "open", "ended"}
  /\ Settle(t, TRUE)

FetchAborted(t) ==
  /\ reader[t] = "fetch"
  /\ t \in aborted
  /\ Settle(t, FALSE)

FetchAnswered(t) ==
  /\ reader[t] = "fetch"
  /\ t \notin aborted
  /\ link[t] \in {"open", "ended", "refused"}
  /\ reader' = [reader EXCEPT ![t] =
                  IF link[t] = "refused" THEN "problem" ELSE "read"]
  /\ UNCHANGED <<server, aborted, terminal, hook>>

(* The body of a refusal was read, or could not be: aborted or not, the     *)
(* error is reported.                                                       *)
ReportProblem(t) ==
  /\ reader[t] = "problem"
  /\ Settle(t, TRUE)

OnToken(t) ==
  /\ turns' = Updated(t, [turns[t] EXCEPT !.tokens = @ + 1])
  /\ UNCHANGED terminal

(* Faulty: the answer is added to the tokens it repeats.                    *)
OnFinalAppends(t) ==
  /\ turns' = Updated(t, [turns[t] EXCEPT !.final = TRUE,
                                          !.tokens = @ + sent[t],
                                          !.streaming = FALSE])
  /\ terminal' = terminal \cup {t}

OnFinal(t) ==
  /\ turns' = Updated(t, [turns[t] EXCEPT !.final = TRUE,
                                          !.tokens = sent[t],
                                          !.streaming = FALSE])
  /\ terminal' = terminal \cup {t}

(* A frame that carries no Problem is reported as a malformed stream.       *)
OnError(t) ==
  /\ turns' = Updated(t, [turns[t] EXCEPT !.error = TRUE, !.streaming = FALSE])
  /\ terminal' = terminal \cup {t}

ReadFrame(t) ==
  /\ reader[t] = "read"
  /\ t \notin aborted
  /\ wire[t] # <<>>
  /\ \/ Head(wire[t]) = "token" /\ OnToken(t)
     \/ Head(wire[t]) = "final" /\ OnFinal(t)
     \/ Head(wire[t]) \in {"error", "cancelled"} /\ OnError(t)
  /\ wire' = [wire EXCEPT ![t] = Tail(@)]
  /\ UNCHANGED <<handler, sent, link, reader, aborted,
                 asked, current, pending, mounted>>

(* Faulty: the end of the body is taken for a connection that broke.        *)
ReadEndFails(t) ==
  /\ reader[t] = "read"
  /\ t \notin aborted
  /\ wire[t] = <<>>
  /\ link[t] = "ended"
  /\ Settle(t, TRUE)

ReadEnd(t) ==
  /\ reader[t] = "read"
  /\ t \notin aborted
  /\ wire[t] = <<>>
  /\ link[t] = "ended"
  /\ Settle(t, FALSE)

(* A broken response discards what was not read yet.                        *)
ReadFails(t) ==
  /\ reader[t] = "read"
  /\ t \notin aborted
  /\ link[t] = "broken"
  /\ Settle(t, TRUE)

ReadAborted(t) ==
  /\ reader[t] = "read"
  /\ t \in aborted
  /\ Settle(t, FALSE)

-----------------------------------------------------------------------------
(* What the user does.                                                      *)

(* Faulty: there is always a controller to abort.                           *)
AbortUnchecked == aborted' = aborted \cup {current}

AbortCurrent ==
  aborted' = IF current = None THEN aborted ELSE aborted \cup {current}

Ask ==
  /\ mounted
  /\ asked < MaxTurns
  /\ asked' = asked + 1
  /\ turns' = [turns EXCEPT ![asked + 1] = NewTurn]
  /\ reader' = [reader EXCEPT ![asked + 1] = "fetch"]
  /\ AbortCurrent
  /\ current' = asked + 1
  /\ pending' = TRUE
  /\ UNCHANGED <<server, terminal, mounted>>

Abort ==
  /\ mounted
  /\ AbortCurrent
  /\ current' = None
  /\ pending' = FALSE
  /\ UNCHANGED <<server, reader, terminal, turns, asked, mounted>>

(* Another document is opened: its conversation starts empty.               *)
Reset ==
  /\ mounted
  /\ AbortCurrent
  /\ current' = None
  /\ pending' = FALSE
  /\ turns' = [t \in Turns |-> NoTurn]
  /\ UNCHANGED <<server, reader, terminal, asked, mounted>>

Unmount ==
  /\ mounted
  /\ mounted' = FALSE
  /\ AbortCurrent
  /\ current' = None
  /\ UNCHANGED <<server, reader, terminal, turns, asked, pending>>

-----------------------------------------------------------------------------
HandlerStep(t) ==
  \/ Receive(t) \/ Refuse(t) \/ OpenStream(t)
  \/ SendToken(t) \/ SendFinal(t) \/ SendError(t)
  \/ NoticeDisconnect(t)

ReaderStep(t) ==
  \/ FetchFails(t) \/ FetchAborted(t) \/ FetchAnswered(t) \/ ReportProblem(t)
  \/ ReadFrame(t) \/ ReadEnd(t) \/ ReadFails(t) \/ ReadAborted(t)

UserStep == Ask \/ Abort \/ Reset \/ Unmount

Next ==
  \/ UserStep
  \/ \E t \in Turns : \/ HandlerStep(t) \/ ReaderStep(t)
                      \/ CancelHandler(t) \/ BreakLink(t)

Spec == Init /\ [][Next]_vars

(* A handler keeps going: its calls have timeouts, the generator's included *)
(* (DEFAULT_STREAM_TIMEOUT), and a disconnect is noticed.  The browser runs *)
(* the reactions of what arrives.  Nobody has to ask, abort or fail.        *)
FairSpec ==
  /\ Spec
  /\ \A t \in Turns : WF_vars(HandlerStep(t)) /\ WF_vars(ReaderStep(t))

-----------------------------------------------------------------------------
(* Properties.                                                              *)

TypeOK ==
  /\ handler \in [Turns -> {"none", "routing", "streaming", "closed"}]
  /\ sent \in [Turns -> 0..MaxTokens]
  /\ wire \in [Turns -> Seq(Frames)]
  /\ link \in [Turns -> {"none", "refused", "open", "ended", "broken"}]
  /\ reader \in [Turns -> {"idle", "fetch", "problem", "read", "done"}]
  /\ aborted \subseteq Turns
  /\ terminal \subseteq Turns
  /\ turns \in [Turns -> [shown: BOOLEAN, tokens: Nat, streaming: BOOLEAN,
                          final: BOOLEAN, error: BOOLEAN, cancelled: BOOLEAN]]
  /\ asked \in 0..MaxTurns
  /\ current \in Turns \cup {None}
  /\ pending \in BOOLEAN
  /\ mounted \in BOOLEAN

Running(t) == reader[t] \in {"fetch", "problem", "read"}

(* The composer is disabled exactly while the newest question's stream runs *)
(* and was not given up, and no other stream runs unaborted: a late         *)
(* finisher neither enables the composer nor leaves it disabled for ever.   *)
ComposerFollowsStream ==
  /\ mounted => (pending <=> current # None)
  /\ current # None => Running(current) /\ current \notin aborted
  /\ \A t \in Turns : Running(t) /\ t \notin aborted => t = current

(* A finished turn on screen shows an answer, an error or that it was       *)
(* cancelled, whatever broke on the way: nothing is dropped silently.       *)
NothingDroppedSilently ==
  \A t \in Turns :
    /\ mounted
    /\ turns[t].shown
    /\ reader[t] = "done"
    => turns[t].final \/ turns[t].error \/ turns[t].cancelled

(* A turn marked as cancelled never shows an answer or an error, and a turn *)
(* that was answered before it was superseded is not marked.                *)
CancelledIsUnanswered ==
  \A t \in Turns :
    turns[t].cancelled => ~turns[t].final /\ ~turns[t].error

(* The final event is terminal: an answer and an error are shown together   *)
(* only in a turn whose connection broke after the answer was read and      *)
(* before the body had ended (sse.ts:328-334).                              *)
FinalIsTerminal ==
  \A t \in Turns : turns[t].final /\ turns[t].error => link[t] = "broken"

(* How a turn ended is told, told right, and told once.                     *)
TurnsEndHonestly ==
  NothingDroppedSilently /\ CancelledIsUnanswered /\ FinalIsTerminal

(* The text on screen is what the generator produced so far, each token     *)
(* once, and all of it when the answer is final.                            *)
TextIsTheAnswer ==
  \A t \in Turns :
    /\ turns[t].tokens <= sent[t]
    /\ turns[t].final => turns[t].tokens = sent[t]

(* Once it is aborted a turn comes to show no error, whatever was on its    *)
(* way: a response, frames, a broken body.  The one exception is a refusal  *)
(* whose body was being read (sse.ts:295-297): its error is reported.       *)
AbortStaysSilent ==
  [][\A t \in aborted :
       turns'[t].error /\ ~turns[t].error => reader[t] = "problem"]_vars

(* Every question stops streaming: it is settled, or its conversation was   *)
(* cleared, or the chat left the screen.                                    *)
TurnsSettle ==
  \A t \in Turns : turns[t].streaming ~> ~turns[t].streaming \/ ~mounted

=============================================================================
