-------------------------- MODULE AnswerStreamProofs --------------------------
(***************************************************************************)
(* Theorems about AnswerStream, for conversations and answers of any        *)
(* length: its state is typed, the composer follows the one stream that     *)
(* counts, every turn tells how it ended, the text shown is the generator's *)
(* and nothing comes behind it, and an aborted turn fails silently.  Steps  *)
(* come in four kinds: what the user does, what the server or the network   *)
(* does, what the client reads, and how it settles.                         *)
(***************************************************************************)
EXTENDS AnswerStream, SequenceTheorems, TLAPS

(* What leaves the client alone.                                            *)
ServerStep(t) ==
  \/ Receive(t) \/ Refuse(t) \/ OpenStream(t) \/ SendToken(t) \/ SendFinal(t)
  \/ SendError(t) \/ CancelHandler(t) \/ NoticeDisconnect(t) \/ BreakLink(t)

(* The six ways a call of streamAnswer ends.  With an error: behind a       *)
(* refusal, or not aborted, and while it read only over a broken response.  *)
(* Without: aborted, or when it has read a response to its end.             *)
SettleStep(t) ==
  /\ Running(t)
  /\ \E e \in BOOLEAN :
       /\ Settle(t, e)
       /\ IF e THEN \/ reader[t] = "problem"
                    \/ /\ t \notin aborted
                       /\ reader[t] = "read" => link[t] = "broken"
               ELSE t \in aborted \/ (wire[t] = <<>> /\ link[t] = "ended")

LEMMA StepKinds ==
  ASSUME Next
  PROVE  \/ Ask \/ Abort \/ Reset \/ Unmount
         \/ \E t \in Turns : \/ ServerStep(t) \/ FetchAnswered(t)
                             \/ ReadFrame(t) \/ SettleStep(t)
<1>1. ASSUME NEW t \in Turns, ReaderStep(t)
      PROVE  FetchAnswered(t) \/ ReadFrame(t) \/ SettleStep(t)
  <2>1. ASSUME FetchFails(t) \/ ReportProblem(t) \/ ReadFails(t)
        PROVE  /\ Running(t) /\ Settle(t, TRUE)
               /\ \/ reader[t] = "problem"
                  \/ /\ t \notin aborted
                     /\ reader[t] = "read" => link[t] = "broken"
    BY <2>1 DEF FetchFails, ReportProblem, ReadFails, Running
  <2>2. ASSUME FetchAborted(t) \/ ReadAborted(t) \/ ReadEnd(t)
        PROVE  /\ Running(t) /\ Settle(t, FALSE)
               /\ t \in aborted \/ (wire[t] = <<>> /\ link[t] = "ended")
    BY <2>2 DEF FetchAborted, ReadAborted, ReadEnd, Running
  <2> QED
    BY <1>1, <2>1, <2>2 DEF ReaderStep, SettleStep
<1> QED
  BY <1>1 DEF Next, UserStep, HandlerStep, ServerStep

-----------------------------------------------------------------------------
(* Types.                                                                   *)

TurnType == [shown: BOOLEAN, tokens: Nat, streaming: BOOLEAN,
             final: BOOLEAN, error: BOOLEAN, cancelled: BOOLEAN]

LEMMA TurnsAreNumbers == None \notin Turns /\ Turns \subseteq Nat
BY BoundsAssumption DEF Turns, None

LEMMA TurnRecords == NoTurn \in TurnType /\ NewTurn \in TurnType
BY DEF NoTurn, NewTurn, TurnType

LEMMA UpdatedType ==
  ASSUME TypeOK, NEW t \in Turns, NEW new \in TurnType
  PROVE  Updated(t, new) \in [Turns -> TurnType]
BY DEF TypeOK, Updated, TurnType

LEMMA ServerTypeOK ==
  ASSUME TypeOK, NEW t \in Turns, ServerStep(t)
  PROVE  TypeOK'
<1>1. UNCHANGED <<reader, aborted, terminal, turns, asked, current, pending,
                  mounted>>
  BY DEF ServerStep, Receive, Refuse, OpenStream, SendToken, SendFinal,
         SendError, CancelHandler, NoticeDisconnect, BreakLink, client, hook
<1>2. /\ handler' \in [Turns -> {"none", "routing", "streaming", "closed"}]
      /\ link' \in [Turns -> {"none", "refused", "open", "ended", "broken"}]
  BY DEF ServerStep, Receive, Refuse, OpenStream, SendToken, SendFinal,
         SendError, CancelHandler, NoticeDisconnect, BreakLink, TypeOK
<1>3. sent' \in [Turns -> 0..MaxTokens]
  <2>1. CASE SendToken(t)
    <3>1. sent[t] + 1 \in 0..MaxTokens
      BY <2>1, BoundsAssumption DEF SendToken, TypeOK
    <3> QED
      BY <2>1, <3>1 DEF SendToken, TypeOK
  <2>2. CASE ~SendToken(t)
    BY <2>2 DEF ServerStep, Receive, Refuse, OpenStream, SendFinal, SendError,
         CancelHandler, NoticeDisconnect, BreakLink, TypeOK
  <2> QED
    BY <2>1, <2>2
<1>4. wire' \in [Turns -> Seq(Frames)]
  <2>1. ASSUME NEW f \in Frames, Send(t, f)
        PROVE  wire' \in [Turns -> Seq(Frames)]
    <3>1. Append(wire[t], f) \in Seq(Frames)
      BY DEF TypeOK
    <3> QED
      BY <2>1, <3>1 DEF Send, TypeOK
  <2>2. CASE UNCHANGED wire
    BY <2>2 DEF TypeOK
  <2>3. UNCHANGED wire \/ \E f \in Frames : Send(t, f)
    BY DEF ServerStep, Receive, Refuse, OpenStream, SendToken, SendFinal,
         SendError, CancelHandler, NoticeDisconnect, BreakLink, Frames
  <2> QED
    BY <2>1, <2>2, <2>3
<1> QED
  BY <1>1, <1>2, <1>3, <1>4 DEF TypeOK

LEMMA UserTypeOK ==
  ASSUME TypeOK, Ask \/ Abort \/ Reset \/ Unmount
  PROVE  TypeOK'
<1>1. /\ UNCHANGED <<handler, sent, wire, link, terminal>>
      /\ aborted' \subseteq Turns
      /\ pending' \in BOOLEAN /\ mounted' \in BOOLEAN
  BY DEF Ask, Abort, Reset, Unmount, AbortCurrent, server, TypeOK
<1>2. CASE Ask
  <2>1. asked + 1 \in Turns /\ asked + 1 \in 0..MaxTurns
    BY <1>2, BoundsAssumption DEF Ask, TypeOK, Turns
  <2>2. turns' \in [Turns -> TurnType]
    BY <1>2, <2>1, TurnRecords DEF Ask, TypeOK, TurnType
  <2>3. reader' \in [Turns -> {"idle", "fetch", "problem", "read", "done"}]
    BY <1>2, <2>1 DEF Ask, TypeOK
  <2> QED
    BY <1>1, <1>2, <2>1, <2>2, <2>3 DEF Ask, TypeOK, TurnType
<1>3. CASE Reset
  <2>1. turns' \in [Turns -> TurnType]
    BY <1>3, TurnRecords DEF Reset
  <2> QED
    BY <1>1, <1>3, <2>1 DEF Reset, TypeOK, TurnType
<1>4. CASE Abort \/ Unmount
  BY <1>1, <1>4 DEF Abort, Unmount, TypeOK
<1> QED
  BY <1>2, <1>3, <1>4

LEMMA ReadTypeOK ==
  ASSUME TypeOK, NEW t \in Turns, FetchAnswered(t) \/ ReadFrame(t)
  PROVE  TypeOK'
<1>1. CASE FetchAnswered(t)
  BY <1>1 DEF FetchAnswered, TypeOK, server, hook
<1>2. CASE ReadFrame(t)
  <2>1. Tail(wire[t]) \in Seq(Frames)
    BY <1>2 DEF ReadFrame, TypeOK
  <2>2. wire' \in [Turns -> Seq(Frames)]
    BY <1>2, <2>1 DEF ReadFrame, TypeOK
  <2>3. turns[t] \in TurnType /\ sent[t] \in Nat
    BY BoundsAssumption DEF TypeOK, TurnType
  <2>4. /\ [turns[t] EXCEPT !.tokens = @ + 1] \in TurnType
        /\ [turns[t] EXCEPT !.final = TRUE, !.tokens = sent[t],
                            !.streaming = FALSE] \in TurnType
        /\ [turns[t] EXCEPT !.error = TRUE, !.streaming = FALSE] \in TurnType
    <3>1. turns[t].tokens + 1 \in Nat
      BY <2>3 DEF TurnType
    <3> QED
      BY <2>3, <3>1, Zenon DEF TurnType
  <2>5. turns' \in [Turns -> TurnType]
    BY <1>2, <2>4, UpdatedType DEF ReadFrame, OnToken, OnFinal, OnError
  <2>6. terminal' \subseteq Turns
    BY <1>2 DEF ReadFrame, OnToken, OnFinal, OnError, TypeOK
  <2> QED
    BY <1>2, <2>2, <2>5, <2>6 DEF ReadFrame, TypeOK, TurnType
<1> QED
  BY <1>1, <1>2

LEMMA SettleTypeOK ==
  ASSUME TypeOK, NEW t \in Turns, NEW e \in BOOLEAN, Settle(t, e)
  PROVE  TypeOK'
<1>1. turns[t] \in TurnType
  BY DEF TypeOK, TurnType
<1>2. SettledTurn(t, e) \in TurnType
  BY <1>1 DEF SettledTurn, TurnType
<1>3. turns' \in [Turns -> TurnType]
  BY <1>2, UpdatedType DEF Settle
<1>4. current' \in Turns \cup {None} /\ pending' \in BOOLEAN
  BY DEF Settle, Reconcile, TypeOK
<1> QED
  BY <1>3, <1>4 DEF Settle, TypeOK, TurnType, server

LEMMA InitTypeOK == Init => TypeOK
<1> SUFFICES ASSUME Init PROVE TypeOK
  OBVIOUS
<1>1. turns \in [Turns -> TurnType]
  BY TurnRecords DEF Init
<1>2. 0 \in 0..MaxTokens /\ 0 \in 0..MaxTurns
  BY BoundsAssumption
<1>3. wire \in [Turns -> Seq(Frames)]
  BY DEF Init
<1> QED
  BY <1>1, <1>2, <1>3 DEF Init, TypeOK, TurnType, None

LEMMA NextTypeOK == TypeOK /\ [Next]_vars => TypeOK'
<1> SUFFICES ASSUME TypeOK, [Next]_vars PROVE TypeOK'
  OBVIOUS
<1>1. CASE UNCHANGED vars
  BY <1>1 DEF vars, TypeOK
<1>2. CASE Next
  BY <1>2, StepKinds, UserTypeOK, ServerTypeOK, ReadTypeOK, SettleTypeOK
     DEF SettleStep
<1> QED
  BY <1>1, <1>2

(* The server's and the client's state has its types, whatever is asked,    *)
(* aborted, sent or lost.                                                   *)
THEOREM TypeCorrect == Spec => []TypeOK
BY InitTypeOK, NextTypeOK, PTL DEF Spec

-----------------------------------------------------------------------------
(* The composer.  Turns are asked in order, so what has not been asked yet  *)
(* neither runs nor was aborted, and a question supersedes the one before.  *)

NoneAhead ==
  \A t \in Turns : t > asked =>
    reader[t] = "idle" /\ t \notin aborted /\ t \notin terminal

ComposerInv ==
  /\ ComposerFollowsStream
  /\ NoneAhead
  /\ ~mounted => current = None

LEMMA ClientComposer ==
  ASSUME TypeOK, ComposerInv, NEW t \in Turns,
         ServerStep(t) \/ FetchAnswered(t) \/ ReadFrame(t)
  PROVE  ComposerInv'
<1>1. UNCHANGED <<asked, current, pending, mounted, aborted>>
  BY DEF ServerStep, Receive, Refuse, OpenStream, SendToken, SendFinal,
         SendError, CancelHandler, NoticeDisconnect, BreakLink, client, hook,
         FetchAnswered, ReadFrame
<1>2. \A u \in Turns : Running(u)' <=> Running(u)
  BY DEF ServerStep, Receive, Refuse, OpenStream, SendToken, SendFinal,
         SendError, CancelHandler, NoticeDisconnect, BreakLink, client, hook,
         FetchAnswered, ReadFrame, Running, TypeOK
<1>3. \A u \in Turns : u # t => /\ reader'[u] = reader[u]
                                /\ u \in terminal' <=> u \in terminal
  BY DEF ServerStep, Receive, Refuse, OpenStream, SendToken, SendFinal,
         SendError, CancelHandler, NoticeDisconnect, BreakLink, client, hook,
         FetchAnswered, ReadFrame, OnToken, OnFinal, OnError, TypeOK
<1>4. \/ UNCHANGED <<reader, terminal>>
      \/ reader[t] # "idle"
  BY DEF ServerStep, Receive, Refuse, OpenStream, SendToken, SendFinal,
         SendError, CancelHandler, NoticeDisconnect, BreakLink, client, hook,
         FetchAnswered, ReadFrame
<1>5. NoneAhead'
  BY <1>1, <1>3, <1>4 DEF ComposerInv, NoneAhead
<1> QED
  BY <1>1, <1>2, <1>5 DEF ComposerInv, ComposerFollowsStream, TypeOK

LEMMA SettleComposer ==
  ASSUME TypeOK, ComposerInv, NEW t \in Turns, SettleStep(t)
  PROVE  ComposerInv'
<1> PICK e \in BOOLEAN : Settle(t, e)
  BY DEF SettleStep
<1>1. /\ Running(t) /\ ~Running(t)'
      /\ \A u \in Turns : u # t => (Running(u)' <=> Running(u))
  BY DEF SettleStep, Settle, Running, TypeOK
<1>2. /\ UNCHANGED <<aborted, asked, mounted>>
      /\ pending' = IF mounted /\ current = t THEN FALSE ELSE pending
      /\ current' = IF mounted /\ current = t THEN None ELSE current
  BY DEF Settle, Reconcile
<1>3. NoneAhead'
  BY <1>1, <1>2 DEF Settle, ComposerInv, NoneAhead, Running, TypeOK
<1>4. current # t => UNCHANGED <<pending, current>>
  BY <1>2
<1>5. current = t => mounted /\ current' = None /\ ~pending'
  BY <1>2, TurnsAreNumbers DEF ComposerInv
<1> QED
  BY <1>1, <1>2, <1>3, <1>4, <1>5 DEF ComposerInv, ComposerFollowsStream, TypeOK

LEMMA UserComposer ==
  ASSUME TypeOK, ComposerInv, Ask \/ Abort \/ Reset \/ Unmount
  PROVE  ComposerInv'
<1>1. UNCHANGED terminal /\ AbortCurrent /\ mounted
  BY DEF Ask, Abort, Reset, Unmount
<1>2. \A u \in Turns : ~(Running(u) /\ u \notin aborted')
  BY <1>1, TurnsAreNumbers DEF AbortCurrent, ComposerInv, ComposerFollowsStream
<1>3. \A u \in aborted' : u \in Turns /\ u <= asked
  <2>1. \A u \in aborted : u \in Turns /\ u <= asked
    BY TurnsAreNumbers, BoundsAssumption DEF TypeOK, ComposerInv, NoneAhead
  <2>2. current # None => current \in Turns /\ current <= asked
    BY TurnsAreNumbers, BoundsAssumption
       DEF TypeOK, ComposerInv, NoneAhead, ComposerFollowsStream, Running
  <2> QED
    BY <1>1, <2>1, <2>2 DEF AbortCurrent
<1>4. CASE Ask
  <2>1. asked + 1 \in Turns /\ asked' = asked + 1 /\ asked \in Nat
    BY <1>4, BoundsAssumption DEF Ask, TypeOK, Turns
  <2>2. /\ reader' = [reader EXCEPT ![asked + 1] = "fetch"]
        /\ current' = asked + 1 /\ pending' = TRUE /\ mounted' = mounted
    BY <1>4 DEF Ask
  <2>3. NoneAhead'
    <3> SUFFICES ASSUME NEW u \in Turns, u > asked'
                 PROVE  reader'[u] = "idle" /\ u \notin aborted' /\ u \notin terminal'
      BY DEF NoneAhead
    <3>1. u > asked /\ u # asked + 1 /\ ~(u <= asked)
      BY <2>1, TurnsAreNumbers
    <3> QED
      BY <1>1, <1>3, <2>2, <3>1 DEF ComposerInv, NoneAhead, TypeOK
  <2>4. asked + 1 \notin aborted'
    BY <1>3, <2>1
  <2>5. /\ reader'[asked + 1] = "fetch"
        /\ \A u \in Turns : u # asked + 1 => (Running(u)' <=> Running(u))
    BY <2>1, <2>2 DEF Running, TypeOK
  <2>6. asked + 1 # None
    BY <2>1, TurnsAreNumbers
  <2>7. Running(current)'
    BY <2>2, <2>5 DEF Running
  <2> QED
    BY <1>1, <1>2, <2>2, <2>3, <2>4, <2>5, <2>6, <2>7
       DEF ComposerInv, ComposerFollowsStream
<1>5. CASE Abort \/ Reset \/ Unmount
  <2>1. /\ current' = None
        /\ mounted' => pending' = FALSE
        /\ UNCHANGED <<reader, asked>>
    BY <1>5 DEF Abort, Reset, Unmount
  <2>2. NoneAhead'
    <3> SUFFICES ASSUME NEW u \in Turns, u > asked
                 PROVE  u \notin aborted'
      BY <1>1, <2>1 DEF NoneAhead, ComposerInv
    <3> QED
      BY <1>3, TurnsAreNumbers DEF TypeOK
  <2> QED
    BY <1>2, <2>1, <2>2 DEF ComposerInv, ComposerFollowsStream, Running
<1> QED
  BY <1>4, <1>5

LEMMA InitComposer == Init => ComposerInv
BY TurnsAreNumbers DEF Init, ComposerInv, ComposerFollowsStream, NoneAhead,
   Running

LEMMA ComposerStep == TypeOK /\ ComposerInv /\ [Next]_vars => ComposerInv'
<1> SUFFICES ASSUME TypeOK, ComposerInv, [Next]_vars PROVE ComposerInv'
  OBVIOUS
<1>1. CASE UNCHANGED vars
  BY <1>1 DEF vars, ComposerInv, ComposerFollowsStream, NoneAhead, Running
<1>2. CASE Next
  BY <1>2, StepKinds, UserComposer, ClientComposer, SettleComposer
<1> QED
  BY <1>1, <1>2

(* The composer is disabled exactly while the newest question's stream runs *)
(* and was not given up; no late finisher of a superseded one changes it.   *)
THEOREM ComposerFollows == Spec => []ComposerFollowsStream
<1>1. ComposerInv => ComposerFollowsStream
  BY DEF ComposerInv
<1> QED
  BY <1>1, InitTypeOK, NextTypeOK, InitComposer, ComposerStep, PTL DEF Spec

-----------------------------------------------------------------------------
(* What is on the wire.  A frame that ends a stream is its last, and the    *)
(* response ends only behind one.                                           *)

Ends(t) == wire[t] # <<>> /\ wire[t][Len(wire[t])] # "token"

WireInv ==
  \A t \in Turns :
    /\ \A i \in 1..(Len(wire[t]) - 1) : wire[t][i] = "token"
    /\ Ends(t) => handler[t] = "closed"
    /\ link[t] = "ended" => /\ handler[t] = "closed"
                            /\ t \in terminal \/ Ends(t)

(* What a server's step may send.                                           *)
LEMMA ServerSends ==
  ASSUME TypeOK, NEW t \in Turns, ServerStep(t)
  PROVE  /\ \A u \in Turns : u # t => /\ wire'[u] = wire[u]
                                      /\ sent'[u] = sent[u]
                                      /\ handler'[u] = handler[u]
                                      /\ link'[u] = link[u]
         /\ UNCHANGED <<client, hook>>
         /\ \/ /\ UNCHANGED <<wire, sent>>
               /\ handler[t] = "closed" => handler'[t] = "closed"
               /\ link'[t] = "ended" => link[t] = "ended"
            \/ /\ handler[t] = "streaming" /\ handler'[t] = handler[t]
               /\ wire'[t] = Append(wire[t], "token")
               /\ sent'[t] = sent[t] + 1
               /\ link'[t] = link[t]
            \/ /\ handler[t] = "streaming" /\ handler'[t] = "closed"
               /\ \E f \in Frames \ {"token"} : wire'[t] = Append(wire[t], f)
               /\ sent'[t] = sent[t]
<1>1. CASE Receive(t) \/ Refuse(t) \/ OpenStream(t) \/ NoticeDisconnect(t)
           \/ BreakLink(t)
  BY <1>1 DEF Receive, Refuse, OpenStream, NoticeDisconnect, BreakLink, TypeOK,
              client
<1>2. CASE SendToken(t)
  BY <1>2 DEF SendToken, Send, TypeOK
<1>3. CASE SendFinal(t) \/ SendError(t) \/ CancelHandler(t)
  BY <1>3 DEF SendFinal, SendError, CancelHandler, Send, TypeOK, Frames
<1> QED
  BY <1>1, <1>2, <1>3 DEF ServerStep

LEMMA Appended ==
  ASSUME NEW s \in Seq(Frames), NEW f \in Frames
  PROVE  /\ Len(Append(s, f)) = Len(s) + 1 /\ Len(s) \in Nat
         /\ Append(s, f) # <<>>
         /\ Append(s, f)[Len(s) + 1] = f
         /\ \A i \in 1..Len(s) : Append(s, f)[i] = s[i]
OBVIOUS

LEMMA Consumed ==
  ASSUME NEW s \in Seq(Frames), s # <<>>
  PROVE  /\ Tail(s) \in Seq(Frames) /\ Len(s) \in Nat \ {0}
         /\ Len(Tail(s)) = Len(s) - 1
         /\ Head(s) = s[1]
         /\ \A i \in 1..(Len(s) - 1) : Tail(s)[i] = s[i + 1]
         /\ Tail(s) = <<>> <=> Len(s) = 1
<1>1. /\ Tail(s) \in Seq(Frames) /\ Len(s) \in Nat \ {0}
      /\ Len(Tail(s)) = Len(s) - 1
      /\ Head(s) = s[1]
      /\ \A i \in 1..(Len(s) - 1) : Tail(s)[i] = s[i + 1]
  BY EmptySeq, HeadTailProperties
<1>2. Tail(s) = <<>> <=> Len(Tail(s)) = 0
  BY <1>1, EmptySeq
<1> QED
  BY <1>1, <1>2

LEMMA ServerWire ==
  ASSUME TypeOK, WireInv, NEW t \in Turns, ServerStep(t)
  PROVE  WireInv'
<1> SUFFICES ASSUME NEW u \in Turns
             PROVE  /\ \A i \in 1..(Len(wire'[u]) - 1) : wire'[u][i] = "token"
                    /\ Ends(u)' => handler'[u] = "closed"
                    /\ link'[u] = "ended" => /\ handler'[u] = "closed"
                                             /\ u \in terminal' \/ Ends(u)'
  BY DEF WireInv
<1>1. wire[u] \in Seq(Frames) /\ UNCHANGED terminal
  BY ServerSends DEF TypeOK, client
<1>2. /\ \A i \in 1..(Len(wire[u]) - 1) : wire[u][i] = "token"
      /\ Ends(u) => handler[u] = "closed"
      /\ link[u] = "ended" => /\ handler[u] = "closed"
                              /\ u \in terminal \/ Ends(u)
  BY DEF WireInv
<1>3. CASE u # t \/ wire' = wire
  BY <1>1, <1>2, <1>3, ServerSends DEF Ends
<1>4. ASSUME u = t, NEW f \in Frames, wire'[t] = Append(wire[t], f),
             handler[t] = "streaming",
             f # "token" => handler'[t] = "closed",
             f = "token" => link'[t] = link[t]
      PROVE  /\ \A i \in 1..(Len(wire'[u]) - 1) : wire'[u][i] = "token"
             /\ Ends(u)' => handler'[u] = "closed"
             /\ link'[u] = "ended" => /\ handler'[u] = "closed"
                                      /\ u \in terminal' \/ Ends(u)'
  <2>1. \A i \in 1..Len(wire[u]) : wire[u][i] = "token"
    <3>1. ~Ends(u)
      BY <1>2, <1>4
    <3> QED
      BY <1>1, <1>2, <3>1 DEF Ends
  <2>2. \A i \in 1..(Len(wire'[u]) - 1) : wire'[u][i] = "token"
    BY <1>1, <1>4, <2>1, Appended
  <2>3. Ends(u)' <=> f # "token"
    BY <1>1, <1>4, Appended DEF Ends
  <2>4. link[u] # "ended"
    BY <1>2, <1>4
  <2> QED
    BY <1>4, <2>2, <2>3, <2>4
<1>5. "token" \in Frames
  BY DEF Frames
<1> QED
  BY <1>3, <1>4, <1>5, ServerSends

LEMMA ReadWire ==
  ASSUME TypeOK, WireInv, NEW t \in Turns, ReadFrame(t)
  PROVE  WireInv'
<1> SUFFICES ASSUME NEW u \in Turns
             PROVE  /\ \A i \in 1..(Len(wire'[u]) - 1) : wire'[u][i] = "token"
                    /\ Ends(u)' => handler'[u] = "closed"
                    /\ link'[u] = "ended" => /\ handler'[u] = "closed"
                                             /\ u \in terminal' \/ Ends(u)'
  BY DEF WireInv
<1>1. /\ UNCHANGED <<handler, link>>
      /\ wire' = [wire EXCEPT ![t] = Tail(@)] /\ wire[t] # <<>>
      /\ terminal' = terminal \/ terminal' = terminal \cup {t}
      /\ Head(wire[t]) # "token" => t \in terminal'
  BY DEF ReadFrame, OnToken, OnFinal, OnError
<1>2. /\ \A i \in 1..(Len(wire[u]) - 1) : wire[u][i] = "token"
      /\ Ends(u) => handler[u] = "closed"
      /\ link[u] = "ended" => /\ handler[u] = "closed"
                              /\ u \in terminal \/ Ends(u)
  BY DEF WireInv
<1>3. CASE u # t
  BY <1>1, <1>2, <1>3 DEF Ends, TypeOK
<1>4. CASE u = t
  <2>1. wire[t] \in Seq(Frames) /\ wire'[t] = Tail(wire[t])
    BY <1>1 DEF TypeOK
  <2> DEFINE n == Len(wire[t])
  <2>2. /\ n \in Nat \ {0} /\ Len(wire'[t]) = n - 1
        /\ \A i \in 1..(n - 1) : wire'[t][i] = wire[t][i + 1]
        /\ wire'[t] = <<>> <=> n = 1
        /\ Head(wire[t]) = wire[t][1]
    BY <1>1, <2>1, Consumed
  <2> HIDE DEF n
  <2>3. \A i \in 1..(Len(wire'[u]) - 1) : wire'[u][i] = "token"
    BY <1>2, <1>4, <2>2 DEF n
  <2>4. CASE n = 1
    BY <1>1, <1>2, <1>4, <2>2, <2>3, <2>4 DEF Ends, n
  <2>5. CASE n # 1
    <3>1. n - 1 \in 1..(n - 1) /\ (n - 1) + 1 = n
      BY <2>2, <2>5
    <3>2. wire'[t][n - 1] = wire[t][n]
      BY <2>2, <3>1
    <3>3. Ends(u)' <=> Ends(u)
      BY <1>1, <1>4, <2>2, <2>5, <3>2 DEF Ends, n
    <3> QED
      BY <1>1, <1>2, <2>3, <3>3
  <2> QED
    BY <2>4, <2>5
<1> QED
  BY <1>3, <1>4

LEMMA WireStep == TypeOK /\ WireInv /\ [Next]_vars => WireInv'
<1> SUFFICES ASSUME TypeOK, WireInv, [Next]_vars PROVE WireInv'
  OBVIOUS
<1>1. ASSUME UNCHANGED <<wire, handler, link>>, terminal \subseteq terminal'
      PROVE  WireInv'
  BY <1>1 DEF WireInv, Ends
<1>2. CASE UNCHANGED vars
  BY <1>1, <1>2 DEF vars
<1>3. ASSUME NEW t \in Turns, FetchAnswered(t) \/ SettleStep(t)
      PROVE  WireInv'
  BY <1>1, <1>3 DEF FetchAnswered, SettleStep, Settle, server
<1>4. CASE Ask \/ Abort \/ Reset \/ Unmount
  BY <1>1, <1>4 DEF Ask, Abort, Reset, Unmount, server
<1>5. CASE Next
  BY <1>3, <1>4, <1>5, StepKinds, ServerWire, ReadWire
<1> QED
  BY <1>2, <1>5

LEMMA InitWire == Init => WireInv
<1> SUFFICES ASSUME Init, NEW t \in Turns
             PROVE  wire[t] = <<>> /\ link[t] # "ended"
  BY DEF WireInv, Ends
<1> QED
  BY DEF Init

-----------------------------------------------------------------------------
(* How turns end.  Only a terminal event shows an answer or an error, and   *)
(* it does, while the chat is on screen; a turn is marked as cancelled when *)
(* it has settled without one.                                              *)

EndInv ==
  \A t \in Turns :
    /\ turns[t].final \/ turns[t].error => t \in terminal
    /\ turns[t].cancelled => reader[t] = "done" /\ t \notin terminal
    /\ mounted /\ turns[t].shown /\ t \in terminal =>
         turns[t].final \/ turns[t].error
    /\ mounted /\ turns[t].shown /\ reader[t] = "done" =>
         t \in terminal \/ turns[t].cancelled

(* A step that changes one turn is one that changes no other.               *)
LEMMA EndOfOthers ==
  ASSUME TypeOK, EndInv, NEW t \in Turns, mounted' = mounted,
         \A u \in Turns : u # t => /\ turns'[u] = turns[u]
                                   /\ reader'[u] = reader[u]
                                   /\ u \in terminal' <=> u \in terminal,
         /\ turns'[t].final \/ turns'[t].error => t \in terminal'
         /\ turns'[t].cancelled => reader'[t] = "done" /\ t \notin terminal'
         /\ mounted /\ turns'[t].shown /\ t \in terminal' =>
              turns'[t].final \/ turns'[t].error
         /\ mounted /\ turns'[t].shown /\ reader'[t] = "done" =>
              t \in terminal' \/ turns'[t].cancelled
  PROVE  EndInv'
BY DEF EndInv

LEMMA SettleEnds ==
  ASSUME TypeOK, WireInv, EndInv, NEW t \in Turns, SettleStep(t)
  PROVE  EndInv'
<1> PICK e \in BOOLEAN :
      Settle(t, e) /\ (e \/ t \in aborted \/ (wire[t] = <<>> /\ link[t] = "ended"))
  BY DEF SettleStep
<1>1. /\ reader' = [reader EXCEPT ![t] = "done"]
      /\ terminal' = IF e THEN terminal \cup {t} ELSE terminal
      /\ turns' = Updated(t, SettledTurn(t, e))
      /\ mounted' = mounted
  BY DEF Settle
<1>2. \A u \in Turns : u # t => /\ turns'[u] = turns[u]
                                /\ reader'[u] = reader[u]
                                /\ u \in terminal' <=> u \in terminal
  BY <1>1 DEF Updated, TypeOK
<1>3. reader'[t] = "done" /\ reader[t] # "done"
  BY <1>1 DEF TypeOK, SettleStep, Running
<1>4. e \/ t \in aborted \/ t \in terminal
  BY DEF WireInv, Ends
<1>5. /\ turns[t].final \/ turns[t].error => t \in terminal
      /\ ~turns[t].cancelled
      /\ mounted /\ turns[t].shown /\ t \in terminal =>
           turns[t].final \/ turns[t].error
  BY <1>3 DEF EndInv
<1>6. CASE mounted /\ turns[t].shown
  <2>1. turns'[t] = SettledTurn(t, e)
    BY <1>1, <1>6 DEF Updated, TypeOK
  <2>2. turns[t] \in TurnType
    BY DEF TypeOK, TurnType
  <2>3. /\ turns'[t].final = turns[t].final
        /\ turns'[t].error = (turns[t].error \/ e)
        /\ turns'[t].cancelled = (turns[t].cancelled \/ (/\ t \notin terminal /\ ~e
                                                    /\ t \in aborted))
    BY <2>1, <2>2 DEF SettledTurn, TurnType
  <2> QED
    BY <1>1, <1>2, <1>3, <1>4, <1>5, <1>6, <2>3, EndOfOthers
<1>7. CASE ~(mounted /\ turns[t].shown)
  <2>1. turns' = turns
    BY <1>1, <1>7 DEF Updated
  <2> QED
    BY <1>1, <1>2, <1>3, <1>5, <1>7, <2>1, EndOfOthers
<1> QED
  BY <1>6, <1>7

(* The fields of a turn that a frame leaves alone or sets.                  *)
LEMMA FrameFields ==
  ASSUME NEW r \in TurnType, NEW n \in Nat
  PROVE  LET token == [r EXCEPT !.tokens = @ + 1]
             final == [r EXCEPT !.final = TRUE, !.tokens = n,
                                !.streaming = FALSE]
             error == [r EXCEPT !.error = TRUE, !.streaming = FALSE]
         IN /\ token.shown = r.shown /\ token.cancelled = r.cancelled
            /\ token.final = r.final /\ token.error = r.error
            /\ token.tokens = r.tokens + 1
            /\ final.shown = r.shown /\ final.cancelled = r.cancelled
            /\ final.final /\ final.tokens = n /\ final.error = r.error
            /\ error.shown = r.shown /\ error.cancelled = r.cancelled
            /\ error.error /\ error.final = r.final
            /\ error.tokens = r.tokens
BY Zenon DEF TurnType

LEMMA UpdatedTurn ==
  ASSUME TypeOK, NEW t \in Turns, NEW new, turns' = Updated(t, new)
  PROVE  /\ mounted /\ turns[t].shown => turns'[t] = new
         /\ ~(mounted /\ turns[t].shown) => turns'[t] = turns[t]
BY DEF Updated, TypeOK

LEMMA FrameTurn ==
  ASSUME TypeOK, NEW t \in Turns, ReadFrame(t)
  PROVE  /\ turns'[t].shown = turns[t].shown
         /\ turns'[t].cancelled = turns[t].cancelled
         /\ \/ /\ Head(wire[t]) = "token"
               /\ turns'[t].final = turns[t].final
               /\ turns'[t].error = turns[t].error
               /\ turns'[t].tokens \in {turns[t].tokens, turns[t].tokens + 1}
               /\ terminal' = terminal
            \/ /\ Head(wire[t]) # "token"
               /\ terminal' = terminal \cup {t}
               /\ mounted /\ turns[t].shown =>
                    turns'[t].final \/ turns'[t].error
               /\ \/ turns'[t].final = turns[t].final
                  \/ turns'[t].error = turns[t].error
               /\ \/ /\ turns'[t].final = turns[t].final
                     /\ turns'[t].tokens = turns[t].tokens
                  \/ turns'[t].tokens = sent[t]
<1>1. turns[t] \in TurnType /\ sent[t] \in Nat
  BY BoundsAssumption DEF TypeOK, TurnType
<1>2. CASE Head(wire[t]) = "token" /\ OnToken(t)
  <2>1. turns' = Updated(t, [turns[t] EXCEPT !.tokens = @ + 1])
    BY <1>2 DEF OnToken
  <2>2. terminal' = terminal
    BY <1>2 DEF OnToken
  <2>3. turns'[t] \in {turns[t], [turns[t] EXCEPT !.tokens = @ + 1]}
    BY <2>1, UpdatedTurn
  <2>4. LET r == [turns[t] EXCEPT !.tokens = @ + 1]
        IN  /\ r.shown = turns[t].shown /\ r.cancelled = turns[t].cancelled
            /\ r.final = turns[t].final /\ r.error = turns[t].error
            /\ r.tokens = turns[t].tokens + 1
    BY <1>1, FrameFields, Zenon
  <2>5. /\ turns'[t].shown = turns[t].shown
        /\ turns'[t].cancelled = turns[t].cancelled
        /\ turns'[t].final = turns[t].final
        /\ turns'[t].error = turns[t].error
        /\ turns'[t].tokens \in {turns[t].tokens, turns[t].tokens + 1}
    BY <2>3, <2>4, Zenon
  <2> QED
    BY <1>2, <2>2, <2>5
<1>3. CASE Head(wire[t]) = "final" /\ OnFinal(t)
  <2>1. turns' = Updated(t, [turns[t] EXCEPT !.final = TRUE,
                                             !.tokens = sent[t],
                                             !.streaming = FALSE])
    BY <1>3 DEF OnFinal
  <2>2. terminal' = terminal \cup {t} /\ Head(wire[t]) # "token"
    BY <1>3 DEF OnFinal
  <2> DEFINE new == [turns[t] EXCEPT !.final = TRUE, !.tokens = sent[t],
                                   !.streaming = FALSE]
  <2>3. CASE mounted /\ turns[t].shown
    <3>1. turns'[t] = new
      BY <2>1, <2>3, UpdatedTurn
    <3>2. /\ new.shown = turns[t].shown /\ new.cancelled = turns[t].cancelled
          /\ new.final /\ new.tokens = sent[t]
          /\ new.error = turns[t].error
      BY <1>1, FrameFields
    <3> QED
      BY <2>2, <3>1, <3>2, Zenon
  <2>4. CASE ~(mounted /\ turns[t].shown)
    <3>1. turns'[t] = turns[t]
      BY <2>1, <2>4, UpdatedTurn
    <3> QED
      BY <2>2, <2>4, <3>1, Zenon
  <2> QED
    BY <2>3, <2>4
<1>4. CASE Head(wire[t]) \in {"error", "cancelled"} /\ OnError(t)
  <2>1. turns' = Updated(t, [turns[t] EXCEPT !.error = TRUE,
                                             !.streaming = FALSE])
    BY <1>4 DEF OnError
  <2>2. terminal' = terminal \cup {t} /\ Head(wire[t]) # "token"
    BY <1>4 DEF OnError
  <2> DEFINE new == [turns[t] EXCEPT !.error = TRUE, !.streaming = FALSE]
  <2>3. CASE mounted /\ turns[t].shown
    <3>1. turns'[t] = new
      BY <2>1, <2>3, UpdatedTurn
    <3>2. /\ new.shown = turns[t].shown /\ new.cancelled = turns[t].cancelled
          /\ new.error /\ new.final = turns[t].final
          /\ new.tokens = turns[t].tokens
      BY <1>1, FrameFields
    <3> QED
      BY <2>2, <3>1, <3>2, Zenon
  <2>4. CASE ~(mounted /\ turns[t].shown)
    <3>1. turns'[t] = turns[t]
      BY <2>1, <2>4, UpdatedTurn
    <3> QED
      BY <2>2, <2>4, <3>1, Zenon
  <2> QED
    BY <2>3, <2>4
<1> QED
  BY <1>2, <1>3, <1>4 DEF ReadFrame

LEMMA ReadEnds ==
  ASSUME TypeOK, EndInv, NEW t \in Turns, FetchAnswered(t) \/ ReadFrame(t)
  PROVE  EndInv'
<1>1. CASE FetchAnswered(t)
  <2>1. /\ UNCHANGED <<terminal, turns, mounted>>
        /\ \A u \in Turns : /\ u # t => reader'[u] = reader[u]
                            /\ reader'[u] = "done" <=> reader[u] = "done"
    BY <1>1 DEF FetchAnswered, TypeOK, hook
  <2> QED
    BY <2>1 DEF EndInv
<1>2. CASE ReadFrame(t)
  <2>1. UNCHANGED <<reader, mounted>> /\ reader[t] = "read"
    BY <1>2 DEF ReadFrame
  <2>2. \A u \in Turns : u # t => /\ turns'[u] = turns[u]
                                  /\ u \in terminal' <=> u \in terminal
    BY <1>2 DEF ReadFrame, OnToken, OnFinal, OnError, Updated, TypeOK
  <2>3. /\ turns[t].final \/ turns[t].error => t \in terminal
        /\ ~turns[t].cancelled
        /\ mounted /\ turns[t].shown /\ t \in terminal =>
             turns[t].final \/ turns[t].error
    BY <2>1 DEF EndInv
  <2> QED
    BY <1>2, <2>1, <2>2, <2>3, FrameTurn, EndOfOthers, Zenon
<1> QED
  BY <1>1, <1>2

LEMMA UserEnds ==
  ASSUME TypeOK, ComposerInv, EndInv, Ask \/ Abort \/ Reset \/ Unmount
  PROVE  EndInv'
<1>1. UNCHANGED terminal
  BY DEF Ask, Abort, Reset, Unmount
<1>2. CASE Ask
  <2>1. asked + 1 \in Turns /\ asked + 1 \notin terminal
    BY <1>2, BoundsAssumption DEF Ask, TypeOK, Turns, ComposerInv, NoneAhead
  <2>2. /\ turns'[asked + 1] = NewTurn /\ reader'[asked + 1] = "fetch"
        /\ UNCHANGED mounted
        /\ \A u \in Turns : u # asked + 1 => /\ turns'[u] = turns[u]
                                             /\ reader'[u] = reader[u]
    BY <1>2, <2>1 DEF Ask, TypeOK
  <2>3. ~NewTurn.final /\ ~NewTurn.error /\ ~NewTurn.cancelled
    BY DEF NewTurn, NoTurn
  <2> QED
    BY <1>1, <2>1, <2>2, <2>3, EndOfOthers
<1>3. CASE Reset
  <2>1. \A u \in Turns : /\ ~turns'[u].final /\ ~turns'[u].error
                         /\ ~turns'[u].cancelled /\ ~turns'[u].shown
    BY <1>3 DEF Reset, NoTurn
  <2> QED
    BY <2>1 DEF EndInv
<1>4. CASE Abort \/ Unmount
  <2>1. UNCHANGED <<turns, reader>> /\ (mounted' => mounted)
    BY <1>4 DEF Abort, Unmount
  <2> QED
    BY <1>1, <2>1 DEF EndInv
<1> QED
  BY <1>2, <1>3, <1>4

LEMMA InitEnds == Init => EndInv
<1> SUFFICES ASSUME Init, NEW t \in Turns
             PROVE  /\ ~turns[t].final /\ ~turns[t].error
                    /\ ~turns[t].cancelled /\ ~turns[t].shown
  BY DEF EndInv
<1> QED
  BY DEF Init, NoTurn

LEMMA EndStep ==
  TypeOK /\ ComposerInv /\ WireInv /\ EndInv /\ [Next]_vars => EndInv'
<1> SUFFICES ASSUME TypeOK, ComposerInv, WireInv, EndInv, [Next]_vars
             PROVE  EndInv'
  OBVIOUS
<1>1. ASSUME UNCHANGED <<turns, reader, terminal, mounted>>
      PROVE  EndInv'
  BY <1>1 DEF EndInv
<1>2. ASSUME NEW t \in Turns, ServerStep(t)
      PROVE  EndInv'
  BY <1>1, <1>2, ServerSends DEF client, hook
<1>3. CASE UNCHANGED vars
  BY <1>1, <1>3 DEF vars
<1>4. CASE Next
  BY <1>2, <1>4, StepKinds, UserEnds, ReadEnds, SettleEnds
<1> QED
  BY <1>3, <1>4

-----------------------------------------------------------------------------
(* The text.  What a turn shows and what is still on the wire for it is at  *)
(* most what was sent, and an answer is the last thing that was.            *)

EndFrames(t) == IF Ends(t) THEN 1 ELSE 0

TextInv ==
  \A t \in Turns :
    /\ turns[t].tokens + Len(wire[t]) <= sent[t] + EndFrames(t)
    /\ turns[t].final => /\ turns[t].tokens = sent[t]
                         /\ wire[t] = <<>>
                         /\ handler[t] = "closed"

LEMMA Numbers ==
  ASSUME TypeOK, NEW t \in Turns
  PROVE  turns[t].tokens \in Nat /\ Len(wire[t]) \in Nat /\ sent[t] \in Nat
<1>1. wire[t] \in Seq(Frames) /\ sent[t] \in 0..MaxTokens
      /\ turns[t].tokens \in Nat
  BY DEF TypeOK
<1> QED
  BY <1>1, BoundsAssumption

LEMMA TextShown == TypeOK /\ TextInv => TextIsTheAnswer
<1> SUFFICES ASSUME TypeOK, TextInv, NEW t \in Turns
             PROVE  /\ turns[t].tokens <= sent[t]
                    /\ turns[t].final => turns[t].tokens = sent[t]
  BY DEF TextIsTheAnswer
<1>1. wire[t] \in Seq(Frames)
  BY DEF TypeOK
<1>2. Ends(t) => Len(wire[t]) \in Nat \ {0}
  BY <1>1, EmptySeq DEF Ends
<1> QED
  BY <1>2, Numbers DEF TextInv, EndFrames

LEMMA ServerText ==
  ASSUME TypeOK, WireInv, TextInv, NEW t \in Turns, ServerStep(t)
  PROVE  TextInv'
<1> SUFFICES ASSUME NEW u \in Turns
             PROVE  /\ turns'[u].tokens + Len(wire'[u])
                         <= sent'[u] + EndFrames(u)'
                    /\ turns'[u].final => /\ turns'[u].tokens = sent'[u]
                                          /\ wire'[u] = <<>>
                                          /\ handler'[u] = "closed"
  BY DEF TextInv
<1>1. UNCHANGED turns
  BY ServerSends DEF hook
<1>2. /\ turns[u].tokens + Len(wire[u]) <= sent[u] + EndFrames(u)
      /\ turns[u].final => /\ turns[u].tokens = sent[u]
                           /\ wire[u] = <<>>
                           /\ handler[u] = "closed"
      /\ Ends(u) => handler[u] = "closed"
  BY DEF TextInv, WireInv
<1>3. CASE u # t \/ (UNCHANGED <<wire, sent>>
                     /\ (handler[t] = "closed" => handler'[t] = "closed"))
  BY <1>1, <1>2, <1>3, ServerSends DEF EndFrames, Ends
<1>4. ASSUME u = t, handler[t] = "streaming", NEW f \in Frames,
             wire'[t] = Append(wire[t], f),
             sent'[t] = IF f = "token" THEN sent[t] + 1 ELSE sent[t]
      PROVE  /\ turns'[u].tokens + Len(wire'[u]) <= sent'[u] + EndFrames(u)'
             /\ ~turns'[u].final
  <2>1. wire[t] \in Seq(Frames)
    BY DEF TypeOK
  <2>2. /\ Len(wire'[u]) = Len(wire[u]) + 1
        /\ Ends(u)' <=> f # "token"
    BY <1>4, <2>1, Appended DEF Ends
  <2>3. EndFrames(u) = 0 /\ EndFrames(u)' = IF f = "token" THEN 0 ELSE 1
    BY <1>2, <1>4, <2>2 DEF EndFrames
  <2> QED
    BY <1>1, <1>2, <1>4, <2>2, <2>3, Numbers
<1>5. "token" \in Frames
  BY DEF Frames
<1> QED
  BY <1>3, <1>4, <1>5, ServerSends

LEMMA OneMore ==
  ASSUME NEW shown \in Nat, NEW n \in Nat, NEW most \in Nat,
         shown + n <= most, NEW next \in {shown, shown + 1}
  PROVE  next + (n - 1) <= most
OBVIOUS

LEMMA ReadText ==
  ASSUME TypeOK, WireInv, TextInv, NEW t \in Turns, ReadFrame(t)
  PROVE  TextInv'
<1> SUFFICES ASSUME NEW u \in Turns
             PROVE  /\ turns'[u].tokens + Len(wire'[u])
                         <= sent'[u] + EndFrames(u)'
                    /\ turns'[u].final => /\ turns'[u].tokens = sent'[u]
                                          /\ wire'[u] = <<>>
                                          /\ handler'[u] = "closed"
  BY DEF TextInv
<1>1. /\ UNCHANGED <<sent, handler>>
      /\ wire' = [wire EXCEPT ![t] = Tail(@)] /\ wire[t] # <<>>
      /\ wire[t] \in Seq(Frames)
  BY DEF ReadFrame, TypeOK
<1>2. /\ turns[u].tokens + Len(wire[u]) <= sent[u] + EndFrames(u)
      /\ turns[u].final => /\ turns[u].tokens = sent[u]
                           /\ wire[u] = <<>>
                           /\ handler[u] = "closed"
      /\ Ends(u) => handler[u] = "closed"
      /\ \A i \in 1..(Len(wire[u]) - 1) : wire[u][i] = "token"
  BY DEF TextInv, WireInv
<1>3. CASE u # t
  <2>1. turns'[u] = turns[u] /\ wire'[u] = wire[u]
    BY <1>1, <1>3 DEF ReadFrame, OnToken, OnFinal, OnError, Updated, TypeOK
  <2> QED
    BY <1>1, <1>2, <2>1 DEF EndFrames, Ends
<1>4. CASE u = t
  <2> DEFINE n == Len(wire[t])
  <2>1. /\ n \in Nat \ {0} /\ wire'[t] = Tail(wire[t]) /\ Len(wire'[t]) = n - 1
        /\ \A i \in 1..(n - 1) : wire'[t][i] = wire[t][i + 1]
        /\ wire'[t] = <<>> <=> n = 1
        /\ Head(wire[t]) = wire[t][1]
    BY <1>1, Consumed DEF TypeOK
  <2> HIDE DEF n
  <2>2. ~turns[t].final
    BY <1>1, <1>2, <1>4
  <2>3. n # 1 => /\ Head(wire[t]) = "token"
                 /\ EndFrames(t)' = EndFrames(t)
    <3> SUFFICES ASSUME n # 1
                 PROVE  /\ Head(wire[t]) = "token"
                        /\ EndFrames(t)' = EndFrames(t)
      OBVIOUS
    <3>1. 1 \in 1..(n - 1) /\ n - 1 \in 1..(n - 1) /\ (n - 1) + 1 = n
      BY <2>1
    <3>2. Head(wire[t]) = "token" /\ wire'[t][n - 1] = wire[t][n]
      BY <1>2, <1>4, <2>1, <3>1 DEF n
    <3>3. Ends(t)' <=> Ends(t)
      BY <1>1, <2>1, <3>2 DEF Ends, n
    <3> QED
      BY <3>2, <3>3 DEF EndFrames
  <2>4. n = 1 => /\ EndFrames(t)' = 0
                 /\ EndFrames(t) = IF Head(wire[t]) = "token" THEN 0 ELSE 1
    BY <1>1, <2>1 DEF EndFrames, Ends, n
  <2>5. /\ turns[t].tokens \in Nat /\ sent[t] \in Nat
        /\ turns[t].tokens + n <= sent[t] + EndFrames(t)
        /\ EndFrames(t) \in Nat
    BY <1>2, <1>4, Numbers DEF n, EndFrames
  <2>6. CASE Head(wire[t]) = "token"
    <3>1. turns'[t].tokens \in {turns[t].tokens, turns[t].tokens + 1}
      BY <2>6, FrameTurn
    <3>2. ~turns'[t].final
      BY <2>2, <2>6, FrameTurn
    <3>3. turns'[t].tokens + Len(wire'[t]) <= sent[t] + EndFrames(t)'
      <4>1. EndFrames(t)' = EndFrames(t)
        BY <2>1, <2>3, <2>4, <2>6
      <4>2. Len(wire'[t]) = n - 1 /\ n \in Nat
        BY <2>1
      <4>3. /\ turns[t].tokens \in Nat /\ n \in Nat
            /\ sent[t] + EndFrames(t) \in Nat
            /\ turns[t].tokens + n <= sent[t] + EndFrames(t)
        BY <2>1, <2>5
      <4>4. turns'[t].tokens + (n - 1) <= sent[t] + EndFrames(t)
        BY <3>1, <4>3, OneMore
      <4> QED
        BY <4>1, <4>2, <4>4
    <3> QED
      BY <1>1, <1>4, <3>2, <3>3
  <2>7. CASE Head(wire[t]) # "token"
    <3>1. n = 1 /\ EndFrames(t)' = 0 /\ EndFrames(t) = 1
      BY <2>3, <2>4, <2>7
    <3>2. handler[t] = "closed"
      BY <1>2, <1>4, <3>1 DEF EndFrames
    <3>3. turns'[t].tokens \in {turns[t].tokens, sent[t]}
      BY <2>7, FrameTurn
    <3>4. turns'[t].final => turns'[t].tokens = sent[t]
      BY <2>2, <2>7, FrameTurn
    <3>5. wire'[t] = <<>> /\ Len(wire'[t]) = 0
      BY <2>1, <3>1
    <3> QED
      BY <1>1, <1>4, <2>5, <3>1, <3>2, <3>3, <3>4, <3>5
  <2> QED
    BY <2>6, <2>7
<1> QED
  BY <1>3, <1>4

LEMMA TextStep == TypeOK /\ WireInv /\ TextInv /\ [Next]_vars => TextInv'
<1> SUFFICES ASSUME TypeOK, WireInv, TextInv, [Next]_vars PROVE TextInv'
  OBVIOUS
<1>1. ASSUME UNCHANGED <<handler, sent, wire>>,
             \A u \in Turns : \/ /\ turns'[u].tokens = turns[u].tokens
                                 /\ turns'[u].final = turns[u].final
                              \/ turns'[u].tokens = 0 /\ ~turns'[u].final
      PROVE  TextInv'
  <2> SUFFICES ASSUME NEW u \in Turns
               PROVE  /\ turns'[u].tokens + Len(wire[u])
                           <= sent[u] + EndFrames(u)
                      /\ turns'[u].final => /\ turns'[u].tokens = sent[u]
                                            /\ wire[u] = <<>>
                                            /\ handler[u] = "closed"
    BY <1>1 DEF TextInv, EndFrames, Ends
  <2>1. EndFrames(u) \in Nat
    BY DEF EndFrames
  <2> QED
    BY <1>1, <2>1, Numbers DEF TextInv
<1>2. CASE UNCHANGED vars
  BY <1>1, <1>2 DEF vars
<1>3. ASSUME NEW t \in Turns, FetchAnswered(t)
      PROVE  TextInv'
  BY <1>1, <1>3 DEF FetchAnswered, server, hook
<1>4. ASSUME NEW t \in Turns, SettleStep(t)
      PROVE  TextInv'
  <2> PICK e \in BOOLEAN : Settle(t, e)
    BY <1>4 DEF SettleStep
  <2>1. \A u \in Turns : turns[u] \in TurnType
    BY DEF TypeOK, TurnType
  <2>2. \A u \in Turns : /\ turns'[u].tokens = turns[u].tokens
                         /\ turns'[u].final = turns[u].final
    BY <2>1 DEF Settle, Updated, SettledTurn, TypeOK, TurnType
  <2> QED
    BY <1>1, <2>2 DEF Settle, server
<1>5. CASE Ask \/ Abort \/ Reset \/ Unmount
  <2>1. \A u \in Turns : turns'[u] \in {turns[u], NewTurn, NoTurn}
    BY <1>5 DEF Ask, Abort, Reset, Unmount, TypeOK
  <2>2. /\ NewTurn.tokens = 0 /\ ~NewTurn.final
        /\ NoTurn.tokens = 0 /\ ~NoTurn.final
    BY DEF NewTurn, NoTurn
  <2>3. UNCHANGED <<handler, sent, wire>>
    BY <1>5 DEF Ask, Abort, Reset, Unmount, server
  <2> QED
    BY <1>1, <2>1, <2>2, <2>3
<1>6. CASE Next
  BY <1>3, <1>4, <1>5, <1>6, StepKinds, ServerText, ReadText
<1> QED
  BY <1>2, <1>6

LEMMA InitText == Init => TextInv
<1> SUFFICES ASSUME Init, NEW t \in Turns
             PROVE  /\ turns[t].tokens + Len(wire[t]) <= sent[t] + EndFrames(t)
                    /\ ~turns[t].final
  BY DEF TextInv
<1>1. /\ turns[t].tokens = 0 /\ ~turns[t].final
      /\ wire[t] = <<>> /\ sent[t] = 0
  BY DEF Init, NoTurn
<1> QED
  BY <1>1, EmptySeq DEF EndFrames, Ends

(* The text on screen never runs ahead of the generator, repeats nothing,   *)
(* and is all of it when the answer is final.                               *)
THEOREM TextIsGenerated == Spec => []TextIsTheAnswer
BY InitTypeOK, NextTypeOK, InitWire, WireStep, InitText, TextStep, TextShown,
   PTL DEF Spec

-----------------------------------------------------------------------------
(* What comes behind the answer.  An error is shown by a stream that has    *)
(* ended or by its last frame, and the answer is the last frame of another; *)
(* so both are shown only where reading on from the answer failed.          *)

FinalInv ==
  \A t \in Turns :
    /\ turns[t].error => \/ reader[t] = "done"
                         \/ wire[t] = <<>> /\ handler[t] = "closed"
    /\ turns[t].final => reader[t] \in {"read", "done"}
    /\ turns[t].final /\ turns[t].error => link[t] = "broken"

LEMMA ServerFinal ==
  ASSUME TypeOK, TextInv, FinalInv, NEW t \in Turns, ServerStep(t)
  PROVE  FinalInv'
<1>1. UNCHANGED <<turns, reader>>
  BY ServerSends DEF client, hook
<1>2. handler[t] = "closed" =>
        /\ handler'[t] = "closed" /\ wire'[t] = wire[t]
        /\ link[t] = "broken" => link'[t] = "broken"
  BY DEF ServerStep, Receive, Refuse, OpenStream, SendToken, SendFinal,
         SendError, CancelHandler, NoticeDisconnect, BreakLink, TypeOK
<1>3. \A u \in Turns : u # t => /\ wire'[u] = wire[u]
                                /\ handler'[u] = handler[u]
                                /\ link'[u] = link[u]
  BY ServerSends
<1> QED
  BY <1>1, <1>2, <1>3 DEF FinalInv, TextInv

LEMMA ReadFinal ==
  ASSUME TypeOK, WireInv, TextInv, FinalInv, NEW t \in Turns, ReadFrame(t)
  PROVE  FinalInv'
<1>1. /\ UNCHANGED <<handler, link, reader>> /\ reader[t] = "read"
      /\ wire' = [wire EXCEPT ![t] = Tail(@)] /\ wire[t] # <<>>
      /\ wire[t] \in Seq(Frames)
  BY DEF ReadFrame, TypeOK
<1>2. \A u \in Turns : u # t => turns'[u] = turns[u] /\ wire'[u] = wire[u]
  BY <1>1 DEF ReadFrame, OnToken, OnFinal, OnError, Updated, TypeOK
<1>3. ~turns[t].final /\ ~turns[t].error
  BY <1>1 DEF TextInv, FinalInv
<1>4. ~(turns'[t].final /\ turns'[t].error)
  BY <1>3, FrameTurn
<1>5. turns'[t].error => wire'[t] = <<>> /\ handler'[t] = "closed"
  <2> SUFFICES ASSUME turns'[t].error
               PROVE  wire'[t] = <<>> /\ handler[t] = "closed"
    BY <1>1
  <2>1. Head(wire[t]) # "token"
    BY <1>3, FrameTurn
  <2> DEFINE n == Len(wire[t])
  <2>2. /\ n \in Nat \ {0} /\ Head(wire[t]) = wire[t][1]
        /\ Tail(wire[t]) = <<>> <=> n = 1
    BY <1>1, Consumed
  <2>3. \A i \in 1..(n - 1) : wire[t][i] = "token"
    BY DEF WireInv
  <2> HIDE DEF n
  <2>4. n = 1
    BY <2>1, <2>2, <2>3
  <2>5. Ends(t)
    BY <1>1, <2>1, <2>2, <2>4 DEF Ends, n
  <2>6. wire'[t] = <<>>
    BY <1>1, <2>2, <2>4 DEF TypeOK
  <2> QED
    BY <2>5, <2>6 DEF WireInv
<1> QED
  BY <1>1, <1>2, <1>4, <1>5 DEF FinalInv

LEMMA SettleFinal ==
  ASSUME TypeOK, FinalInv, NEW t \in Turns, SettleStep(t)
  PROVE  FinalInv'
<1> PICK e \in BOOLEAN :
      /\ Settle(t, e)
      /\ e /\ reader[t] = "read" => link[t] = "broken"
  BY DEF SettleStep
<1>1. /\ UNCHANGED <<handler, wire, link>> /\ reader'[t] = "done"
      /\ \A u \in Turns : u # t => /\ reader'[u] = reader[u]
                                   /\ turns'[u] = turns[u]
  BY DEF Settle, Updated, server, TypeOK
<1>2. /\ turns'[t].final = turns[t].final
      /\ turns'[t].error => turns[t].error \/ e
  <2>1. turns[t] \in TurnType
    BY DEF TypeOK, TurnType
  <2> QED
    BY <2>1 DEF Settle, Updated, SettledTurn, TypeOK, TurnType
<1>3. reader[t] # "done"
  BY DEF SettleStep, Running
<1>4. turns'[t].final /\ turns'[t].error => link[t] = "broken"
  BY <1>2, <1>3 DEF FinalInv
<1> QED
  BY <1>1, <1>4 DEF FinalInv

LEMMA UserFinal ==
  ASSUME TypeOK, FinalInv, Ask \/ Abort \/ Reset \/ Unmount
  PROVE  FinalInv'
<1>1. UNCHANGED <<handler, wire, link>>
  BY DEF Ask, Abort, Reset, Unmount, server
<1>2. \A u \in Turns : \/ turns'[u] = turns[u] /\ reader'[u] = reader[u]
                       \/ turns'[u] \in {NewTurn, NoTurn}
  BY DEF Ask, Abort, Reset, Unmount, TypeOK
<1>3. ~NewTurn.final /\ ~NewTurn.error /\ ~NoTurn.final /\ ~NoTurn.error
  BY DEF NewTurn, NoTurn
<1> QED
  BY <1>1, <1>2, <1>3 DEF FinalInv

LEMMA InitFinal == Init => FinalInv
<1> SUFFICES ASSUME Init, NEW t \in Turns
             PROVE  ~turns[t].final /\ ~turns[t].error
  BY DEF FinalInv
<1> QED
  BY DEF Init, NoTurn

LEMMA FinalStep ==
  TypeOK /\ WireInv /\ TextInv /\ FinalInv /\ [Next]_vars => FinalInv'
<1> SUFFICES ASSUME TypeOK, WireInv, TextInv, FinalInv, [Next]_vars
             PROVE  FinalInv'
  OBVIOUS
<1>1. CASE UNCHANGED vars
  BY <1>1 DEF vars, FinalInv
<1>2. ASSUME NEW t \in Turns, FetchAnswered(t)
      PROVE  FinalInv'
  <2>1. /\ UNCHANGED <<turns, wire, handler, link>> /\ reader[t] = "fetch"
        /\ \A u \in Turns : u # t => reader'[u] = reader[u]
    BY <1>2 DEF FetchAnswered, server, hook, TypeOK
  <2> QED
    BY <2>1 DEF FinalInv
<1>3. CASE Next
  BY <1>2, <1>3, StepKinds, ServerFinal, ReadFinal, SettleFinal, UserFinal
<1> QED
  BY <1>1, <1>3

LEMMA EndsAreHonest == EndInv /\ FinalInv => TurnsEndHonestly
BY DEF EndInv, FinalInv, TurnsEndHonestly, NothingDroppedSilently,
   CancelledIsUnanswered, FinalIsTerminal

(* Whatever broke on the way, a finished turn shows an answer, an error or  *)
(* that it was cancelled, never the last together with another, and the     *)
(* first two together only where the connection broke behind the answer.    *)
THEOREM TurnsTell == Spec => []TurnsEndHonestly
BY InitTypeOK, NextTypeOK, InitComposer, ComposerStep, InitWire, WireStep,
   InitEnds, EndStep, InitText, TextStep, InitFinal, FinalStep, EndsAreHonest,
   PTL DEF Spec

-----------------------------------------------------------------------------
(* What an aborted turn shows.                                              *)

SilentStep ==
  \A t \in aborted : turns'[t].error /\ ~turns[t].error => reader[t] = "problem"

LEMMA AbortSilence == TypeOK /\ [Next]_vars => SilentStep
<1> SUFFICES ASSUME TypeOK, [Next]_vars, NEW t \in aborted,
                    turns'[t].error, ~turns[t].error
             PROVE  reader[t] = "problem"
  BY DEF SilentStep
<1>1. t \in Turns
  BY DEF TypeOK
<1>2. CASE UNCHANGED turns
  BY <1>2
<1>3. CASE Ask \/ Abort \/ Reset \/ Unmount
  <2>1. turns'[t] \in {turns[t], NewTurn, NoTurn}
    BY <1>1, <1>3 DEF Ask, Abort, Reset, Unmount, TypeOK
  <2>2. ~NewTurn.error /\ ~NoTurn.error
    BY DEF NewTurn, NoTurn
  <2> QED
    BY <2>1, <2>2
<1>4. ASSUME NEW u \in Turns, ReadFrame(u)
      PROVE  turns'[t] = turns[t]
  BY <1>1, <1>4 DEF ReadFrame, OnToken, OnFinal, OnError, Updated, TypeOK
<1>5. ASSUME NEW u \in Turns, SettleStep(u)
      PROVE  reader[t] = "problem"
  <2> PICK e \in BOOLEAN :
        Settle(u, e) /\ (e => reader[u] = "problem" \/ u \notin aborted)
    BY <1>5 DEF SettleStep
  <2>1. CASE t # u
    BY <1>1, <2>1 DEF Settle, Updated, TypeOK
  <2>2. CASE t = u
    <3>1. turns[t] \in TurnType
      BY <1>1 DEF TypeOK, TurnType
    <3>2. e
      BY <1>1, <2>2, <3>1 DEF Settle, Updated, SettledTurn, TypeOK, TurnType
    <3> QED
      BY <2>2, <3>2
  <2> QED
    BY <2>1, <2>2
<1>6. ASSUME NEW u \in Turns, ServerStep(u) \/ FetchAnswered(u)
      PROVE  UNCHANGED turns
  BY <1>6, ServerSends DEF FetchAnswered, hook
<1> QED
  BY <1>2, <1>3, <1>4, <1>5, <1>6, StepKinds DEF vars

(* Once aborted, a turn comes to show no error but that of a refusal whose  *)
(* body was being read.                                                     *)
THEOREM AbortIsSilent == Spec => AbortStaysSilent
<1>1. TypeOK /\ [Next]_vars =>
        [\A t \in aborted :
           turns'[t].error /\ ~turns[t].error => reader[t] = "problem"]_vars
  BY AbortSilence DEF SilentStep
<1> QED
  BY <1>1, InitTypeOK, NextTypeOK, PTL DEF Spec, AbortStaysSilent
=============================================================================
