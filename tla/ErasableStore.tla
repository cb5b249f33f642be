---------------------------- MODULE ErasableStore ----------------------------
(***************************************************************************)
(* What uploads and erasures promise together, with one atomic step per     *)
(* effect: a document is absent, then live, then erased for good; vectors   *)
(* come and go only while there is a document; one receipt is given for an  *)
(* erasure, and only once it has happened.  DocumentLifecycle implements    *)
(* it with concurrent, failing, multi-step requests.                        *)
(***************************************************************************)
EXTENDS Naturals

CONSTANT Documents

VARIABLES
  state,     \* "absent", "live" or "erased"
  vectors,   \* how much of the document is searchable
  receipts   \* erasure receipts given

Init ==
  /\ state = [d \in Documents |-> "absent"]
  /\ vectors = [d \in Documents |-> "none"]
  /\ receipts = [d \in Documents |-> 0]

Create(d) ==
  /\ state[d] = "absent"
  /\ state' = [state EXCEPT ![d] = "live"]
  /\ UNCHANGED <<vectors, receipts>>

(* The erased state is included: an upload that committed its row before    *)
(* the erasure may write its vectors after it.                              *)
ChangeVectors(d) ==
  /\ state[d] # "absent"
  /\ \E v \in {"none", "part", "all"} : vectors' = [vectors EXCEPT ![d] = v]
  /\ UNCHANGED <<state, receipts>>

Erase(d) ==
  /\ state[d] = "live"
  /\ state' = [state EXCEPT ![d] = "erased"]
  /\ UNCHANGED <<vectors, receipts>>

GiveReceipt(d) ==
  /\ state[d] = "erased"
  /\ receipts[d] = 0
  /\ receipts' = [receipts EXCEPT ![d] = 1]
  /\ UNCHANGED <<state, vectors>>

Next == \E d \in Documents :
          Create(d) \/ ChangeVectors(d) \/ Erase(d) \/ GiveReceipt(d)

Spec == Init /\ [][Next]_<<state, vectors, receipts>>

=============================================================================
