------------------------------- MODULE OnceCells -------------------------------
(***************************************************************************)
(* What shared collaborators promise: a cell is empty until it is filled,   *)
(* is filled once, in one step, with the part it is made of if it has one,  *)
(* and whoever asks is handed what is in it.  ColdStart implements it with  *)
(* threads that check, lock, check again and may fail to build.             *)
(***************************************************************************)
EXTENDS Naturals

CONSTANTS
  Cells,
  PartOf(_)   \* the cells that what fills this one is made of

VARIABLES
  value,    \* the number of what fills each cell, 0 when empty
  parts,    \* what each was made of, as pairs of a cell and its value then
  handed    \* pairs of a cell and what was handed out for it

Init ==
  /\ value = [c \in Cells |-> 0]
  /\ parts = [c \in Cells |-> {}]
  /\ handed = {}

Fill(c) ==
  /\ value[c] = 0
  /\ \A p \in PartOf(c) : value[p] # 0
  /\ value' = [value EXCEPT ![c] = value'[c]]
  /\ value'[c] \in Nat \ {0}
  /\ parts' = [parts EXCEPT ![c] = {<<p, value[p]>> : p \in PartOf(c)}]
  /\ UNCHANGED handed

Hand(c) ==
  /\ value[c] # 0
  /\ handed' = handed \cup {<<c, value[c]>>}
  /\ UNCHANGED <<value, parts>>

Next == \E c \in Cells : Fill(c) \/ Hand(c)

Spec == Init /\ [][Next]_<<value, parts, handed>>

=============================================================================
