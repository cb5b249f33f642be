------------------------------ MODULE MCColdStart ------------------------------
(* A small instance of ColdStart for TLC: two keys of one owner, one of     *)
(* another.                                                                 *)
EXTENDS ColdStart

OwnerByKey == [k \in Keys |-> IF k = "other" THEN "t2" ELSE "t1"]
=============================================================================
