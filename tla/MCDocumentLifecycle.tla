------------------------- MODULE MCDocumentLifecycle -------------------------
(***************************************************************************)
(* Small instances of DocumentLifecycle for TLC.  A content is named for    *)
(* the shape parsing finds in it.                                           *)
(***************************************************************************)
EXTENDS DocumentLifecycle

ShapeByName == [c \in Contents |-> c]

=============================================================================
