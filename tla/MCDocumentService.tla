-------------------------- MODULE MCDocumentService --------------------------
(***************************************************************************)
(* Small instances of DocumentService for TLC.  A content is named for the  *)
(* shape parsing finds in it.                                               *)
(***************************************************************************)
EXTENDS DocumentService

ShapeByName == [c \in Contents |-> c]

=============================================================================
