-------------------------- MODULE MCDocumentReaders --------------------------
(* DocumentReaders for TLC.  A content is named for the shape parsing finds *)
(* in it, and one process serves every request.                             *)
EXTENDS DocumentReaders, TLC

ShapeByName == [c \in Contents |-> c]

OneProcess == [x \in Workers \cup Readers |-> CHOOSE p \in Processes : TRUE]

(* Readers are interchangeable in every property checked with symmetry.     *)
ReaderSymmetry == Permutations(Readers)

(* What readers can see: the outbox, the vectors and the history of the     *)
(* writers are read by no step that a reader or a property here depends on. *)
ReadersView == <<documents, sections, job, reader, cache, witnessed>>
=============================================================================
