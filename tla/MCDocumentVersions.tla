-------------------------- MODULE MCDocumentVersions --------------------------
(* Instances of DocumentVersions for TLC. *)
EXTENDS DocumentVersions, TLC

\* Rows and callers are interchangeable.
Symmetry == Permutations(Ids) \cup Permutations(Stores) \cup Permutations(Indexers)
=============================================================================
