-------------------------- MODULE MCPerceptionStore --------------------------
(* Instances of PerceptionStore for TLC. *)
EXTENDS PerceptionStore, TLC

CONSTANTS d1, d2

\* d1 has blocks on the first page only, d2 on every page.
MCCovers == [d \in DoclingDocs |-> IF d = d1 THEN {1} ELSE PageNos]

\* Rows, runs and indexers are interchangeable.
Symmetry == Permutations(Runs) \cup Permutations(Indexers)
=============================================================================
