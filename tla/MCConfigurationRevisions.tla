----------------------- MODULE MCConfigurationRevisions -----------------------
(* Instances of ConfigurationRevisions for TLC. *)
EXTENDS ConfigurationRevisions, TLC

CONSTANT InitialValue

MCInitial == [s \in Settings |-> InitialValue]

\* Callers are interchangeable.
Symmetry == Permutations(Editors) \cup Permutations(Activators)
=============================================================================
