-------------------------- MODULE MCPipelineRevisions --------------------------
(* PipelineRevisions on small sets. *)
EXTENDS PipelineRevisions, TLC

Symmetric == Permutations(Savers) \cup Permutations(Activators) \cup Permutations(Compositions)
Created == {[n \in Numbers |-> n]}
AnyOrder == {f \in [Numbers -> Numbers] : \A m, n \in Numbers : f[m] = f[n] => m = n}
=============================================================================
