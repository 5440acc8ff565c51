------------------------ MODULE MCPipelineComposition ------------------------
(***************************************************************************)
(* TLC instances of PipelineComposition.                                   *)
(***************************************************************************)
EXTENDS PipelineComposition, TLC

CONSTANTS n1, n2, k1, c0, c1, s1, s2

\* Both nodes ask for the same capability, which both bindings provide; the
\* template may have disabled the second node.
MCCapabilityOf == [n \in Nodes |-> k1]
MCProvides == [b \in Bindings |-> {k1}]
MCAccepts == [b \in Bindings |-> IF b = 1 THEN Resources ELSE {s1}]

\* Links the migration may leave: every link is enabled and selected.
Row(selected) == [enabled |-> TRUE, selected |-> selected, configuration |-> c0]
MCBackfilled ==
    {[p \in Pairs |-> IF p[2] \in DOMAIN f /\ f[p[2]] = p[1] THEN Row(TRUE)
                      ELSE IF p \in spare THEN Row(FALSE) ELSE NoLink] :
        f \in {(n1 :> 1) @@ (n2 :> 1), (n1 :> 2) @@ (n2 :> 1)},
        spare \in {{<<1, n1>>, <<2, n1>>}}}

=============================================================================
