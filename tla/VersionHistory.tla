---------------------------- MODULE VersionHistory ----------------------------
(***************************************************************************)
(* What the versions of a document promise to their readers: a history     *)
(* that only grows, in which no content appears twice and every number     *)
(* names one content, and of which the last entry alone is current.        *)
(***************************************************************************)
EXTENDS Naturals

CONSTANTS Documents, Hashes, Numbers

VARIABLES
    stored,     \* the numbered contents of each document
    current     \* the numbers that are marked current

vars == <<stored, current>>

Init ==
    /\ stored = [d \in Documents |-> {}]
    /\ current = [d \in Documents |-> {}]

Append(d, h) ==
    /\ \A v \in stored[d] : v[2] # h
    /\ \E n \in Numbers :
         /\ \A v \in stored[d] : v[1] < n
         /\ stored' = [stored EXCEPT ![d] = @ \cup {<<n, h>>}]
         /\ current' = [current EXCEPT ![d] = {n}]

Next == \E d \in Documents, h \in Hashes : Append(d, h)

Spec == Init /\ [][Next]_vars
=============================================================================
