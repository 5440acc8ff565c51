\* Concurrent activations and creations of revisions, beside an execution.
SPECIFICATION Spec
CONSTANTS
    Editors = {e1, e2}
    Activators = {a1, a2}
    Readers = {r1}
    Numbers = {1, 2, 3}
    Settings = {model}
    Values = {v1, v2}
    InitialValue = v1
    Initial <- MCInitial
    Kept = Kept
    Reactivation = FALSE
SYMMETRY Symmetry
INVARIANTS
    TypeOK
    AtMostOneActive
    AttemptsReproducible
