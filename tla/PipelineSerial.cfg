\* Saves one after the other, beside two activations, whatever the order of the keys.
SPECIFICATION Spec
CONSTANTS
    Savers = {s1, s2, s3}
    Activators = {a1, a2}
    Testers = {}
    Views = {}
    Numbers = {1, 2, 3}
    Compositions = {c1, c2}
    Reactivation = FALSE
    OneAtATime = TRUE
    Seed = seed
    Orders <- AnyOrder
SYMMETRY Symmetric
INVARIANTS
    OneActive
    HashMatches
CHECK_DEADLOCK FALSE
