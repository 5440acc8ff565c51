\* Two saves, an activation, a step test and the production view at once.
SPECIFICATION Spec
CONSTANTS
    Savers = {s1, s2}
    Activators = {a1}
    Testers = {t1}
    Views = {v1}
    Numbers = {1, 2, 3}
    Compositions = {c1, c2}
    Reactivation = FALSE
    OneAtATime = FALSE
    Seed = seed
    Orders <- Created
SYMMETRY Symmetric
INVARIANTS
    TypeOK
    OneComposition
    StepsKeepLinks
CHECK_DEADLOCK FALSE
