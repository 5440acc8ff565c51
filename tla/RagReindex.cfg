\* What index_document says of a PDF that was asked about.
CONSTANTS
    Requests = {r1, r2}
    Attempts = {a1}
    Kinds = {"pdf"}
    Semantic = 1
    Sizes = {0, 2}
    TopK = 2
    MaxVersions = 2
    MaxGenerations = 2
SPECIFICATION Spec
INVARIANTS
    StaysIndexed
CHECK_DEADLOCK FALSE
