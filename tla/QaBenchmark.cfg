\* Every command line; three questions on three chunks and three pages.
\* It stops when the benchmark has ended: not to end would break BenchmarkEnds.
CONSTANTS
    MaxChars = 6
    TargetChars = 4
    StructuralMaxChars = 6
    MaxCompositeChars = 8
    MaxIntroChars = 3
    MaxGroupBlocks = 3
    MinSiblings = 2
    MaxSiblings = 3
    MaxItems = 4
    Files = {"notice"}
    Questions <- MCQuestions
    Chunks <- MCChunks
    RetrievalLimit = 3
    JudgeTopK = 2
    RrfK = 60
    CandidateLimit = 2
    Nearness <- MCNearness
    Documents <- MCDocuments
    Asked <- MCAsked
SPECIFICATION QBFairSpec
INVARIANTS
    CorporaWhole
    ScoresAccount
    FusionFair
PROPERTY
    BenchmarkEnds
CHECK_DEADLOCK FALSE
