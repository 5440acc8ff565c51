\* A text and a PDF document, asked by two requests and a campaign.
\* It may stop when all have ended: a wait without end would break RequestsEnd.
CONSTANTS
    Requests = {r1, r2}
    Attempts = {a1}
    Kinds = {"txt", "pdf"}
    Semantic = 1
    Sizes = {0, 2}
    TopK = 2
    MaxVersions = 2
    MaxGenerations = 2
SPECIFICATION FairSpec
INVARIANTS
    IndexWhole
    AnswersFromIndex
PROPERTY
    RequestsEnd
CHECK_DEADLOCK FALSE
