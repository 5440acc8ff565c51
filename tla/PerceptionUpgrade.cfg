\* A version that has one row per page: an older reader's, or complete.
SPECIFICATION Spec
CONSTANTS
    Indexers = {w1, w2}
    Labs = {lab1}
    Doclings = {k1, k2}
    Runs = {r1, r2, r3, r4}
    NoRun = NoRun
    PageNos = {1, 2}
    TextPages = {1}
    Segmentations = {s1, s2}
    d1 = d1
    d2 = d2
    DoclingDocs = {d1, d2}
    Covers <- MCCovers
    NoContent = NoContent
    Embedded = TRUE
    StartStates = {"page_metadata_missing", "perception_stale", "complete"}
SYMMETRY Symmetry
INVARIANTS
    TypeOK
    PromotedTogether
    UnitsFollowPromotion
PROPERTY
    CompleteForGood
