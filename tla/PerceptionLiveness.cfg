\* Calls that wait for each other's row locks, and for Docling's.
SPECIFICATION FairSpec
CONSTANTS
    Indexers = {w1, w2}
    Labs = {}
    Doclings = {k1}
    Runs = {r1, r2, r3, r4}
    NoRun = NoRun
    PageNos = {1, 2}
    TextPages = {1}
    Segmentations = {s1, s2}
    d1 = d1
    d2 = d2
    DoclingDocs = {d1}
    Covers <- MCCovers
    NoContent = NoContent
    Embedded = TRUE
    StartStates = {"missing", "perception_stale"}
INVARIANTS
    PromotedLinksCurrent
    PromotedContentMatches
PROPERTY
    EveryCallReturns
