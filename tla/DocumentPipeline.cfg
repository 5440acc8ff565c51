\* A Lab, a discovery experiment and a step test beside each other.
CONSTANTS
    v1 = v1
    v2 = v2
    x = x
    y = y
    person = person
    place = place
    Labs = {l1}
    Experimenters = {x1}
    Testers = {t1}
    Versions = {v1, v2}
    Perceptions <- MCPerceptions
    Blank = {3}
    Detections <- MCDetections
    Manifests <- MCManifests
    Stored <- MCStored
    MaxRuns = 11
    TestWeight = 3
    MaxScope = 2
    None = None
SPECIFICATION FairSpec
INVARIANTS
    ChainWhole
    CountsAgree
    TraceWhole
    PageTellsOneChain
PROPERTY
    TestsEnd
