\* Two editors and one step test, two of them in all, on two nodes that two
\* bindings can serve; the revision may be activated at any time.
CONSTANTS
    n1 = n1
    n2 = n2
    k1 = k1
    c0 = c0
    c1 = c1
    s1 = s1
    s2 = s2
    Bindings = {1, 2}
    Nodes = {n1, n2}
    Capabilities = {k1}
    Configurations = {c0, c1}
    Resources = {s1, s2}
    Editors = {e1, e2}
    Testers = {t1}
    Testable = {k1}
    CapabilityOf <- MCCapabilityOf
    Provides <- MCProvides
    Accepts <- MCAccepts
    EnabledNodes = {n1}
    EnabledBindings = {1, 2}
    AvailableVersions = {1, 2}
    UnavailableResources = {s2}
    Backfilled <- MCBackfilled
    MaxEdits = 2
    NoNode = NoNode
    NoLink = NoLink
    NoRow = NoRow
    NoResource = NoResource
SPECIFICATION FairSpec
INVARIANTS
    StaysValid
    AuditExplains
    StepsTraceable
PROPERTY
    EditsEnd
