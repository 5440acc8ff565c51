\* One campaign, of one or two revisions in either order, run twice by two
\* requests that may overlap, while the suite is edited and the question may
\* have been asked by vector retrieval before; one process may die.
CONSTANTS
    Questions = {q1}
    Campaigns = {c1}
    Revisions = {v1, v2}
    Runners = {r1, r2}
    Askers = {p1}
    MaxPosition = 1
    MaxRepetitions = 1
    MaxAttempts = 5
    MaxRuns = 2
    MaxEvidence = 1
    MaxCrashes = 1
    NoCampaign = NoCampaign
    NoRevision = NoRevision
    NoQuestion = NoQuestion
SPECIFICATION FairSpec
INVARIANTS
    TypeOK
    NumbersDense
    OpenAttemptsOwned
    ReportAccounts
    SettledCampaigns
PROPERTY
    RunsEnd
