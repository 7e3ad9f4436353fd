SPECIFICATION FairSpec
CONSTANTS
    j1 = j1
    j2 = j2
    r1 = r1
    r2 = r2
    s1 = s1
    s2 = s2
    Jobs <- TwoJobs
    Stems <- TwoStems
    stem <- OwnStems
    Runs <- TwoRuns
    NoRun = NoRun
    NoJob = NoJob
INVARIANTS
    TypeOK
    RegisteredIsLive
    LiveIsRegistered
PROPERTIES
    CleanupSparesRuns
    SweepSparesRuns
    CloseStopsRun
