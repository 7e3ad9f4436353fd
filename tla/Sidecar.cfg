SPECIFICATION FairSpec
CONSTANTS
    j1 = j1
    j2 = j2
    h1 = h1
    h2 = h2
    h3 = h3
    Jobs <- TwoJobs
    Handles <- ThreeHandles
    NoHandle = NoHandle
    NoJob = NoJob
    DuplicateStarts = FALSE
INVARIANTS
    TypeOK
    LiveRunsRegistered
    OnlyDroppedRunsLinger
PROPERTIES
    CancelHonoured
    RunsEnd
