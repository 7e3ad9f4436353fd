SPECIFICATION Spec
CONSTANTS
    j1 = j1
    j2 = j2
    Jobs <- TwoJobs
    NoJob = NoJob
    FreshJobs <- OneJob
    Outcomes <- AnyOutcome
    MaxRetained = 2
    MaxPerPoll = 2
    MaxEvents = 5
    MaxInFlight = 2
INVARIANTS
    CaughtUpIsCurrent
    TypeOK
    NoSilentLoss
    CursorNotAhead
