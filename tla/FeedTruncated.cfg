SPECIFICATION Spec
CONSTANTS
    j1 = j1
    j2 = j2
    Jobs <- OneJob
    NoJob = NoJob
    FreshJobs <- NoJobs
    Outcomes <- Succeeding
    MaxRetained = 4
    MaxPerPoll = 2
    MaxEvents = 6
    MaxInFlight = 1
INVARIANTS
    NoSilentLoss
