SPECIFICATION FairSpec
CONSTANTS
    x1 = x1
    x2 = x2
    c1 = c1
    c2 = c2
    Translators <- Attempts
    Callers <- TwoCallers
    NoCaller = NoCaller
    MaxThreads = 3
    MaxTurns = 2
    MaxContext = 1
    Overlap = FALSE
INVARIANTS
    TypeOK
    SavedIsPrimed
    TurnsArePrimed
    OneTurnPerThread
    CountedTurnsBounded
PROPERTIES
    GenerationGrows
    CallsReturn
\* Attempts end, and with them the calls.
CHECK_DEADLOCK FALSE
