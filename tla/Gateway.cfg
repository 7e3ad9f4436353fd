SPECIFICATION FairSpec
CONSTANTS
    c1 = c1
    c2 = c2
    Callers <- TwoCallers
    MaxItems = 2
    MaxChars = 3
    NoAnswer = NoAnswer
    Failed = Failed
    Tags <- OneTag
    Numbers = {}
    Links = {}
    Blemishes = {"fence"}
    Sources <- SomeSources
    Outputs <- SomeOutputs
    Settings <- TwoSettings
    MaxRepairs = 1
    MaxGateways = 2
    NoText = NoText
INVARIANTS
    TypeOK
    OnlyValidTexts
    TornSourcesFail
PROPERTIES
    CallsEnd
\* The calls end and the gateway is closed.
CHECK_DEADLOCK FALSE
