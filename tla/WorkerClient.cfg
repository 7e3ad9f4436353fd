SPECIFICATION FairSpec
CONSTANTS
    MaxProgress = 2
    Heirs = TRUE
INVARIANTS
    TypeOK
    NoOrphan
PROPERTIES
    CallSpec
    CallEnds
