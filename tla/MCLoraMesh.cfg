SPECIFICATION FairSpec
CONSTANTS
    QueueSize = 3
    CadRetry = 3
    StuckAfter = 1
    MaxCrcs = 2
INVARIANTS
    
    CadHasMessage
PROPERTIES
    Drains
