SPECIFICATION FairSpec
CONSTANTS
    Parents = {p}
    Reports = 1
    Segments = 2
    QueueSize = 2
    SyncRetries = 0
    MaxRespErrors = 2
    FwdRetries = 0
    CloudRetries = 2
    MaxId = 2
    MaxAir = 1
    MaxRestarts = 1
    OtherChildren = TRUE
    Responses = {"ok","error"}
    SendFails = TRUE

    
    
PROPERTIES
    Served
CHECK_DEADLOCK FALSE
