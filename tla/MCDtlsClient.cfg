SPECIFICATION FairSpec
CONSTANTS
    RetryLimit = 2
    Cookies = TRUE
    Faults = {"lose", "copy", "swap", "repeat", "alert", "close", "data", "full", "late", "reconnect"}
    MaxFaults = 2
    MaxConnects = 10
    MaxSeq = 3
    MaxAir = 5
INVARIANTS
    Agreement
    FreshSequence
    SameTranscript
PROPERTIES
    AsCloudCommsAssumes
    Reconnects
