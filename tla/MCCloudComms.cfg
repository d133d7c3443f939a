SPECIFICATION FairSpec
CONSTANTS
    SendSlots = 2
    UdpRetryLimit = 2
    DtlsRetryLimit = 2
    MaxSession = 1
INVARIANTS
    TypeOK
    SlotsMatchQueue
    SendNeedsSession
PROPERTIES
    ReadyNeedsHandshake
    Reconnects
