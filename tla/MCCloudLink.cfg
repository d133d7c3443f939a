SPECIFICATION LinkSpec
CONSTANTS
    MaxSessions = 2
    Addrs = {public, private}
    NoAddr = NoAddr
    MaxBuffered = 0
    SendSlots = 1
    UdpRetryLimit = 2
    DtlsRetryLimit = 1
INVARIANTS
    StopsWhatWasClosed
    SettledWhenReady
    NoOrphanRequest
PROPERTIES
    PdpSpec
    CloudSpec
