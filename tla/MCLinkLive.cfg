SPECIFICATION FairLinkSpec
CONSTANTS
    MaxSessions = 1
    Addrs = {public}
    NoAddr = NoAddr
    MaxBuffered = 1
    SendSlots = 1
    UdpRetryLimit = 1
    DtlsRetryLimit = 1
PROPERTIES
    LinkRecovers
