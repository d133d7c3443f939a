SPECIFICATION Spec
CONSTANTS
    MaxSessions = 2
    Addrs = {public, private}
    NoAddr = NoAddr
    MaxBuffered = 1
INVARIANTS
    TypeOK
    VacantIsClean
    ServedEntryStays
SYMMETRY AddrSymmetry
