SPECIFICATION RouteSpec
CONSTANTS
    Self = 9
    Others = {1, 2, 3}
    MaxNodes = 5
    MaxHops = 1
    Messages = 2
    Flags = {TRUE}
INVARIANTS
    Compact
    
    EqualParentsTried
PROPERTIES
    NoDetour
    DeletesExpired
