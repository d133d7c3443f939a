SPECIFICATION FairSpec
CONSTANTS
    Versions = {"v1","v2"}
    Chunks = 2
    ChunkErrs = 2
    Retries = 2
    Wrap = 4
    MaxId = 2
    MaxLosses = 3
    Endless = FALSE
PROPERTIES
    BootsVerified
    
    
    Obtained
