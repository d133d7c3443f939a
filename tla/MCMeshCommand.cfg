SPECIFICATION FairSpec
CONSTANTS
    Commands = {"mcureset", "config"}
    Retries = 3
    MaxId = 3
    MaxLosses = 5
    Endless = FALSE

    
PROPERTIES
    
    Obtained
