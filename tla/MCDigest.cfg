SPECIFICATION FairSpec
CONSTANTS
    Users = {1}
    Shows = {1, 2}
    Connections <- MCConnections
    MaxAttempts = 2
    Limit = 1
    News <- MCNews
    MaxEp = 2
    MaxRev = 4
    MaxEvents = 2
INVARIANTS
    DigestTypeOK
    
    OneInAWeek
    ToldOnce
PROPERTIES
    RowIsSettled
