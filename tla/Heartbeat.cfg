SPECIFICATION FairSpec
CONSTANTS
    Period = 5
    IdleTimeout = 15
    MaxDelay = 2
    MaxDisables = 1
INVARIANTS
    TypeOK
    KeptAlive
PROPERTIES
    SilentClosed
