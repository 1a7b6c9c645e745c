SPECIFICATION FairSpec
CONSTANTS
    Users = {u1}
    Io = io
    Keys = {k1}
    NoKey = no_key
    TopBit = 2
    ReconnectCount = 9
    Endless = 9
    EnableReconnect = TRUE
    MaxFutures = 1
    MaxCallbacks = 1
    MaxConnects = 1
    MaxCloses = 0
    MaxDrops = 1
    MaxPublishes = 1
    MaxUnasked = 0
    MayDestroy = FALSE
INVARIANTS
    ReaderAlive
PROPERTIES
    Reconnects
    Resubscribes
    AllSettled
CHECK_DEADLOCK FALSE
