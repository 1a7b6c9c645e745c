SPECIFICATION Spec
CONSTANTS
    Users = {u1, u2}
    Io = io
    Keys = {}
    NoKey = no_key
    TopBit = 4
    ReconnectCount = 1
    Endless = 9
    EnableReconnect = FALSE
    MaxFutures = 2
    MaxCallbacks = 1
    MaxConnects = 1
    MaxCloses = 1
    MaxDrops = 1
    MaxPublishes = 0
    MaxUnasked = 1
    MayDestroy = TRUE
SYMMETRY Symmetry
INVARIANTS
    TypeOK
    NoAbort
    SingleReader
    CallbackOnce
    FutureOnce
PROPERTIES
    OneWrite
    OutboxAlive
    CallsRefined
    Untouched
CHECK_DEADLOCK FALSE
