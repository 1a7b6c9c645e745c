SPECIFICATION Spec
CONSTANTS
    Users = {u1}
    Io = io
    Keys = {}
    NoKey = no_key
    TopBit = 4
    ReconnectCount = 0
    Endless = 9
    EnableReconnect = FALSE
    MaxFutures = 1
    MaxCallbacks = 0
    MaxConnects = 1
    MaxCloses = 0
    MaxDrops = 1
    MaxPublishes = 0
    MaxUnasked = 0
    MayDestroy = FALSE
INVARIANTS
    OutboxServed
CHECK_DEADLOCK FALSE
