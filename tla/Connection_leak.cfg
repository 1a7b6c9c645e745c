SPECIFICATION FairSpec
CONSTANTS
    Timeout = TRUE
    Kinds = {"request"}
    MaxFrames = 1
    MaxPublishes = 0
    MaxDrops = 1
PROPERTIES
    Reaped
CHECK_DEADLOCK FALSE
