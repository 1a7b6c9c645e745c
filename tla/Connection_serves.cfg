SPECIFICATION FairSpec
CONSTANTS
    Timeout = TRUE
    Kinds = {"request", "subscribe", "heartbeat", "oversized", "alien"}
    MaxFrames = 2
    MaxPublishes = 2
    MaxDrops = 1
INVARIANTS
    TypeOK
    OneWrite
    AnswersMatch
    Watched
PROPERTIES
    PromiseKept
    AllAnswered
CHECK_DEADLOCK FALSE
