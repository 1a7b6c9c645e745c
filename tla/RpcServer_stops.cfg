SPECIFICATION FairSpec
CONSTANTS
    key = key
    tok = tok
    none = none
    plain = plain
    tokened = tokened
    Conns = {c1}
    Keys = {key}
    Tokens = {none, tok}
    NoToken = none
    Topics = {plain, tokened}
    Topic <- MCTopic
    Within <- MCWithin
    Publishers = {w1}
    Modes = {"run", "async_run"}
    MaxSubscribes = 2
    MaxPublishes = 1
INVARIANTS
    StopComplete
PROPERTIES
    ClosedForgotten
    StopReturns
CHECK_DEADLOCK FALSE
