SPECIFICATION FairSpec
CONSTANTS
    key = key
    tok = tok
    none = none
    plain = plain
    tokened = tokened
    Conns = {c1}
    Keys = {key}
    Tokens = {none, tok}
    NoToken = none
    Topics = {plain, tokened}
    Topic <- MCTopic
    Within <- MCWithin
    Publishers = {w1}
    Modes = {"async_run"}
    MaxSubscribes = 1
    MaxPublishes = 1
PROPERTIES
    StopEnds
CHECK_DEADLOCK FALSE
