SPECIFICATION Spec
CONSTANTS
    key = key
    tok = tok
    none = none
    plain = plain
    tokened = tokened
    Conns = {c1, c2}
    Keys = {key}
    Tokens = {none, tok}
    NoToken = none
    Topics = {plain, tokened}
    Topic <- MCTopic
    Within <- MCWithin
    Publishers = {w1}
    Modes = {"run", "async_run"}
    MaxSubscribes = 2
    MaxPublishes = 1
SYMMETRY MCSymmetry
INVARIANTS
    TypeOK
    Accounted
    PublishReaches
    TokensUsed
CHECK_DEADLOCK FALSE
