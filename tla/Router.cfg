SPECIFICATION Spec
CONSTANTS
    n1 = n1
    n2 = n2
    n3 = n3
    k1 = k1
    k2 = k2
    Names <- MCNames
    Functions = {f1, f2}
    Nobody = nobody
    FuncIds <- MCFuncIds
    MD5Hash32 <- Colliding
INVARIANTS
    TypeOK
    OneReply
PROPERTIES
    OwnFunction
