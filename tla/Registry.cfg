SPECIFICATION FairSpec
CONSTANTS
    Servers = {s1, s2}
    Clients = {c1}
    Methods = {m1}
    Nobody = Nobody
    Root = Root
    MaxSessions = 3
    MaxPartitions = 1
    MaxFailures = 1
INVARIANTS
    TypeOK
    
    SameAddress
    AddressKept
PROPERTIES
    FunctionsVanish
CHECK_DEADLOCK FALSE
