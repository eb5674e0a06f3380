SPECIFICATION FairSpec
CONSTANTS
    Threads = {t1, t2, t3}
    Principal = Principal
    Ambient = Ambient
    Free = Free
    NoClients = NoClients
    MaxResets = 2
INVARIANTS
    TypeOK
    FreshAfterReset
    RebuildOnlyAfterReset
    NoneOnlyUnderReset
    OwnIdentity
PROPERTIES
    EveryCallEnds
CHECK_DEADLOCK FALSE
