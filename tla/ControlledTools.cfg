SPECIFICATION FairSpec
CONSTANTS
    Calls = {c1}
    Ids = {id1}
    NoId = NoId
    Tools <- AllTools
    Replicas = {p1}
    Configured = Configured
    Foreign = Foreign
    Project = Project
    Bodies = {b1, b2}
    Nothing = Nothing
INVARIANTS
    TypeOK
    EffectAuthorised
    ReplyTruthful
    SpendingAudited
PROPERTIES
    EveryCallAnswered
CHECK_DEADLOCK FALSE
