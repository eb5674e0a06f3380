SPECIFICATION FairSpec
CONSTANTS
    Ids = {a1}
    Planners = {p1, p2}
    Callers = {c1, c2}
    Requests = {r1, r2}
    Free = Free
    NoPlan = NoPlan
    NoRequest = NoRequest
    Ttl = 1
    MaxClock = 2
INVARIANTS
    TypeOK
    AtMostOneGrant
    GrantHonoursPlan
    ExpiryIsFinal
    SpentOnlyByGrant
PROPERTY ImplementsReceipts
