SPECIFICATION EndingSpec
CONSTANTS
    Requests = {r1}
    MaxCalls = 3
    Timeout = 2
INVARIANTS
    TypeOK
    NoOrphanWorker
    TimeoutMeansLate
PROPERTIES
    CallReturns
CHECK_DEADLOCK FALSE
