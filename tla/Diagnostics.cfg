SPECIFICATION FairSpec
CONSTANTS
    Calls = {c1, c2}
    Diagnosing = {c1}
    Keys <- AllKeys
    Hooks = {h1, h2}
    MaxHooks = 2
    NoId = NoId
    NoEntry = NoEntry
    Nothing = Nothing
INVARIANTS
    TypeOK
    CountsMatchLog
    RowsCoverCalls
    HooksToldOnce
    EvidenceNamed
    LogTellsReply
PROPERTIES
    TelemetrySpec
    EveryCallAnswered
ACTION_CONSTRAINT OneConcern
CHECK_DEADLOCK FALSE
