SPECIFICATION FairSpec
CONSTANTS
    Requests = {r1}
    MaxCalls = 1
    Timeout = 2
PROPERTIES
    DeadlineEnforced
CHECK_DEADLOCK FALSE
