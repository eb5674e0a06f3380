SPECIFICATION FairSpec
CONSTANTS
    Universe <- Items
    PageSize = 2
    MaxResults = 2
    Limits = {0, 1, 3}
    NoReply = NoReply
    Tools <- AllReaders
INVARIANTS
    TypeOK
    
    AzureReadsAudited
PROPERTIES
    NoRepeats
    EveryWalkEnds
CHECK_DEADLOCK FALSE
