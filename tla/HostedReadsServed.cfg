SPECIFICATION Spec
CONSTANTS
    Universe <- Items
    PageSize = 2
    MaxResults = 2
    Limits = {0, 1, 3}
    NoReply = NoReply
    Tools = {"list_ai_foundry_agents", "list_aks_node_pools"}
INVARIANT HostedReadsServed
CHECK_DEADLOCK FALSE
