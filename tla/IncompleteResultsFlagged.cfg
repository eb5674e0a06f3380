SPECIFICATION Spec
CONSTANTS
    Universe <- Items
    PageSize = 2
    MaxResults = 2
    Limits = {0, 1, 3}
    NoReply = NoReply
    Tools = {"query_azure_resource_graph", "get_cost_summary", "list_policy_compliance_states", "list_ai_foundry_models"}
INVARIANT IncompleteResultsFlagged
CHECK_DEADLOCK FALSE
