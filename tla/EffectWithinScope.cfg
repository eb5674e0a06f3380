SPECIFICATION Spec
CONSTANTS
    Calls = {c1}
    Ids = {id1}
    NoId = NoId
    Tools = {"create_azure_resource", "delete_azure_resource"}
    Replicas = {p1}
    Configured = Configured
    Foreign = Foreign
    Project = Project
    Bodies = {b1}
    Nothing = Nothing
INVARIANT EffectWithinScope
CHECK_DEADLOCK FALSE
