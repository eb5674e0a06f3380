SPECIFICATION Spec
CONSTANTS
    Calls = {c1}
    Ids = {id1}
    NoId = NoId
    Tools = {"create_ai_foundry_evaluation"}
    Replicas = {p1}
    Configured = Configured
    Foreign = Foreign
    Project = Project
    Bodies = {b1, b2}
    Nothing = Nothing
INVARIANT EffectsAudited
CHECK_DEADLOCK FALSE
