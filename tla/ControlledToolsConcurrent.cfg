SPECIFICATION Spec
CONSTANTS
    Calls = {c1, c2}
    Ids = {id1}
    NoId = NoId
    Tools = {"upload_blob_content", "create_azure_resource", "create_ai_foundry_agent", "create_ai_foundry_evaluation", "delete_ai_foundry_project_connection"}
    Replicas = {p1, p2}
    Configured = Configured
    Foreign = Foreign
    Project = Project
    Bodies = {b1}
    Nothing = Nothing
SYMMETRY Interchangeable
INVARIANTS
    OneEffectPerReceipt
    SpentByOneCall
PROPERTIES
    NoEffectAfterReply
CHECK_DEADLOCK FALSE
