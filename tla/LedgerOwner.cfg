SPECIFICATION Spec
CONSTANTS
    NumFrames = 2
    ChunkSize = 2
    Node = {n1}
    Run = {r1, r2}
    MaxRetries = 1
    MaxInfraRetries = 1
    Failures = {"machine"}
    MultiView = TRUE
    None = None
PROPERTIES
    OnlyOwnerMarks
CHECK_DEADLOCK FALSE
