SPECIFICATION TornSpec
CONSTANTS
    NumFrames = 2
    ChunkSize = 2
    Node = {n1}
    Run = {r1}
    MaxRetries = 1
    MaxInfraRetries = 1
    Failures = {"machine"}
    MultiView = FALSE
    None = None
INVARIANTS
    FailedOnlyWhenSpent
CHECK_DEADLOCK FALSE
