SPECIFICATION Spec
CONSTANTS
    NumFrames = 2
    ChunkSize = 1
    Node = {n1}
    Run = {r1}
    MaxRetries = 1
    MaxInfraRetries = 1
    Failures = {"fatal"}
    MultiView = FALSE
    None = None
PROPERTIES
    FailedOutrightIsNotRevived
CHECK_DEADLOCK FALSE
