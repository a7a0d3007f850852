SPECIFICATION WorkSpec
CONSTANTS
    NumFrames = 2
    ChunkSize = 2
    Node = {n1, n2}
    Run = {r1, r2}
    MaxRetries = 1
    MaxInfraRetries = 1
    Failures = {"job", "setup", "localRead", "signIn", "fatal"}
    MultiView = TRUE
    None = None
PROPERTIES
    JobEnds
    LandedChunksSettle
CHECK_DEADLOCK FALSE
