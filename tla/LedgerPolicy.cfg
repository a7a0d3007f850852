SPECIFICATION Spec
CONSTANTS
    NumFrames = 2
    ChunkSize = 1
    Node = {n1}
    Run = {r1, r2}
    MaxRetries = 1
    MaxInfraRetries = 1
    Failures = {"job", "sink", "signIn", "fatal"}
    MultiView = FALSE
    None = None
SYMMETRY Symmetry
INVARIANTS
    JobStateIsFresh
    FailedOnlyWhenSpent
PROPERTIES
    DeliveryKept
CHECK_DEADLOCK FALSE
