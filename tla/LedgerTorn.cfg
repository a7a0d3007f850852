SPECIFICATION TornSpec
CONSTANTS
    NumFrames = 3
    ChunkSize = 3
    Node = {n1, n2}
    Run = {r1, r2}
    MaxRetries = 0
    MaxInfraRetries = 1
    Failures = {"machine"}
    MultiView = FALSE
    None = None
SYMMETRY Symmetry
INVARIANTS
    CompleteIsDelivered
    EachFrameHasOneChunk
    OneLiveRunPerChunk
    CancelledIsQuiet
PROPERTIES
    FrameBudgetKept
CHECK_DEADLOCK FALSE
