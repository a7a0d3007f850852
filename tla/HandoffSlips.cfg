SPECIFICATION FairSlipSpec
CONSTANTS
    MaxAttempts = 2
    MaxCancels = 0
    MaxCrashes = 1
    MaxReprovisions = 0
    MaxFaults = 1
    Overlap = TRUE
    SlowAgent = TRUE
    LaunchGap = TRUE
    LateForget = TRUE
    Lanes = {"ours", "unwatched"}
INVARIANTS
    OnlySlipsLeaveUnwatched
PROPERTIES
    RunsEnd
    RenderedOnce
    VerdictStands
CHECK_DEADLOCK FALSE
