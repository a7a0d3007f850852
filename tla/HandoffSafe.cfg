SPECIFICATION FairSlipSpec
CONSTANTS
    MaxAttempts = 2
    MaxCancels = 1
    MaxCrashes = 1
    MaxReprovisions = 1
    MaxFaults = 0
    Overlap = FALSE
    SlowAgent = TRUE
    LaunchGap = TRUE
    LateForget = TRUE
    Lanes = {"free"}
PROPERTIES
    KillsSpareSuccessors
    UnwatchedEnds
CHECK_DEADLOCK FALSE
