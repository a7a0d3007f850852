SPECIFICATION Spec
CONSTANTS
    MaxAttempts = 2
    MaxCancels = 0
    MaxCrashes = 1
    MaxReprovisions = 0
    MaxFaults = 0
    Overlap = FALSE
    SlowAgent = FALSE
    LaunchGap = FALSE
    LateForget = TRUE
    Lanes = {"free"}
INVARIANTS
    UnwatchedIsStopped
CHECK_DEADLOCK FALSE
