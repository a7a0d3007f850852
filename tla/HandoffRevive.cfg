SPECIFICATION Spec
CONSTANTS
    MaxAttempts = 2
    MaxCancels = 1
    MaxCrashes = 0
    MaxReprovisions = 0
    MaxFaults = 0
    Overlap = TRUE
    SlowAgent = FALSE
    LaunchGap = FALSE
    LateForget = FALSE
    Lanes = {"free"}
PROPERTIES
    KillsSpareSuccessors
CHECK_DEADLOCK FALSE
