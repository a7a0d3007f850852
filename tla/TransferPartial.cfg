\* A transfer breaks off, and its file is gone when it is retried.
CONSTANTS
    Scenes <- PartialScenes
    Runs <- OneTry
    Content <- OneBytes
    Held <- HeldFiles
    Malformed <- BadLines
    Step = 1
    MaxTransfers = 1
    FinalReads = 1
    LiveKept = 2
SPECIFICATION Spec
CHECK_DEADLOCK FALSE
INVARIANTS
    NothingLeftBehind
