\* A frame in three views, of which the agent listed two before it died.
CONSTANTS
    Scenes <- ViewScenes
    Runs <- OneTry
    Content <- OneBytes
    Held <- HeldFiles
    Malformed <- BadLines
    Step = 1
    MaxTransfers = 1
    FinalReads = 1
    LiveKept = 2
SPECIFICATION Spec
CHECK_DEADLOCK FALSE
INVARIANTS
    RowIsTheFile
