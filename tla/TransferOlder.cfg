\* A live clip is retried after a newer one has landed.
CONSTANTS
    Scenes <- ClipScenes
    Runs <- OneTry
    Content <- OneBytes
    Held <- HeldFiles
    Malformed <- BadLines
    Step = 1
    MaxTransfers = 1
    FinalReads = 1
    LiveKept = 2
SPECIFICATION Spec
CHECK_DEADLOCK FALSE
PROPERTIES
    LiveNeverGoesBack
