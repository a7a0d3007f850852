CONSTANTS
    Scenes <- AllScenes
    Runs <- TwoTries
    Content <- OwnBytes
    Held <- HeldFiles
    Malformed <- BadLines
    Step = 1
    MaxTransfers = 2
    FinalReads = 1
    LiveKept = 2
SPECIFICATION LiveSpec
CHECK_DEADLOCK FALSE
INVARIANTS
    TypeOK
    CleanPassHasAll
    RowIsTheFile
    NoSlotIdles
    DefinitiveRetiresLive
    FolderIsClean
PROPERTIES
    StoppedWritesNothing
    DrainEnds
