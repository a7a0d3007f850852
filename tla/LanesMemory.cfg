CONSTANTS
    k1 = k1
    k2 = k2
    k3 = k3
    k4 = k4
    NodeOrder <- OneNode
    Queue <- LaneQueue
    Shared <- NoChunks
    Engine <- LaneEngine
    Ram <- LaneRam
    Vram <- LaneVram
    Endless <- AllLanes
    Octane <- NoNodes
    Gpus = 2
    Seen <- BothCards
    SlotsPerGpu = 2
    Cap = 4
    SlotTarget = 1
    Prefetch = 2
    MaxFails = 1
SYMMETRY Alike
SPECIFICATION Spec
INVARIANTS
    TypeOK
    SentExclusiveStarts
    NotWalkedDown
CHECK_DEADLOCK FALSE
