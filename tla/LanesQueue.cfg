CONSTANTS
    k1 = k1
    k2 = k2
    k3 = k3
    k4 = k4
    NodeOrder <- TwoNodes
    Queue <- MixedQueue
    Shared <- MixedShared
    Engine <- MixedEngine
    Ram <- MixedLight
    Vram <- MixedLight
    Endless <- MixedEndless
    Octane <- FirstNode
    Gpus = 2
    Seen <- OneBlind
    SlotsPerGpu = 1
    Cap = 4
    SlotTarget = 2
    Prefetch = 2
    MaxFails = 1
SPECIFICATION LiveSpec
INVARIANTS
    CardsAreNotShared
    TickSendsAll
PROPERTIES
    HeadIsSent
CHECK_DEADLOCK FALSE
