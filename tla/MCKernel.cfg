CONSTANTS
    Capacity = 4
    PidLimit = 5
    Main = Main
    None = None
    PageSize = 8
    RangeCapacity = 2
    WordMax = 63
    Alignment = 2
    BlockHeader = 3
    HhdmOffset = 100
    MemoryMaps <- MCMemoryMaps
    HeapPages = 3
    Sizes = {1, 2, 5, 63}
    MaxCalls = 6
    RingCount = 4
    MaxFrames = 6
    Attempts = 2
    Starts <- MCStarts
    Modes <- MCModes
    Delays = {1, 60}
    MaxUpdates = 2
SPECIFICATION MCSpec
CHECK_DEADLOCK FALSE
INVARIANTS
    YieldTakesEffect
    YieldReachesDispatcher
    StacksNotShared
    MemoryConsistent
    FramesInOrder
    TimeWasShown
PROPERTIES
    SpawnKeepsLiveStacks
    ProcessSystemTasksKeepRunning
    RingsMakeProgress
