SPECIFICATION WellUsedSpec
CONSTANTS
    i1 = i1
    i2 = i2
    o1 = o1
    InputVars <- MCInputVars
    OutputVars <- MCOutputVars
    InitialRequired = 2
    DefaultCacheSize = 2
    DefaultHits = 1
    RequiredArgs = {1}
    CacheArgs = {}
    HitsArgs = {}
    MemoryArgs = {5}
    LoadCounts = {0, 1}
    TrainFailures = FALSE
    MaxRequired = 4
    MaxHits = 1
    MaxSlots = 4
CHECK_DEADLOCK FALSE
INVARIANTS
    RoomForNext
    RowsAligned
    OneInTraining
    UsableNetworks
