SPECIFICATION AnnSpec
CONSTANTS
    i1 = i1
    i2 = i2
    o1 = o1
    InputVars <- MCOneInput
    OutputVars <- MCOutputVars
    InitialRequired = 1
    DefaultCacheSize = 2
    DefaultHits = 0
    RequiredArgs = {}
    CacheArgs = {65537}
    HitsArgs = {1}
    MemoryArgs = {1}
    LoadCounts = {0, 1}
    TrainFailures = TRUE
    MaxRequired = 2
    MaxHits = 1
    MaxSlots = 2
CHECK_DEADLOCK FALSE
INVARIANTS
    NothingDangles
    BuiltForLayout
    CacheBounded
    StableEnough
