SPECIFICATION CacheSpec
CONSTANTS
    Elements = {a, b, c, d}
    DefaultSize = 3
    SizeArgs <- MCSizeArgs
    MaxClock = 6
INVARIANTS
    WithinLimit
    OwnsWhatItHolds
PROPERTIES
    ImplementsLru
