SPECIFICATION FilesSpec
CONSTANTS
    CacheLimit = 3
    MaxIds = 6
    MaxSaves = 3
INVARIANTS
    NeverMixed
    Durable
