SPECIFICATION LearnSpec
CONSTANTS
    MaxWeight = 2
    RuleShare = 3
    InPatterns = {{1}, {2}}
    OutPatterns = {{1}, {2}, {3}}
    Layouts <- MCLayouts
    MaxTerms = 3
    MaxInputs = 2
    CacheSizes = {1}
CHECK_DEADLOCK FALSE
INVARIANTS
    NoFreedGroup
    CoveredOnce
    BlockOwned
    RulesSpeakForAll
    GroupsApart
    ReloadKeeps
PROPERTIES
    LearningShows
    EvidenceKept
