SPECIFICATION EngineSpec
CONSTANTS
    MaxWeight = 1
    RuleShare = 3
    InPatterns = {{1}, {2}}
    OutPatterns = {{1}, {2}}
    InLayout <- MCLayout
    OutLayout <- MCLayout
    Hits = {0, 1}
    Sizes = {0, 20}
    ObservationSize = 4
    VectorSize = 1
    DefaultTerms = 2
    Calls = {"variables", "terms", "enable", "hits", "learn", "listen", "auto", "memory", "erase", "load", "save"}
    MaxCalls = 3
    MaxUsed = 5
    MaxTerms = 3
    MaxVariables = 1
    HitsRange = 4
CHECK_DEADLOCK FALSE
INVARIANTS
    CountsCover
    LearnsStable
    RulesLive
PROPERTIES
    NoNagging
