SPECIFICATION FrontSpec
CONSTANTS
    Names = {"a", "b"}
    Values = {1, 2}
    FllFiles <- Files
    MaxCalls = 5
CONSTRAINT StillExact
INVARIANT ReplayReproduces
CHECK_DEADLOCK FALSE
