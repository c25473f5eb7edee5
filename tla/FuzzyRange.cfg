SPECIFICATION TermsSpec
CONSTANTS
    MaxWeight = 1
    DEFAULT_NUM_TERMS = 2
    OverlapPart = 10
    ThresholdPart = 20
    MAX_HIT = 2
    MAX_CAP = 1
    MIN_CAP = 1
    Ranges <- MCRanges
    Widths = {20}
    Values <- MCValues
    ClientTerms <- MCClientTerms
    Calls = {"range"}
    MaxTerms = 4
    MaxCount = 3
    MaxCalls = 3
CHECK_DEADLOCK FALSE
INVARIANTS
    RangeCovered
