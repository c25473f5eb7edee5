CONSTANTS
    MayFail = FALSE
    QuietClose = TRUE
    MaxPackets = 3
    MaxErases = 2
SPECIFICATION FairSpec
INVARIANTS NeverStuck ClosedWithoutThread ErasedBefore
PROPERTIES ImplementsServer PacketsServed OutputsSent
CHECK_DEADLOCK FALSE
