CONSTANTS
    MayFail = TRUE
    SendFails = TRUE
    QuietClose = FALSE
SPECIFICATION NodeSpec
INVARIANTS NeverStuck ClosedWithoutThread EraseNotForgotten
CHECK_DEADLOCK FALSE
