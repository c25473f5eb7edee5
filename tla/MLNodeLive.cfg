CONSTANTS
    MayFail = FALSE
    SendFails = FALSE
    QuietClose = TRUE
SPECIFICATION NodeFairSpec
PROPERTIES NoStarvation AnswersDelivered CloseTerminates
CHECK_DEADLOCK FALSE
