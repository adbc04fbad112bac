SPECIFICATION Spec
CONSTANTS
    None = None
    Pos = {p1}
    ExitId = {x1}
    Users = {u1}
    Lot = 2
    MaxOrders = 2
    AutoApprove = FALSE
    StopAuto = TRUE
    DeskEnabled = FALSE
    DeskLimited = FALSE
    MarginOnSell = FALSE
    CancelEntryOnExit = TRUE
    MaxCrashes = 0
PROPERTY DecisionIsFinal
CHECK_DEADLOCK FALSE
