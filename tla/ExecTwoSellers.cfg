SPECIFICATION Spec
CONSTANTS
    None = None
    Pos = {p1}
    ExitId = {}
    Users = {u1}
    Lot = 1
    MaxOrders = 2
    AutoApprove = TRUE
    StopAuto = TRUE
    DeskEnabled = TRUE
    DeskLimited = FALSE
    MarginOnSell = FALSE
    CancelEntryOnExit = TRUE
    MaxCrashes = 0
INVARIANT OneExitAtATime
CHECK_DEADLOCK FALSE
