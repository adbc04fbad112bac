SPECIFICATION FairSpec
CONSTANTS
    None = None
    Pos = {p1}
    ExitId = {}
    Users = {u1}
    Lot = 1
    MaxOrders = 3
    AutoApprove = TRUE
    StopAuto = TRUE
    DeskEnabled = TRUE
    DeskLimited = FALSE
    MarginOnSell = FALSE
    CancelEntryOnExit = TRUE
    MaxCrashes = 0
PROPERTIES ClaimResolved ApprovalAnswered
CHECK_DEADLOCK FALSE
