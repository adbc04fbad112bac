SPECIFICATION Spec
CONSTANTS
    None = None
    Pos = {p1}
    ExitId = {}
    Users = {u1}
    Lot = 2
    MaxOrders = 2
    AutoApprove = TRUE
    StopAuto = TRUE
    DeskEnabled = TRUE
    DeskLimited = FALSE
    MarginOnSell = FALSE
    CancelEntryOnExit = TRUE
    MaxCrashes = 0
PROPERTY ExitSellsLedgerQty
CHECK_DEADLOCK FALSE
