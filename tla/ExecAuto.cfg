SPECIFICATION Spec
CONSTANTS
    None = None
    Pos = {p1}
    ExitId = {}
    Users = {u1}
    Lot = 2
    MaxOrders = 2
    AutoApprove = TRUE
    StopAuto = TRUE
    DeskEnabled = TRUE
    DeskLimited = TRUE
    MarginOnSell = FALSE
    CancelEntryOnExit = TRUE
    MaxCrashes = 0
INVARIANTS LedgerBackedByBroker ClaimIsExclusive ConfirmedQtyIsSeen HeldBackForReason
PROPERTIES ExitSellsWholeEntry LifeSpec
CHECK_DEADLOCK FALSE
