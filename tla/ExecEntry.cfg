SPECIFICATION Spec
CONSTANTS
    None = None
    Pos = {p1}
    ExitId = {x1}
    Users = {u1, u2}
    Lot = 4
    MaxOrders = 1
    AutoApprove = FALSE
    StopAuto = FALSE
    DeskEnabled = FALSE
    DeskLimited = FALSE
    MarginOnSell = TRUE
    CancelEntryOnExit = FALSE
    MaxCrashes = 1
INVARIANT TypeOK
PROPERTY DecisionIsFinal
SYMMETRY RequestSymmetry
CHECK_DEADLOCK FALSE
