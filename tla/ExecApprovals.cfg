SPECIFICATION Spec
CONSTANTS
    None = None
    Pos = {p1}
    ExitId = {x1, x2}
    Users = {u1, u2}
    Lot = 1
    MaxOrders = 2
    AutoApprove = FALSE
    StopAuto = TRUE
    DeskEnabled = TRUE
    DeskLimited = FALSE
    MarginOnSell = FALSE
    CancelEntryOnExit = FALSE
    MaxCrashes = 0
INVARIANT OneLiveProposal
PROPERTY DecisionIsFinal
SYMMETRY RequestSymmetry
CHECK_DEADLOCK FALSE
