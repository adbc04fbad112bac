SPECIFICATION Spec
CONSTANTS
    i1 = i1
    b1 = b1
    b2 = b2
    b3 = b3
    small = small
    large = large
    huge = huge
    None = None
    LaneOf <- Lanes
    ModelOf <- Models
    PriorityOf <- SamePriority
    Size <- Sizes
    Budget = 3
    Job = {b2, b3}
    Model = {small, huge}
    MaxRetries = 1
    AutoInstall = TRUE
    Present = {}
    Awaited = {b3}
    Embeds = {small}
    Unused = {small}
    MaxKills = 1
    MaxRemovals = 1
INVARIANTS
    UsageAtMostOnce
    RunningHasLane
PROPERTIES
    RefusalStands
    PromiseKept
