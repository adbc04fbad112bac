SPECIFICATION Spec
CONSTANTS
    i1 = i1
    b1 = b1
    b2 = b2
    b3 = b3
    small = small
    large = large
    huge = huge
    None = None
    LaneOf <- Lanes
    ModelOf <- Models
    PriorityOf <- SamePriority
    Size <- Sizes
    Budget = 3
    Job = {i1, b1, b2}
    Model = {small, large}
    MaxRetries = 1
    AutoInstall = FALSE
    Present = {}
    Awaited = {i1}
    Embeds = {}
    Unused = {}
    MaxKills = 0
    MaxRemovals = 0
PROPERTIES
    OldJobFirst
