SPECIFICATION FairSpec
CONSTANTS
    i1 = i1
    b1 = b1
    b2 = b2
    b3 = b3
    small = small
    large = large
    huge = huge
    None = None
    LaneOf <- Lanes
    ModelOf <- Models
    PriorityOf <- SamePriority
    Size <- Sizes
    Budget = 3
    Job = {b2}
    Model = {small}
    MaxRetries = 1
    AutoInstall = TRUE
    Present = {}
    Awaited = {}
    Embeds = {small}
    Unused = {}
    MaxKills = 1
    MaxRemovals = 0
PROPERTIES
    ApprovedModelArrives
