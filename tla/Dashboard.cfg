SPECIFICATION MCSpec
CHECK_DEADLOCK FALSE
CONSTANTS
    LastTime = 3
    DefCount = 2
    MinZoom = 3
    MarkTimes = {2}
    PointedSlots = {1}
    MaxVisits = 3
    MaxTicks = 2
    CardSeq <- TwoCards
    WithLink = {"b"}
    MinW = 3
    MaxW = 4
    MinH = 2
    MaxPx = 2
    StoredOrders <- OldOrders
    Order = {"o1"}
    NoOrder = "none"
    MaxLoads = 2
    MaxPrice = 1
    MaxQty = 1
    Stock = {"A", "B"}
    NoStock = "-"
    Lazy = {"info", "engine"}
    MaxCalls = 2
    RiskCells = {"risk"}
    ScanCells = {"interval"}
    Typed = {8, 9}
    OtherTabs = {"confirm_on_close"}
    MaxRiskRuns = 2
    TrailFields = {"trail_target"}
    MaxDeskRuns = 2
    Pos = {"p"}
    MaxPosRuns = 2
    WatchCode = {"x"}
    MaxScan = 2
    MaxSourceLoads = 2
    MaxPosts = 1
    EngStock = {"x"}
    EngMode = {"full", "frozen"}
    MaxEngRuns = 2
    Model = {"m", "n"}
    NoModel = "-"
    Needed = {"n"}
    MaxCompares = 3
    MaxPolls = 2
    Ticker = {"t"}
    Threshold = {5, 6}
    MaxTnmRuns = 2
INVARIANTS
    DashboardTypeOK
    WindowStartsOnBar
    FrameUpToDate
    ChartAlgorithms
    ReloadKeepsArrangement
    MemoIsPainted
    DialogueShowsItsStock
    OneChartInterval
    OneSwitchInFlight
    CandidatesMarkWatched
    DisabledButtonComesBack
    ChosenAreListed
    ComparisonShowsNewest
PROPERTIES
    NavigationStopsPolling
    TypedQuantityKept
    SaveShowsStored
    SectionsIndependent
    HeldPositionVoidedKnowingly
    UnsentThresholdKept
