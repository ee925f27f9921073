\* Five rows: a decision, its fill, a decision that reverses it, and its fill,
\* with rows that are refused or share a time in between.
CONSTANTS
    MaxUnits = 10000
    MaxWide = 200000000
    ScaleUp = 1
    ScaleDown = 1
    InitialCash = 100
    None = None
    Parts = 100
    MaxOrderQuantity = 4
    MaxOrderNotional = 80
    MaxPosition = 2
    MaxDataAge = 2
    MaxSpread = 30
    MaxDrawdown = 20
    QuantityStep = 1
    MinimumNotional = 1
    MakerFee = 0
    TakerFee = 5
    Slippage = 1
    AckLatency = 1
    CancelLatency = 0
    NoId = NoId
    Events = {}
    Requests = {}
    Delays = {}
    MaxOrders = 0
    MaxIgnored = 1
    Lookback = 2
    FeatureParts = 100
    Rows <- MCRows
    Models = {"baseline", "hold", "laya", "tape"}
    TapeFiles <- MCTapeFiles
    DecisionEvery = 2
    FeedLatency = 1
    Threshold = 550000
    Probabilities = {400000, 600000}
    FlowThreshold = 5
    TargetUnits = 2
SPECIFICATION ReplaySpec
INVARIANTS PositionOnTarget ReportReconciles DrawdownIsLargestFall ReturnOverLookback
PROPERTIES NoLookahead
CHECK_DEADLOCK FALSE
