\* Market orders that execute on submission, at every limit of the risk engine.
CONSTANTS
    MaxUnits = 10000
    MaxWide = 200000000
    ScaleUp = 1
    ScaleDown = 1
    InitialCash = 100
    None = None
    Parts = 100
    MaxOrderQuantity = 6
    MaxOrderNotional = 60
    MaxPosition = 5
    MaxDataAge = 2
    MaxSpread = 30
    MaxDrawdown = 12
    QuantityStep = 2
    MinimumNotional = 15
    MakerFee = 2
    TakerFee = 5
    Slippage = 7
    AckLatency = 0
    CancelLatency = 1
    NoId = NoId
    Events <- MCTakingEvents
    Requests <- MCTakingRequests
    Delays <- MCTakingDelays
    MaxOrders = 3
    MaxIgnored = 1
    Ids = {a, b, c}
SPECIFICATION Spec
INVARIANT PositionWithinLimit
PROPERTY ReduceOnlyShrinks
SYMMETRY MCSymmetry
CHECK_DEADLOCK FALSE
