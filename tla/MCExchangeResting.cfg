\* Limit and post-only orders, trades, cancellations and both latencies.
CONSTANTS
    MaxUnits = 10000
    MaxWide = 200000000
    ScaleUp = 1
    ScaleDown = 1
    InitialCash = 100
    None = None
    Parts = 100
    MaxOrderQuantity = 5
    MaxOrderNotional = 60
    MaxPosition = 4
    MaxDataAge = 2
    MaxSpread = 30
    MaxDrawdown = 10
    QuantityStep = 2
    MinimumNotional = 1
    MakerFee = 2
    TakerFee = 5
    Slippage = 1
    AckLatency = 1
    CancelLatency = 1
    NoId = NoId
    Events <- MCRestingEvents
    Requests <- MCRestingRequests
    Delays <- MCRestingDelays
    MaxOrders = 2
    MaxIgnored = 1
    Ids = {}
SPECIFICATION Spec
INVARIANTS FillsAccounted LimitsHonoured
PROPERTIES TerminalOrdersFrozen NoFillBeforeActive MakerFillsRespectTape CancelTiming
CHECK_DEADLOCK FALSE
