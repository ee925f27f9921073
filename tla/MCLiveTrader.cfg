\* The live handler: the gate opens, closes on a delay and is reset within six
\* events; decisions come in time, after the next submission, or too late.
CONSTANTS
    MaxUnits = 10000
    MaxWide = 200000000
    ScaleUp = 1
    ScaleDown = 1
    InitialCash = 100
    None = None
    Parts = 100
    MaxOrderQuantity = 5
    MaxOrderNotional = 60
    MaxPosition = 4
    MaxDataAge = 2
    MaxSpread = 30
    MaxDrawdown = 3
    QuantityStep = 1
    MinimumNotional = 1
    MakerFee = 0
    TakerFee = 0
    Slippage = 0
    AckLatency = 0
    CancelLatency = 1
    NoId = NoId
    Events <- MCEvents
    Requests = {}
    Delays = {}
    MaxOrders = 0
    MaxIgnored = 1
    Outcomes <- MCOutcomes
    WarmupSamples = 2
    MaxResidual = 1
    DecideEvery = 2
    BaselineEvery = 1
    PublishEvery = 1
    MaxLag = 3
    MaxSequence = 6
SPECIFICATION LiveSpec
INVARIANTS PositionIsTarget DecisionsUsedOnce
PROPERTY NoOrderInWarmup
CHECK_DEADLOCK FALSE
