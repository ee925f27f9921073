\* The preparation and the report of MCPipelines.cfg; the labels near the end of a period look into the next.
CONSTANTS
    MinuteLength = 4
    BarLength = 2
    StartTime = 4
    EndTime = 42
    WantedMonths = {1, 2}
    SpreadParts = 100
    Unit = 10
    ImbalanceCap = 9
    Directories <- MCDirectories
    Periods <- MCPeriods
    Costs <- MCCosts
    LabelCosts <- MCBase
    Warmup = 2
    Lookbacks = {1, 2}
    Stride = 1
    Horizon = 1
    Margin = 10
    SamplesEnd = 48
    HoldoutEnd = 44
    BasisParts = 100
    RoundTrip = 8
    SafetyMargin = 2
    FlowWindow = 2
    TrendLookbacks = {2, 3}
    EfficiencyLookbacks = {2}
    GridHorizons = {1, 2}
    GridCosts = {5, 8}
    GridMargins = {2, 5}
    CostParts = 1000
    SizeScale = 10
    TargetSize = 3
    StartCash = 1000
SPECIFICATION ResearchSpec
INVARIANT HoldoutUntouched
CHECK_DEADLOCK FALSE
