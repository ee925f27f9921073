\* 256 series of closing prices in two directories each, for the preparation and
\* the report; 39 files for five programs.
CONSTANTS
    MinuteLength = 4
    BarLength = 2
    StartTime = 4
    EndTime = 42
    WantedMonths = {1, 2}
    SpreadParts = 100
    Unit = 10
    ImbalanceCap = 9
    Directories <- MCDirectories
    Periods <- MCPeriods
    Costs <- MCCosts
    LabelCosts <- MCBase
    Warmup = 2
    Lookbacks = {1, 2}
    Stride = 1
    Horizon = 1
    Margin = 10
    SamplesEnd = 48
    HoldoutEnd = 44
    BasisParts = 100
    RoundTrip = 8
    SafetyMargin = 2
    FlowWindow = 2
    TrendLookbacks = {2, 3}
    EfficiencyLookbacks = {2}
    GridHorizons = {1, 2}
    GridCosts = {5, 8}
    GridMargins = {2, 5}
    CostParts = 1000
    SizeScale = 10
    TargetSize = 3
    StartCash = 1000
    Programs = {"router", "experts", "baseline", "head", "report"}
    Files <- MCFiles
    Lookback = 2
    MinFills = 2
    Move <- MCMove
    Predict <- MCPredict
    Loss <- MCLoss
    Execution <- MCExecution
    Simulation <- MCSimulation
SPECIFICATION PipelinesSpec
INVARIANTS PipelinesAgree FeaturesCausal LabelsAgree SimulationReconciles
INVARIANTS SelectionIgnoresHoldout SelectionReproduced HoldoutCoveredOnce
CHECK_DEADLOCK FALSE
