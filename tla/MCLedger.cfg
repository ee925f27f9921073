\* Every value is rounded to thirds of the product, costs split by a partial
\* close are rounded too, and the width is small enough for every overflow
\* check of apply_fill to refuse fills.
CONSTANTS
    MaxUnits = 10
    MaxWide = 2000
    ScaleUp = 1
    ScaleDown = 3
    InitialCash = 8
    Quantities <- MCQuantities
    Prices <- MCPrices
    Fees <- MCFees
    MaxFills = 4
SPECIFICATION Spec
INVARIANTS TypeOK Bookkeeping CostFollowsPosition RoundingBounded AverageWithinEntryPrices
PROPERTY ImplementsCashAccount
