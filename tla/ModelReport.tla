----------------------------- MODULE ModelReport -----------------------------
(***************************************************************************)
(* run_btc_model_oos_report.py: samples with features and labels are cut     *)
(* from the rows of a replay file, divided into three periods, and the       *)
(* actions predicted for the samples of a period are simulated.              *)
(*                                                                         *)
(*   rows      the replay file as load_csv returns it, in order of time       *)
(*   index     the loop index of build_samples                              *)
(*   samples   what build_samples has appended                              *)
(*   stage     "samples", then "simulation"                                 *)
(*   period, costs, step, account, pending                                  *)
(*             the arguments, the loop and the local state of simulate       *)
(*                                                                         *)
(* Sequences begin at one, so an index here is one more than in the script.  *)
(* The fitted model is left out: it may predict anything.  A logarithmic     *)
(* return is known by its two midpoints.                                    *)
(***************************************************************************)
EXTENDS Filter, FiniteSets

CONSTANTS
    Periods,            \* SPLITS: from names to the first and the last time
    Costs,              \* COSTS: pairs of fee and slippage, in parts
    LabelCosts,         \* COSTS["base"]
    Warmup,             \* 60, the longest lookback
    Lookbacks,          \* {1, 5, 15, 60}
    Stride, Horizon,    \* arguments, in rows
    Margin,             \* the label margin, in parts
    CostParts,          \* 1'000'000
    SizeScale,          \* 1'000: quantity units to one contract
    TargetSize,         \* 100
    StartCash           \* 10'000'000

ASSUME ReportAssumption ==
    /\ {Warmup, Stride, Horizon, CostParts, SizeScale, TargetSize} \subseteq Nat \ {0}
    /\ Lookbacks \subseteq 1 .. Warmup
    /\ StartCash \in Nat /\ Margin \in Nat
    /\ Costs \subseteq Nat \X Nat

VARIABLES rows, index, samples, stage, period, costs, step, account, pending

reportVars == <<rows, index, samples, stage, period, costs, step, account, pending>>

Mid(row) == (row.bid + row.ask) \div 2

-----------------------------------------------------------------------------
(* feature_vector: returns over each lookback, the one-row returns that the   *)
(* volatility is made of, and the flow and spread of the row itself.          *)

Return(series, at, lookback) == <<Mid(series[at - lookback]), Mid(series[at])>>

(* Mutant of Window: the volatility is that of the rows to come. *)
WindowAhead(series, at) ==
    [offset \in 0 .. Warmup - 1 |->
        IF at + offset + 1 \in DOMAIN series THEN Return(series, at + offset + 1, 1)
        ELSE <<0, 0>>]

Window(series, at) ==
    [offset \in 0 .. Warmup - 1 |-> Return(series, at - offset, 1)]

Features(series, at) ==
    [returns |-> [lookback \in Lookbacks |-> Return(series, at, lookback)],
     window |-> Window(series, at),
     quote |-> series[at]]

(* label_for: buy at the ask now and sell at the bid after the horizon, or     *)
(* the reverse, after the costs of both sides.                              *)
Label(series, at) ==
    LET now == series[at]
        then == series[at + Horizon]
        needed == CostParts + 2 * (LabelCosts[1] + LabelCosts[2]) + Margin
        longPays == then.bid * CostParts > now.ask * needed
        shortPays == now.bid * CostParts > then.ask * needed
        longBetter == then.bid * then.ask >= now.bid * now.ask
    IN  CASE ~longPays /\ ~shortPays -> "hold"
          [] OTHER -> IF longBetter THEN "long" ELSE "short"

(* split_for *)
PeriodsOf(time) ==
    {name \in DOMAIN Periods : Periods[name][1] <= time /\ time <= Periods[name][2]}

InRange == index <= Len(rows) - Horizon

BuildSample ==
    /\ stage = "samples"
    /\ InRange
    /\ \E name \in PeriodsOf(rows[index].time) :
          samples' = Append(samples,
                        [index |-> index, period |-> name,
                         features |-> Features(rows, index), label |-> Label(rows, index)])
    /\ index' = index + Stride
    /\ UNCHANGED <<rows, stage, period, costs, step, account, pending>>

SkipRow ==
    /\ stage = "samples"
    /\ InRange
    /\ PeriodsOf(rows[index].time) = {}
    /\ index' = index + Stride
    /\ UNCHANGED <<rows, samples, stage, period, costs, step, account, pending>>

-----------------------------------------------------------------------------
(* simulate *)

SamplesOf(name) == Chosen(samples, {i \in DOMAIN samples : samples[i].period = name})

FillPrice(price, side, slippage) ==
    IF side > 0 THEN price + (price * slippage + CostParts - 1) \div CostParts
    ELSE LET lower == price - (price * slippage) \div CostParts
         IN  IF lower < 1 THEN 1 ELSE lower

Closing(delta) ==
    LET held == IF account.position > 0 THEN account.position ELSE -account.position
        quantity == IF delta > 0 THEN delta ELSE -delta
    IN  IF account.position * delta >= 0 THEN 0
        ELSE IF held < quantity THEN held ELSE quantity

(* Mutant of EntryAfter: a reversal keeps the entry price. *)
EntryAfterKept(target, price, remaining) ==
    IF target = 0 THEN 0 ELSE IF account.position = 0 THEN price ELSE account.entry

(* The branch for adding to a position is never taken, since all targets     *)
(* have one size.                                                          *)
EntryAfter(target, price, remaining) ==
    IF remaining > 0 /\ target # 0 THEN price
    ELSE IF target = 0 THEN 0 ELSE account.entry

Executed(target, row) ==
    LET delta == target - account.position
        side == IF delta > 0 THEN 1 ELSE -1
        quantity == side * delta
        price == FillPrice(IF side > 0 THEN row.ask ELSE row.bid, side, costs[2])
        notional == (price * quantity) \div SizeScale
        fee == (notional * costs[1] + CostParts - 1) \div CostParts
        closing == Closing(delta)
        pnl == ((IF account.position > 0 THEN price - account.entry
                 ELSE account.entry - price) * closing) \div SizeScale
    IN  IF delta = 0 THEN account
        ELSE [cash |-> account.cash - side * notional - fee,
              position |-> target,
              entry |-> EntryAfter(target, price, quantity - closing),
              fills |-> account.fills + 1,
              fees |-> account.fees + fee,
              gross_profit |-> account.gross_profit + (IF pnl > 0 THEN pnl ELSE 0),
              gross_loss |-> account.gross_loss + (IF pnl < 0 THEN -pnl ELSE 0)]

NewAccount ==
    [cash |-> StartCash, position |-> 0, entry |-> 0, fills |-> 0, fees |-> 0,
     gross_profit |-> 0, gross_loss |-> 0]

(* All samples are there; one period is simulated with one pair of costs. *)
StartSimulation ==
    /\ stage = "samples"
    /\ ~InRange
    /\ stage' = "simulation"
    /\ \E name \in DOMAIN Periods, pair \in Costs : period' = name /\ costs' = pair
    /\ UNCHANGED <<rows, index, samples, step, account, pending>>

(* The action predicted for the previous sample is executed at this one. *)
SimulateRow(action) ==
    /\ stage = "simulation"
    /\ step < Len(SamplesOf(period))
    /\ step' = step + 1
    /\ account' = IF step = 0 THEN account
                  ELSE Executed(pending * TargetSize,
                                rows[SamplesOf(period)[step + 1].index])
    /\ pending' = action
    /\ UNCHANGED <<rows, index, samples, stage, period, costs>>

-----------------------------------------------------------------------------
ReportInit(file) ==
    /\ rows = file
    /\ index = Warmup + 1
    /\ samples = <<>>
    /\ stage = "samples"
    /\ period = "none" /\ costs = LabelCosts
    /\ step = 0 /\ account = NewAccount /\ pending = 0

ReportNext ==
    \/ BuildSample
    \/ SkipRow
    \/ StartSimulation
    \/ \E action \in {-1, 0, 1} : SimulateRow(action)

-----------------------------------------------------------------------------
(* The money adds up: cash plus the position at its entry price is what the   *)
(* account began with, plus gross profit, less gross loss and fees, but for   *)
(* the rounding of a notional and a profit at each fill.                      *)
SimulationReconciles ==
    LET gap == SizeScale * (account.cash - StartCash - account.gross_profit
                              + account.gross_loss + account.fees)
                 + account.position * account.entry
    IN  -2 * SizeScale * account.fills <= gap /\ gap <= 2 * SizeScale * account.fills

=============================================================================
