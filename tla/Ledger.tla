------------------------------- MODULE Ledger -------------------------------
(***************************************************************************)
(* PerpetualLedger as a state machine: any sequence of apply_fill and      *)
(* mark_to_market calls, the refused ones included.  Besides the ledger's  *)
(* own state the module keeps the result of the last call and what the     *)
(* calls add up to, which the code does not store:                         *)
(*   fills      accepted fills (bounded by MaxFills)                       *)
(*   reversals  accepted fills that took the position through zero         *)
(*   paid       signed value of every accepted fill, as rounded by notional *)
(*   low, high  the lowest and highest price at which the present position *)
(*              was opened or added to (0 when flat)                       *)
(*   adds       fills that opened the present position or added to it      *)
(*   closes     fills that closed a part of it                             *)
(***************************************************************************)
EXTENDS LedgerState

CONSTANTS Quantities, Prices, Fees, MaxFills

(* Arguments are int64 values, valid or not. *)
ASSUME CallAssumption ==
    /\ Quantities \subseteq Units
    /\ Prices \subseteq Units
    /\ Fees \subseteq Units
    /\ MaxFills \in Nat

VARIABLES state, error, history

vars == <<state, error, history>>

Init ==
    /\ state = InitialLedger
    /\ error = "ok"
    /\ history = [fills |-> 0, reversals |-> 0, paid |-> 0,
                  low |-> 0, high |-> 0, adds |-> 0, closes |-> 0]

(* The entries behind the position that a fill leaves. *)
Entry(quantity, price) ==
    LET position == state.position + quantity
    IN  IF position = 0 THEN [low |-> 0, high |-> 0, adds |-> 0, closes |-> 0]
        ELSE IF state.position = 0 \/ Reverses(state, quantity)
             THEN [low |-> price, high |-> price, adds |-> 1, closes |-> 0]
        ELSE IF Adds(state, quantity)
             THEN [low |-> Lesser(history.low, price),
                   high |-> IF price > history.high THEN price ELSE history.high,
                   adds |-> history.adds + 1, closes |-> history.closes]
             ELSE [low |-> history.low, high |-> history.high,
                   adds |-> history.adds, closes |-> history.closes + 1]

Recorded(quantity, price) ==
    LET entry == Entry(quantity, price)
    IN  [fills |-> history.fills + 1,
         reversals |-> history.reversals
                         + (IF Reverses(state, quantity) THEN 1 ELSE 0),
         paid |-> history.paid + Sign(quantity) * Notional(quantity, price),
         low |-> entry.low, high |-> entry.high,
         adds |-> entry.adds, closes |-> entry.closes]

ApplyFill(quantity, price, fee) ==
    /\ history.fills < MaxFills
    /\ error' = FillError(state, quantity, price, fee)
    /\ state' = AfterFill(state, quantity, price, fee)
    /\ history' = IF error' = "ok" THEN Recorded(quantity, price) ELSE history

MarkToMarket(price) ==
    /\ error' = MarkToMarketError(state, price)
    /\ state' = AfterMark(state, price)
    /\ UNCHANGED history

Next ==
    \/ \E quantity \in Quantities, price \in Prices, fee \in Fees :
          ApplyFill(quantity, price, fee)
    \/ \E price \in Prices : MarkToMarket(price)

Spec == Init /\ [][Next]_vars

-----------------------------------------------------------------------------
HistoryRecord ==
    [fills : Nat, reversals : Nat, paid : Int,
     low : Int, high : Int, adds : Nat, closes : Nat]

(* Type invariant: every stored amount is within the int64 range, in every *)
(* state that any sequence of accepted and refused calls leads to.         *)
TypeOK ==
    /\ state \in LedgerRecord
    /\ error \in LedgerErrors
    /\ history \in HistoryRecord

(* The three totals that the ledger keeps separately agree: cash is the    *)
(* deposit plus realised profit less fees, and equity is cash plus what the *)
(* position would realise at the last mark.                                *)
Bookkeeping ==
    /\ state.cash = InitialLedger.cash + state.realized_pnl - state.total_fee
    /\ state.equity = state.cash + state.unrealized_pnl

(* The cost basis belongs to the position: a flat ledger has no cost, no   *)
(* entry price and nothing unrealised, and a cost never has the sign        *)
(* opposite to its position, whatever partial closes and reversals came     *)
(* before (refresh_mark and the next close read the cost by magnitude).    *)
CostFollowsPosition ==
    /\ state.position = 0 => /\ state.position_cost = 0
                             /\ state.average_entry_price = 0
                             /\ state.unrealized_pnl = 0
    /\ state.position > 0 => state.position_cost >= 0
    /\ state.position < 0 => state.position_cost <= 0

(* Profit is neither created nor lost by the way a position is unwound:    *)
(* realised profit less the remaining cost is what the fills paid out,     *)
(* however they were split, up to one unit for each fill that was split at *)
(* a reversal (its two halves are rounded separately).                     *)
RoundingBounded ==
    Magnitude(state.realized_pnl - state.position_cost + history.paid)
        <= history.reversals

(* The entry price reported for a position lies between the lowest and the *)
(* highest price at which it was built, but for what rounding costs it: a   *)
(* fill that adds loses less than one account unit of the cost, a partial   *)
(* close leaves less than one too many, and the price itself is rounded     *)
(* down.  Nothing else moves it, and an error is never larger for the       *)
(* prices, the sizes or the order of the fills.  An account unit is         *)
(* ScaleDown of `units', in which the position is counted here; where       *)
(* ScaleDown is 1 nothing is lost and the price is within the range.        *)
AverageWithinEntryPrices ==
    LET units == Magnitude(state.position) * ScaleUp
        price == state.average_entry_price
    IN  state.position # 0 =>
            /\ (price - history.high) * units <= (ScaleDown - 1) * history.closes
            /\ (history.low - price) * units
                    < units + (ScaleDown - 1) * history.adds

(* The ledger is a cash account: realised profit, cost basis and marks are  *)
(* one way of keeping it.                                                   *)
Account == INSTANCE CashAccount WITH
    Unit <- ScaleUp,
    Parts <- ScaleDown,
    Deposit <- InitialLedger.cash,
    position <- state.position,
    paid <- state.position_cost - state.realized_pnl,
    fees <- state.total_fee,
    worth <- state.equity,
    mark <- state.last_mark_price

ImplementsCashAccount == Account!Spec
=============================================================================
