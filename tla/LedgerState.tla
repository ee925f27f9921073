---------------------------- MODULE LedgerState ----------------------------
(***************************************************************************)
(* The state of the perpetual ledger (ledger.hpp, LedgerState) and what    *)
(* PerpetualLedger::apply_fill and mark_to_market compute from it, as      *)
(* operators on a record.  The state machine over them is module Ledger;   *)
(* PaperExchange keeps such a record as one of its variables.              *)
(***************************************************************************)
EXTENDS FixedPoint

CONSTANT InitialCash    \* LedgerConfig::initial_cash_units

ASSUME CashAssumption == InitialCash \in Units

(* Every field is an int64. *)
LedgerRecord ==
    [cash : Units, position : Units, position_cost : Units,
     average_entry_price : Units, realized_pnl : Units, unrealized_pnl : Units,
     total_fee : Units, equity : Units, last_mark_price : Units]

LedgerErrors ==
    {"ok", "invalid_configuration", "invalid_fill", "arithmetic_overflow"}

(* A configuration that the constructor refuses leaves the ledger empty and *)
(* makes every later call fail.                                             *)
LedgerConfigured == InitialCash >= 0

InitialLedger ==
    LET cash == IF LedgerConfigured THEN InitialCash ELSE 0
    IN  [cash |-> cash, position |-> 0, position_cost |-> 0,
         average_entry_price |-> 0, realized_pnl |-> 0, unrealized_pnl |-> 0,
         total_fee |-> 0, equity |-> cash, last_mark_price |-> 0]

-----------------------------------------------------------------------------
(* refresh_mark: revaluation at a price. *)

MarkedPnl(s, price) ==
    Sign(s.position) * (Notional(s.position, price) - Magnitude(s.position_cost))

MarkFits(s, price) ==
    /\ NotionalFits(s.position, price)
    /\ Fits(MarkedPnl(s, price))
    /\ Fits(s.cash + MarkedPnl(s, price))

Marked(s, price) ==
    [s EXCEPT !.unrealized_pnl = MarkedPnl(s, price),
              !.equity = s.cash + MarkedPnl(s, price),
              !.last_mark_price = price]

(* The LedgerError that revaluing s at price returns. *)
MarkError(s, price) ==
    IF price <= 0 THEN "invalid_fill"
    ELSE IF MarkFits(s, price) THEN "ok" ELSE "arithmetic_overflow"

-----------------------------------------------------------------------------
(* apply_fill: quantity is signed, positive for a buy. *)

Adds(s, quantity) ==
    s.position = 0 \/ Sign(s.position) = Sign(quantity)

CloseQuantity(s, quantity) == Lesser(Magnitude(s.position), Magnitude(quantity))

(* The part of the position's cost that the closed quantity takes with it. *)
AllocatedCost(s, quantity) ==
    TruncDiv(s.position_cost * CloseQuantity(s, quantity), Magnitude(s.position))

(* Mutant of Realized: a reversal closes the whole fill, not the position. *)
RealizedOfWholeFill(s, quantity, price) ==
    IF Adds(s, quantity) THEN 0
    ELSE Sign(s.position) * (Notional(quantity, price)
                              - Magnitude(AllocatedCost(s, quantity)))

(* Mutant of Realized: shorts are paid like longs. *)
RealizedUnsigned(s, quantity, price) ==
    IF Adds(s, quantity) THEN 0
    ELSE Notional(CloseQuantity(s, quantity), price)
            - Magnitude(AllocatedCost(s, quantity))

Realized(s, quantity, price) ==
    IF Adds(s, quantity) THEN 0
    ELSE Sign(s.position) * (Notional(CloseQuantity(s, quantity), price)
                              - Magnitude(AllocatedCost(s, quantity)))

Reverses(s, quantity) ==
    Sign(s.position + quantity) = -Sign(s.position) /\ s.position # 0

(* Mutant of CostAfter: the cost opened by a reversal takes the old sign. *)
CostAfterOldSign(s, quantity, price) ==
    LET position == s.position + quantity
    IN  CASE position = 0 -> 0
          [] Reverses(s, quantity) -> Sign(s.position) * Notional(position, price)
          [] Adds(s, quantity) ->
                s.position_cost + Sign(quantity) * Notional(quantity, price)
          [] OTHER -> s.position_cost - AllocatedCost(s, quantity)

(* Mutant of CostAfter: a partial close leaves the cost of the whole position. *)
CostAfterKeepingAll(s, quantity, price) ==
    LET position == s.position + quantity
    IN  CASE position = 0 -> 0
          [] Reverses(s, quantity) -> Sign(position) * Notional(position, price)
          [] Adds(s, quantity) ->
                s.position_cost + Sign(quantity) * Notional(quantity, price)
          [] OTHER -> s.position_cost

CostAfter(s, quantity, price) ==
    LET position == s.position + quantity
    IN  CASE position = 0 -> 0
          [] Reverses(s, quantity) -> Sign(position) * Notional(position, price)
          [] Adds(s, quantity) ->
                s.position_cost + Sign(quantity) * Notional(quantity, price)
          [] OTHER -> s.position_cost - AllocatedCost(s, quantity)

(* The entry price implied by a cost: back from account units to price units. *)
AveragePrice(position, cost) ==
    IF position = 0 THEN 0
    ELSE TruncDiv(TruncDiv(Magnitude(cost) * ScaleDown, ScaleUp),
                  Magnitude(position))

(* Mutant of Candidate: the fee is counted but never paid. *)
CandidateFeeUnpaid(s, quantity, price, fee) ==
    LET realized == Realized(s, quantity, price)
        position == s.position + quantity
        cost == CostAfter(s, quantity, price)
    IN  [s EXCEPT !.position = position,
                  !.position_cost = cost,
                  !.average_entry_price = AveragePrice(position, cost),
                  !.cash = @ + realized,
                  !.realized_pnl = @ + realized,
                  !.total_fee = @ + fee]

(* The candidate state before it is marked at the fill price. *)
Candidate(s, quantity, price, fee) ==
    LET realized == Realized(s, quantity, price)
        position == s.position + quantity
        cost == CostAfter(s, quantity, price)
    IN  [s EXCEPT !.position = position,
                  !.position_cost = cost,
                  !.average_entry_price = AveragePrice(position, cost),
                  !.cash = @ + realized - fee,
                  !.realized_pnl = @ + realized,
                  !.total_fee = @ + fee]

(* Mutant of FillFits: the sums are not checked, only the products. *)
FillFitsProductsOnly(s, quantity, price, fee) ==
    /\ NotionalFits(quantity, price)
    /\ NotionalFits(s.position + quantity, price)

(* Every overflow check on the way has the same outcome, so their order is *)
(* immaterial: the fill is refused and the ledger is left as it was.       *)
FillFits(s, quantity, price, fee) ==
    LET c == Candidate(s, quantity, price, fee)
    IN  /\ NotionalFits(quantity, price)
        /\ Adds(s, quantity) \/ NotionalFits(CloseQuantity(s, quantity), price)
        /\ Reverses(s, quantity) => NotionalFits(c.position, price)
        /\ c \in LedgerRecord
        /\ FitsWide(Magnitude(c.position_cost) * ScaleDown)
        /\ MarkFits(c, price)

(* The LedgerError that apply_fill returns. *)
FillError(s, quantity, price, fee) ==
    IF ~LedgerConfigured \/ quantity = 0 \/ price <= 0 \/ fee < 0
    THEN "invalid_fill"
    ELSE IF FillFits(s, quantity, price, fee) THEN "ok"
    ELSE "arithmetic_overflow"

(* The ledger after apply_fill: unchanged unless every step succeeded. *)
AfterFill(s, quantity, price, fee) ==
    IF FillError(s, quantity, price, fee) = "ok"
    THEN Marked(Candidate(s, quantity, price, fee), price)
    ELSE s

(* The ledger after mark_to_market, and its result. *)
MarkToMarketError(s, price) ==
    IF LedgerConfigured THEN MarkError(s, price) ELSE "invalid_configuration"

AfterMark(s, price) ==
    IF MarkToMarketError(s, price) = "ok" THEN Marked(s, price) ELSE s
=============================================================================
