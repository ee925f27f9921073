-------------------------------- MODULE Risk --------------------------------
(***************************************************************************)
(* RiskEngine::evaluate: the pure function of a request, the last market   *)
(* event, the ledger and the decision time that every order passes before  *)
(* it exists.  A limit of zero is switched off.                            *)
(***************************************************************************)
EXTENDS LedgerState

CONSTANTS
    None,               \* an empty std::optional
    Parts,              \* 1'000'000, scaled down with the prices
    MaxOrderQuantity,   \* RiskLimits, field by field
    MaxOrderNotional,
    MaxPosition,
    MaxDataAge,
    MaxSpread,
    MaxDrawdown

ASSUME RiskAssumption ==
    /\ None \notin Int
    /\ Parts \in Nat \ {0}
    /\ {MaxOrderQuantity, MaxOrderNotional, MaxPosition, MaxDataAge,
        MaxSpread, MaxDrawdown} \subseteq Nat

Sides == {"buy", "sell"}

SignedQuantity(side, quantity) == IF side = "buy" THEN quantity ELSE -quantity

(* The side of the book that an order of this side trades against. *)
Top(side, market) == IF side = "buy" THEN market.best_ask ELSE market.best_bid

(* limit_price_units.value_or(top of book): what an order is valued at. *)
ReferencePrice(request, market) ==
    IF request.limit_price # None THEN request.limit_price
    ELSE Top(request.side, market)

Projected(request, ledger) ==
    ledger.position + SignedQuantity(request.side, request.quantity)

Stale(market, decisionTime) ==
    /\ MaxDataAge > 0
    /\ \/ decisionTime < market.receive_time
       \/ decisionTime - market.receive_time > MaxDataAge

OverOrderLimit(request, market) ==
    \/ MaxOrderQuantity > 0 /\ request.quantity > MaxOrderQuantity
    \/ /\ MaxOrderNotional > 0
       /\ Notional(request.quantity, ReferencePrice(request, market))
            > MaxOrderNotional

(* Mutant of OverPositionLimit: the limit is one-sided. *)
OverPositionLimitLongOnly(request, ledger) ==
    MaxPosition > 0 /\ Projected(request, ledger) > MaxPosition

OverPositionLimit(request, ledger) ==
    MaxPosition > 0 /\ Magnitude(Projected(request, ledger)) > MaxPosition

(* Mutant of NotReducing: a reversal of smaller size counts as reducing. *)
NotReducingButReversing(request, ledger) ==
    /\ request.reduce_only
    /\ \/ ledger.position = 0
       \/ Magnitude(Projected(request, ledger)) >= Magnitude(ledger.position)

(* A reduce-only order has to shrink the position without reversing it. *)
NotReducing(request, ledger) ==
    LET projected == Projected(request, ledger)
    IN  /\ request.reduce_only
        /\ \/ ledger.position = 0
           \/ Magnitude(projected) >= Magnitude(ledger.position)
           \/ projected # 0 /\ (projected > 0) # (ledger.position > 0)

OverSpreadLimit(market) ==
    LET midpoint == (market.best_bid + market.best_ask) \div 2
        spread == ((market.best_ask - market.best_bid) * Parts) \div midpoint
    IN  MaxSpread > 0 /\ spread > MaxSpread

NetPnl(ledger) ==
    ledger.realized_pnl + ledger.unrealized_pnl - ledger.total_fee

OverDrawdownLimit(ledger) ==
    MaxDrawdown > 0 /\ NetPnl(ledger) < -MaxDrawdown

(* The first check that fails names the decision. *)
Evaluate(request, market, ledger, decisionTime) ==
    IF market.best_bid <= 0 \/ market.best_ask < market.best_bid THEN "invalid_market"
    ELSE IF Stale(market, decisionTime) THEN "stale_market"
    ELSE IF request.quantity <= 0 THEN "invalid_quantity"
    ELSE IF OverOrderLimit(request, market) THEN "order_limit"
    ELSE IF OverPositionLimit(request, ledger) THEN "position_limit"
    ELSE IF NotReducing(request, ledger) THEN "reduce_only_violation"
    ELSE IF OverSpreadLimit(market) THEN "spread_limit"
    ELSE IF OverDrawdownLimit(ledger) THEN "drawdown_limit"
    ELSE "accept"
=============================================================================
