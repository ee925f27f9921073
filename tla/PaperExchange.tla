---------------------------- MODULE PaperExchange ----------------------------
(***************************************************************************)
(* The simulated venue: on_market_event, submit and cancel, each as one    *)
(* action (the class has a single caller thread and no entry point yields).*)
(*                                                                         *)
(*   market    the last accepted event, or None                            *)
(*   orders    orders_, in submission order; an order's order_id is its    *)
(*             index (next_order_id_ advances exactly with push_back) and  *)
(*             order_index_ is the search by client id in OrderOf          *)
(*   fills     fills_, in fill_id order                                    *)
(*   ledger    the ledger's state                                          *)
(*   ignored   ignored_market_events_, bounded by MaxIgnored               *)
(*                                                                         *)
(* Left out of the records: what no decision reads (created_time_ns,       *)
(* reject_reason) and what other fields determine (a fill's exchange time  *)
(* and client id).                                                         *)
(***************************************************************************)
EXTENDS Risk, Sequences, FiniteSetsExt

CONSTANTS
    QuantityStep, MinimumNotional,              \* PaperExchangeConfig
    MakerFee, TakerFee, Slippage,
    AckLatency, CancelLatency,
    NoId,               \* the empty client_order_id
    Events,             \* the MarketEvents the feed may deliver
    Requests,           \* the OrderRequests callers may submit
    Delays,             \* how long after the last event callers decide
    MaxOrders,          \* bounds the orders submitted
    MaxIgnored          \* bounds the events refused

(* The fields of a MarketEvent and of an OrderRequest. *)
MarketEvents ==
    [sequence : Nat, exchange_time : Int, receive_time : Int,
     best_bid : Int, best_ask : Int, bid_quantity : Int, ask_quantity : Int,
     trade_price : Int \cup {None}, trade_quantity : Int, aggressor : Sides \cup {None}]

OrderRequests(ids) ==
    [id : ids, side : Sides, type : {"market", "limit", "post_only"}, quantity : Int,
     limit_price : Int \cup {None}, reduce_only : BOOLEAN]

ASSUME ExchangeAssumption ==
    /\ {QuantityStep, MinimumNotional, MakerFee, TakerFee, Slippage,
        AckLatency, CancelLatency} \subseteq Int
    /\ Events \subseteq MarketEvents /\ None \notin Events
    /\ Requests \subseteq OrderRequests({request.id : request \in Requests})
    /\ Delays \subseteq Int
    /\ MaxOrders \in Nat
    /\ MaxIgnored \in Nat
    \* calculate_notional does not check its scaling product
    /\ (MaxUnits + 1) * (MaxUnits + 1) * ScaleUp <= MaxWide

VARIABLES market, orders, fills, ledger, ignored

vars == <<market, orders, fills, ledger, ignored>>

Terminal == {"filled", "cancelled", "rejected"}

ConfigValid ==
    /\ LedgerConfigured
    /\ QuantityStep > 0 /\ MinimumNotional >= 0
    /\ MakerFee <= Parts /\ TakerFee <= Parts /\ Slippage <= Parts
    /\ AckLatency >= 0 /\ CancelLatency >= 0

Init ==
    /\ market = None
    /\ orders = <<>>
    /\ fills = <<>>
    /\ ledger = InitialLedger
    /\ ignored = 0

(* What a handler works on: the orders, the fills and the ledger change    *)
(* together, order by order, within one call.                              *)
Book == [orders |-> orders, fills |-> fills, ledger |-> ledger]

WithStatus(book, i, status) == [book EXCEPT !.orders[i].status = status]

-----------------------------------------------------------------------------
(* fill: executes up to `quantity' of order i; a failed fill rejects it. *)

FeeRate(maker) == IF maker THEN MakerFee ELSE TakerFee

Fee(quantity, price, maker) ==
    CeilShare(Notional(quantity, price), FeeRate(maker), Parts)

FillRefused(book, i, quantity, price, maker) ==
    LET signed == SignedQuantity(book.orders[i].request.side, quantity)
    IN  \/ ~NotionalFits(quantity, price)
        \/ ~Fits(Fee(quantity, price, maker))
        \/ FillError(book.ledger, signed, price, Fee(quantity, price, maker)) # "ok"

(* Mutant of Executed: the fill is booked at the quantity that remained. *)
ExecutedInFull(book, i, quantity, price, maker, event) ==
    LET order == book.orders[i]
        fee == Fee(quantity, price, maker)
        signed == SignedQuantity(order.request.side, order.remaining)
    IN  [orders |-> [book.orders EXCEPT
                       ![i].remaining = @ - quantity,
                       ![i].filled = @ + quantity,
                       ![i].status = IF order.remaining = quantity THEN "filled"
                                     ELSE "partially_filled"],
         fills |-> Append(book.fills,
                     [order_id |-> i, market_sequence |-> event.sequence,
                      side |-> order.request.side, quantity |-> quantity,
                      price |-> price, fee |-> fee, maker |-> maker,
                      realized_pnl |-> Realized(book.ledger, signed, price)]),
         ledger |-> AfterFill(book.ledger, signed, price, fee)]

Executed(book, i, quantity, price, maker, event) ==
    LET order == book.orders[i]
        fee == Fee(quantity, price, maker)
        signed == SignedQuantity(order.request.side, quantity)
    IN  [orders |-> [book.orders EXCEPT
                       ![i].remaining = @ - quantity,
                       ![i].filled = @ + quantity,
                       ![i].status = IF order.remaining = quantity THEN "filled"
                                     ELSE "partially_filled"],
         fills |-> Append(book.fills,
                     [order_id |-> i, market_sequence |-> event.sequence,
                      side |-> order.request.side, quantity |-> quantity,
                      price |-> price, fee |-> fee, maker |-> maker,
                      realized_pnl |-> Realized(book.ledger, signed, price)]),
         ledger |-> AfterFill(book.ledger, signed, price, fee)]

Fill(book, i, offered, price, maker, event) ==
    LET quantity == Lesser(offered, book.orders[i].remaining)
    IN  IF quantity <= 0 THEN book
        ELSE IF FillRefused(book, i, quantity, price, maker)
             THEN WithStatus(book, i, "rejected")
             ELSE Executed(book, i, quantity, price, maker, event)

-----------------------------------------------------------------------------
(* activate: an order reaches the book, or is taken to it again. *)

(* The price a market order pays: the top of the book, worsened. *)
SlippedPrice(side, top) ==
    LET slip == CeilShare(top, Slippage, Parts)
    IN  IF side = "buy" THEN top + slip ELSE top - slip

CanSlip(side, top) ==
    SlippedPrice(side, top) > 0 /\ Fits(SlippedPrice(side, top))

(* Mutant of Crosses: joining the own side of the book counts as crossing.   *)
CrossesOwnSide(request, event) ==
    IF request.side = "buy" THEN request.limit_price >= event.best_bid
    ELSE request.limit_price <= event.best_ask

Crosses(request, event) ==
    IF request.side = "buy" THEN request.limit_price >= event.best_ask
    ELSE request.limit_price <= event.best_bid

(* The displayed quantity that an order joining the book queues behind;    *)
(* an order away from the best price keeps the queue it had.               *)
QueueAhead(order, event) ==
    LET request == order.request
    IN  IF request.side = "buy" /\ request.limit_price = event.best_bid
        THEN event.bid_quantity
        ELSE IF request.side = "sell" /\ request.limit_price = event.best_ask
        THEN event.ask_quantity
        ELSE order.queue_ahead

(* A crossing limit order takes the top of the book, and a post-only order *)
(* is refused instead.                                                     *)
ActivateLimit(book, i, event) ==
    LET order == book.orders[i]
        request == order.request
    IN  IF Crosses(request, event)
        THEN IF request.type = "post_only"
             THEN WithStatus(book, i, "rejected")
             ELSE Fill(book, i, order.remaining, Top(request.side, event), FALSE, event)
        ELSE [book EXCEPT
                !.orders[i].queue_ahead = QueueAhead(order, event),
                !.orders[i].status = IF order.status = "cancel_pending"
                                     THEN "cancel_pending" ELSE "open"]

ActivateMarket(book, i, event) ==
    LET order == book.orders[i]
        side == order.request.side
    IN  IF CanSlip(side, Top(side, event))
        THEN Fill(book, i, order.remaining, SlippedPrice(side, Top(side, event)),
                  FALSE, event)
        ELSE WithStatus(book, i, "rejected")

Activate(book, i, event) ==
    LET order == book.orders[i]
    IN  IF order.status \in Terminal \/ event.receive_time < order.active_time THEN book
        ELSE IF order.request.type = "market" THEN ActivateMarket(book, i, event)
        ELSE ActivateLimit(book, i, event)

-----------------------------------------------------------------------------
(* The passes of on_market_event over the orders, in submission order. *)

(* Orders waiting for their acknowledgement, and again every order whose   *)
(* cancellation is pending.                                                *)
DueToActivate(order, event) ==
    /\ order.status \in {"pending", "cancel_pending"}
    /\ event.receive_time >= order.active_time

ActivationPass(book, event) ==
    LET pass[i \in 0 .. Len(book.orders)] ==
            IF i = 0 THEN book
            ELSE IF DueToActivate(pass[i - 1].orders[i], event)
                 THEN Activate(pass[i - 1], i, event)
                 ELSE pass[i - 1]
    IN  pass[Len(book.orders)]

HasTrade(event) ==
    event.trade_price # None /\ event.aggressor # None /\ event.trade_quantity > 0

(* Mutant of Matchable: an order may trade before its acknowledgement. *)
MatchableUnacknowledged(order, event) ==
    /\ order.status \in {"open", "partially_filled", "cancel_pending"}
    /\ order.request.type # "market"
    /\ order.request.side # event.aggressor
    /\ IF order.request.side = "buy"
       THEN event.trade_price <= order.request.limit_price
       ELSE event.trade_price >= order.request.limit_price

(* A resting order that the trade would have reached. *)
Matchable(order, event) ==
    /\ order.status \in {"open", "partially_filled", "cancel_pending"}
    /\ event.receive_time >= order.active_time
    /\ order.request.type # "market"
    /\ order.request.side # event.aggressor
    /\ IF order.request.side = "buy"
       THEN event.trade_price <= order.request.limit_price
       ELSE event.trade_price >= order.request.limit_price

(* Mutant of MatchOrder: the traded volume is offered to every order anew. *)
MatchOrderUnspent(book, available, i, event) ==
    LET order == book.orders[i]
        consumed == Lesser(order.queue_ahead, available)
        left == available - consumed
        queued == [book EXCEPT !.orders[i].queue_ahead = @ - consumed]
    IN  IF left <= 0 THEN [book |-> queued, available |-> left]
        ELSE [book |-> Fill(queued, i, left, order.request.limit_price, TRUE, event),
              available |-> left]

(* One order's share of the traded volume: the queue ahead of it first. *)
MatchOrder(book, available, i, event) ==
    LET order == book.orders[i]
        consumed == Lesser(order.queue_ahead, available)
        left == available - consumed
        quantity == Lesser(order.remaining, left)
        queued == [book EXCEPT !.orders[i].queue_ahead = @ - consumed]
    IN  IF left <= 0 THEN [book |-> queued, available |-> left]
        ELSE [book |-> Fill(queued, i, quantity, order.request.limit_price, TRUE, event),
              available |-> left - quantity]

MatchPass(book, event) ==
    LET pass[i \in 0 .. Len(book.orders)] ==
            IF i = 0 THEN [book |-> book, available |-> event.trade_quantity]
            ELSE LET before == pass[i - 1]
                 IN  IF before.available > 0 /\ Matchable(before.book.orders[i], event)
                     THEN MatchOrder(before.book, before.available, i, event)
                     ELSE before
    IN  IF HasTrade(event) THEN pass[Len(book.orders)].book ELSE book

(* Mutant of CancelDue: the cancellation latency is not waited for. *)
CancelDueAtOnce(order, event) ==
    order.status = "cancel_pending" /\ order.cancel_due # None

CancelDue(order, event) ==
    /\ order.status = "cancel_pending"
    /\ order.cancel_due # None
    /\ event.receive_time >= order.cancel_due

CancelPass(book, event) ==
    [book EXCEPT !.orders =
        [i \in DOMAIN book.orders |->
            IF CancelDue(book.orders[i], event)
            THEN [book.orders[i] EXCEPT !.status = "cancelled", !.remaining = 0]
            ELSE book.orders[i]]]

Midpoint(event) == event.best_bid + (event.best_ask - event.best_bid) \div 2

AfterEvent(book, event) ==
    LET settled == CancelPass(MatchPass(ActivationPass(book, event), event), event)
    IN  [settled EXCEPT !.ledger = AfterMark(settled.ledger, Midpoint(event))]

EventAccepted(event) ==
    /\ ConfigValid
    /\ event.sequence # 0
    /\ market # None => event.sequence > market.sequence
    /\ event.exchange_time > 0
    /\ event.receive_time >= event.exchange_time
    /\ event.best_bid > 0
    /\ event.best_ask >= event.best_bid

Becomes(book) ==
    /\ orders' = book.orders
    /\ fills' = book.fills
    /\ ledger' = book.ledger

AcceptEvent(event) ==
    /\ EventAccepted(event)
    /\ market' = event
    /\ Becomes(AfterEvent(Book, event))
    /\ UNCHANGED ignored

IgnoreEvent(event) ==
    /\ ~EventAccepted(event)
    /\ ignored < MaxIgnored
    /\ ignored' = ignored + 1
    /\ UNCHANGED <<market, orders, fills, ledger>>

OnMarketEvent(event) == AcceptEvent(event) \/ IgnoreEvent(event)

-----------------------------------------------------------------------------
(* submit. *)

OrderOf(id) == {i \in DOMAIN orders : orders[i].request.id = id}

(* The quantity is rounded down to a multiple of the step. *)
Normalized(request) ==
    [request EXCEPT !.quantity =
        TruncDiv(request.quantity, QuantityStep) * QuantityStep]

(* Why a request does not become an order; "accept" when it does. *)
SubmitReason(request, decisionTime) ==
    IF OrderOf(request.id) # {} THEN "duplicate_client_order_id"
    ELSE IF ~ConfigValid THEN "invalid_configuration"
    ELSE IF market = None THEN "market_unavailable"
    ELSE IF request.id = NoId THEN "empty_client_order_id"
    ELSE IF /\ request.type # "market"
            /\ request.limit_price = None \/ request.limit_price <= 0
         THEN "invalid_limit_price"
    ELSE LET risk == Evaluate(request, market, ledger, decisionTime)
             quantity == Normalized(request).quantity
             notional == Notional(quantity, ReferencePrice(request, market))
         IN  IF risk # "accept" THEN risk
             ELSE IF quantity <= 0 THEN "quantity_below_step"
             ELSE IF ~Fits(notional) THEN "notional_overflow"
             ELSE IF notional < MinimumNotional THEN "minimum_notional"
             ELSE "accept"

(* Mutant of NewOrder: the order does not wait for its acknowledgement. *)
NewOrderAtOnce(request, decisionTime) ==
    [request |-> Normalized(request),
     status |-> "pending",
     remaining |-> Normalized(request).quantity,
     filled |-> 0,
     queue_ahead |-> 0,
     active_time |-> decisionTime,
     cancel_due |-> None]

NewOrder(request, decisionTime) ==
    [request |-> Normalized(request),
     status |-> "pending",
     remaining |-> Normalized(request).quantity,
     filled |-> 0,
     queue_ahead |-> 0,
     active_time |-> decisionTime + AckLatency,
     cancel_due |-> None]

(* A stored order is activated at once when there is no latency. *)
AfterSubmit(request, decisionTime) ==
    LET stored == [Book EXCEPT
                     !.orders = Append(@, NewOrder(request, decisionTime))]
    IN  IF AckLatency = 0 THEN Activate(stored, Len(orders) + 1, market) ELSE stored

(* A request that is refused leaves no trace: its client id stays free. *)
Submit(request, decisionTime) ==
    /\ SubmitReason(request, decisionTime) = "accept"
    /\ Len(orders) < MaxOrders
    /\ Becomes(AfterSubmit(request, decisionTime))
    /\ UNCHANGED <<market, ignored>>

-----------------------------------------------------------------------------
(* cancel: its result is whether the request was accepted. *)

(* Mutant of CancelAccepted: an order that has ended can be cancelled. *)
CancelAcceptedWhenEnded(i) == orders[i].status # "cancel_pending"

CancelAccepted(i) == orders[i].status \notin Terminal \cup {"cancel_pending"}

Cancel(id, requestTime) ==
    \E i \in OrderOf(id) :
        /\ CancelAccepted(i)
        /\ orders' = [orders EXCEPT ![i].status = "cancel_pending",
                                    ![i].cancel_due = requestTime + CancelLatency]
        /\ UNCHANGED <<market, fills, ledger, ignored>>

(* The times that callers pass: the clock of the last event plus a delay. *)
CallTimes ==
    IF market = None THEN {} ELSE {market.receive_time + delay : delay \in Delays}

Next ==
    \/ \E event \in Events : OnMarketEvent(event)
    \/ \E request \in Requests, time \in CallTimes : Submit(request, time)
    \/ \E request \in Requests, time \in CallTimes : Cancel(request.id, time)

Spec == Init /\ [][Next]_vars

-----------------------------------------------------------------------------
(* The columns of a fill log, and the fills of one order in it. *)
Quantities(log) == [n \in DOMAIN log |-> log[n].quantity]
SignedQuantities(log) ==
    [n \in DOMAIN log |-> SignedQuantity(log[n].side, log[n].quantity)]
RealizedPnls(log) == [n \in DOMAIN log |-> log[n].realized_pnl]
Fees(log) == [n \in DOMAIN log |-> log[n].fee]

FillsOf(log, i) == {n \in DOMAIN log : log[n].order_id = i}

(* The ledger and the fill log tell the same story: the position is the    *)
(* sum of the signed fills, realised profit and fees are the sums of what   *)
(* the fills report.                                                       *)
LedgerMatchesFills ==
    /\ ledger.position = SumFunction(SignedQuantities(fills))
    /\ ledger.realized_pnl = SumFunction(RealizedPnls(fills))
    /\ ledger.total_fee = SumFunction(Fees(fills))

(* Every order accounts for its quantity: what was filled is what the fill  *)
(* log holds for it, filled and remaining add up until a cancellation       *)
(* forfeits the rest, and the status says which of the two is left.         *)
QuantitiesConserved ==
    \A i \in DOMAIN orders :
        LET order == orders[i]
        IN  /\ order.filled = SumFunctionOnSet(Quantities(fills), FillsOf(fills, i))
            /\ order.filled >= 0 /\ order.remaining >= 0 /\ order.queue_ahead >= 0
            /\ order.status = "cancelled" => order.remaining = 0
            /\ order.status # "cancelled" =>
                   order.filled + order.remaining = order.request.quantity
            /\ order.status = "filled" <=>
                   order.filled = order.request.quantity
            /\ order.status = "partially_filled" => order.filled > 0
            /\ order.status \in {"pending", "open"} => order.filled = 0

(* A fill is booked in the log, in the ledger and in its order, and may be     *)
(* refused half way (paper_exchange.cpp, fill): after any run of partial       *)
(* fills, cancellations and refusals the three agree.                        *)
FillsAccounted == LedgerMatchesFills /\ QuantitiesConserved

(* A filled, cancelled or rejected order is never touched again, by an      *)
(* event, a late trade or a second cancellation; and the history of orders  *)
(* and fills only grows.                                                   *)
TerminalOrdersFrozen ==
    [][ /\ \A i \in DOMAIN orders :
              /\ i \in DOMAIN orders'
              /\ orders'[i].request = orders[i].request
              /\ orders[i].status \in Terminal => orders'[i] = orders[i]
        /\ \A n \in DOMAIN fills : n \in DOMAIN fills' /\ fills'[n] = fills[n]
      ]_vars

NewFills == DOMAIN fills' \ DOMAIN fills

(* Fills are causal: an order trades only on an event that arrived at or    *)
(* after its activation time, never against the book it was decided on      *)
(* when there is latency, and the fill names that event.  So an event that   *)
(* is delivered again fills nothing (TODO.md, "Reprocessing an event cannot  *)
(* create a duplicate logical order or fill").                              *)
NoFillBeforeActive ==
    [][ \A n \in NewFills :
          LET fill == fills'[n]
          IN  /\ fill.market_sequence = market'.sequence
              /\ market'.receive_time >= orders'[fill.order_id].active_time
              /\ AckLatency > 0 => fill.order_id \in DOMAIN orders /\ market' # market
      ]_vars

(* Maker fills are no better than the tape allows: within one event they    *)
(* use up at most the traded volume, only an order with no queue left in    *)
(* front of it trades, at its own limit, and on the other side of the       *)
(* aggressor.                                                              *)
MakerFillsRespectTape ==
    [][ LET makers == {n \in NewFills : fills'[n].maker}
        IN  /\ makers # {} =>
                  SumFunctionOnSet(Quantities(fills'), makers) <= market'.trade_quantity
            /\ \A n \in makers :
                  LET order == orders'[fills'[n].order_id]
                  IN  /\ order.queue_ahead = 0
                      /\ fills'[n].price = order.request.limit_price
                      /\ order.request.side # market'.aggressor
      ]_vars

(* An order never trades at a price worse than its limit, and a post-only   *)
(* order never takes.                                                      *)
LimitsHonoured ==
    \A n \in DOMAIN fills :
        LET fill == fills[n]
            request == orders[fill.order_id].request
        IN  request.type # "market" =>
               /\ fill.side = "buy" => fill.price <= request.limit_price
               /\ fill.side = "sell" => fill.price >= request.limit_price
               /\ request.type = "post_only" => fill.maker

(* A cancellation takes its latency: an order becomes cancelled only on an  *)
(* event received at or after the due time, and no order whose cancellation *)
(* is due and pending outlives such an event.                              *)
CancelTiming ==
    [][ \A i \in DOMAIN orders :
          /\ orders'[i].status = "cancelled" /\ orders[i].status # "cancelled" =>
                 market' # market /\ market'.receive_time >= orders[i].cancel_due
          /\ market' # market /\ orders'[i].status = "cancel_pending" =>
                 market'.receive_time < orders[i].cancel_due
      ]_vars

(* The position stays within the configured limit.  This is a property of    *)
(* orders that execute when they are accepted (no latency, decided at the    *)
(* receive time of the last event): the check counts the position but not    *)
(* the orders that are still working.                                       *)
PositionWithinLimit ==
    MaxPosition > 0 => Magnitude(ledger.position) <= MaxPosition

(* A reduce-only order that executes at once leaves a smaller position on    *)
(* the same side, whatever its quantity becomes when it is rounded to steps. *)
ReduceOnlyShrinks ==
    [][ \A n \in NewFills :
          orders'[fills'[n].order_id].request.reduce_only =>
              /\ Magnitude(ledger'.position) < Magnitude(ledger.position)
              /\ ledger'.position # 0 => Sign(ledger'.position) = Sign(ledger.position)
      ]_vars

(* The claim of the test "paper exchange cancellation is delayed and        *)
(* idempotent" for every interleaving: once a cancellation is accepted the  *)
(* order stays cancel_pending until it ends, so a second request is refused. *)
CancellationIdempotent ==
    \A i \in DOMAIN orders :
        orders[i].cancel_due # None =>
            orders[i].status \in Terminal \cup {"cancel_pending"}
=============================================================================
