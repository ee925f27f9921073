---------------------------- MODULE MCLiveTrader ----------------------------
(* Instances of LiveTrader for TLC. *)
EXTENDS LiveTrader

Quote(sequence, offset, bid, bid_quantity) ==
    [sequence |-> sequence, exchange_time |-> 10 * sequence - offset,
     receive_time |-> 10 * sequence, best_bid |-> bid, best_ask |-> bid + 1,
     bid_quantity |-> bid_quantity, ask_quantity |-> 2,
     trade_price |-> None, trade_quantity |-> 0, aggressor |-> None]

(* Quotes at two prices, the one with the lighter bid and the other with the  *)
(* heavier one, received with no, a small and a large delay; and a trade       *)
(* that is reported before there is any quote.                              *)
MCEvents ==
    {Quote(sequence, offset, b[1], b[2]) :
        sequence \in 1 .. MaxSequence, offset \in {1, 2, 4}, b \in {<<10, 1>>, <<14, 3>>}}
      \cup {[Quote(1, 1, 0, 0) EXCEPT !.trade_price = 10, !.trade_quantity = 1,
                                      !.aggressor = "buy", !.best_ask = 0]}

MCOutcomes ==
    {[action |-> "long", confident |-> TRUE, succeeded |-> TRUE],
     [action |-> "short", confident |-> TRUE, succeeded |-> TRUE],
     [action |-> "short", confident |-> FALSE, succeeded |-> TRUE],
     [action |-> "hold", confident |-> TRUE, succeeded |-> FALSE]}
=============================================================================
