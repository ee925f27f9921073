--------------------------- MODULE MCPaperExchange ---------------------------
(* Instances of PaperExchange for TLC. *)
EXTENDS PaperExchange, TLC

CONSTANT Ids    \* client ids of the taking instance

Event(sequence, time, bid, ask, price, quantity, aggressor) ==
    [sequence |-> sequence, exchange_time |-> time, receive_time |-> time,
     best_bid |-> bid, best_ask |-> ask, bid_quantity |-> 1, ask_quantity |-> 1,
     trade_price |-> price, trade_quantity |-> quantity, aggressor |-> aggressor]

Request(id, side, type, quantity, limit) ==
    [id |-> id, side |-> side, type |-> type, quantity |-> quantity,
     limit_price |-> limit, reduce_only |-> FALSE]

(* Resting orders.  Two books, one of which lets a bid at the other's best    *)
(* price cross; each bare or with a sell trade that just uses up the queue,   *)
(* fills one order in part, or trades through.  The second and the third      *)
(* event carry the same time.                                               *)
MCRestingEvents ==
    {Event(s, (s + 2) \div 2, b, b + 1, p[1], p[2], p[3]) :
        s \in 1 .. 4, b \in {9, 10},
        p \in {<<None, 0, None>>, <<10, 2, "sell">>, <<9, 4, "sell">>, <<11, 2, "buy">>}}

MCRestingRequests ==
    {Request("a", "buy", "limit", 3, 10), Request("b", "buy", "post_only", 2, 10),
     Request("c", "buy", "limit", 2, 11), Request("d", "sell", "limit", 2, 11)}

MCRestingDelays == {0, 1}

(* Taking orders: market orders of every size against a book that moves,     *)
(* with a quantity step of two, reduce-only orders, and an event that is      *)
(* crossed, one that is received before it happened and one without sequence. *)
MCTakingEvents ==
    {Event(s, s, b, b + 1, None, 0, None) : s \in 1 .. 3, b \in {6, 10}}
        \cup {Event(2, 2, 8, 7, None, 0, None), Event(0, 1, 6, 7, None, 0, None),
              [Event(3, 3, 6, 7, None, 0, None) EXCEPT !.exchange_time = 4]}

MCTakingRequests ==
    {[Request(i, side, "market", quantity, None) EXCEPT !.reduce_only = reducing] :
        i \in Ids, side \in Sides, quantity \in 1 .. 7, reducing \in BOOLEAN}

MCTakingDelays == {0}

MCSymmetry == Permutations(Ids)
=============================================================================
