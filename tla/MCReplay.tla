------------------------------ MODULE MCReplay ------------------------------
(* Instances of Replay for TLC. *)
EXTENDS Replay

Row(sequence, time, bid, bid_quantity) ==
    [sequence |-> sequence, time |-> time, best_bid |-> bid, best_ask |-> bid + 1,
     bid_quantity |-> bid_quantity, ask_quantity |-> 2]

(* Rows at two prices with the flow for, against and even, at the time of     *)
(* their sequence or one unit later, which may be that of the next row; and a *)
(* crossed row.                                                            *)
MCRows ==
    {Row(sequence, sequence + late, b[1], b[2]) :
        sequence \in 1 .. 5, late \in {0, 1}, b \in {<<10, 0>>, <<14, 2>>, <<14, 6>>}}
    \cup {[Row(3, 3, 10, 2) EXCEPT !.best_ask = 9]}

(* A tape with a correction, one that decides on every row and is once below  *)
(* the threshold, and two that do not load.                                 *)
MCTapeFiles ==
    {<<<<1, "long", 600000>>, <<3, "long", 600000>>, <<3, "short", 900000>>>>,
     <<<<1, "short", 600000>>, <<2, "short", 0>>, <<3, "long", 550000>>, <<4, "hold", 600000>>>>,
     <<>>, <<<<1, "buy", 600000>>>>}
=============================================================================
