--------------------------- MODULE MCCalibration ---------------------------
(* An instance of Calibration: sixteen rows at the ends of the periods, and      *)
(* stand-ins for the model and the two ways of executing it.                   *)
EXTENDS Calibration
LOCAL INSTANCE SequencesExt

(* Six rows of the first period, five of the second, five of the third: the     *)
(* first and the last of it and of its parts; and one after it.                *)
Times == <<1735689600, 1735689660, 1735689720, 1735689780, 1751327880, 1751327940,
           1751328000, 1751328060, 1751328120, 1767225480, 1767225540,
           1767225600, 1775001540, 1775001600, 1782864000, 1788220740, 1788220800>>

(* Prices as the steps between rows, and how far a price reaches back. *)
PricesOf(steps) ==
    LET price[i \in 1 .. Len(Times)] == IF i = 1 THEN 100 ELSE price[i - 1] + steps[i]
    IN  price

MCMove(from, to) == to - from

(* A sample for each row that reaches back, but for the last, labelled by the    *)
(* step to the next row, which is the same one on the first day of the holdout.  *)
SampleOf(price, i) ==
    [time |-> Times[i], sequence |-> i,
     features |-> [ret |-> MCMove(price[i - 2], price[i]),
                   vol |-> LET a == MCMove(price[i - 2], price[i - 1])
                               b == MCMove(price[i - 1], price[i])
                           IN  IF a < b THEN b - a ELSE a - b],
     label |-> CASE price[i + 1] > price[i] -> "long" [] price[i + 1] < price[i] -> "short"
                 [] OTHER -> "hold"]

FileOf(steps) ==
    LET price == PricesOf(steps)
    IN  [rows |-> [i \in DOMAIN Times |-> [time |-> Times[i], price |-> price[i]]],
         samples |-> [i \in 1 .. 14 |-> SampleOf(price, i + 2)]]

Early == {<<0, 1, 1, -1, -1, 2>>, <<0, 2, -2, -2, 3, 3>>, <<0, 0, 0, 1, 1, 1>>, <<0, -1, -1, 3, -1, 0>>}
Middle == {<<1, 1, -2, 1, 2>>, <<2, -1, -1, -3, 1>>, <<0, 3, 3, -1, -1>>}
Late == {<<1, 1, 1, 1, 1, 1>>, <<1, -3, 2, 2, -1, 1>>, <<1, 0, 4, -4, 4, 0>>}

(* One of the inputs has samples of the holdout only, one has none of it, and   *)
(* one has none of the second period.                                       *)
MCFiles ==
    LET whole == FileOf(<<0, 1, 1, -1, -1, 2, 1, 1, -2, 1, 2, 1, 1, 1, 1, 1, 1>>)
    IN  {FileOf(early \o middle \o late) : early \in Early, middle \in Middle, late \in Late}
        \cup {[whole EXCEPT !.samples = SubSeq(@, 10, 14)], [whole EXCEPT !.samples = SubSeq(@, 1, 9)],
             [whole EXCEPT !.samples = SubSeq(@, 1, 4) \o SubSeq(@, 10, 14)]}

(* More sure the more of the rows fitted to moved on in one direction after a    *)
(* return like this one, less sure at a high temperature.                     *)
MCPredict(lesson, features, temperature) ==
    LET sign(number) == IF number > 0 THEN 1 ELSE IF number < 0 THEN -1 ELSE 0
        like(pair) == sign(pair[1].ret) = sign(features.ret)
        votes(label) == Len(SelectSeq(lesson, LAMBDA pair : like(pair) /\ pair[2] = label))
        lead == votes("long") - votes("short")
        sure == 350000 + ((IF lead < 0 THEN -lead ELSE lead) * 3000000) \div temperature
                  + 20000 * features.vol
    IN  IF lead >= 0 THEN <<900000 - sure, sure, 100000>> ELSE <<900000 - sure, 100000, sure>>

MCLoss(probabilities) ==
    LET total[i \in 0 .. Len(probabilities)] ==
            IF i = 0 THEN 0 ELSE total[i - 1] + Million - probabilities[i]
    IN  total[Len(probabilities)]

(* The gain of holding what was decided on the row before, less the costs. *)
Account(moves, positions, costs) ==
    LET held(i) == IF i < 1 THEN 0 ELSE positions[i]
        changes == {i \in DOMAIN moves : held(i) # held(i - 1)}
        gain[i \in 0 .. Len(moves)] == IF i = 0 THEN 0 ELSE gain[i - 1] + held(i) * moves[i]
    IN  [gain |-> 1000 * gain[Len(moves)] - (costs[1] + costs[2]) * Cardinality(changes),
         fills |-> Cardinality(changes)]

SideOf(action) == CASE action = "long" -> 1 [] action = "short" -> -1 [] OTHER -> 0

MCExecution(taken, tape, costs, gate) ==
    LET line(sequence) == {i \in DOMAIN tape : tape[i].sequence = sequence}
        decision(sequence) ==
            IF line(sequence) = {} THEN "hold"
            ELSE LET i == CHOOSE n \in line(sequence) : TRUE
                 IN  IF tape[i].probability < gate THEN "hold" ELSE tape[i].action
        places == [i \in DOMAIN taken |-> CHOOSE n \in DOMAIN Times : Times[n] = taken[i].time]
        position[i \in 0 .. Len(taken)] ==
            IF i = 0 THEN 0
            ELSE IF decision(places[i]) = "hold" THEN position[i - 1]
            ELSE SideOf(decision(places[i]))
        moves == [i \in 1 .. Len(taken) - 1 |-> MCMove(taken[i].price, taken[i + 1].price)]
        account == Account(moves, [i \in DOMAIN moves |-> position[i]], costs)
    IN  [return_ppm |-> account.gain \div 100, fills |-> account.fills,
         profit_factor |-> IF account.gain > 0 THEN 1 + (account.gain % 10) ELSE 0]

MCSimulation(taken, rows, actions, costs) ==
    LET moves == [i \in 1 .. IF rows = <<>> THEN 0 ELSE Len(rows) - 1 |->
                     MCMove(taken[rows[i].sequence].price, taken[rows[i + 1].sequence].price)]
        account == Account(moves, [i \in DOMAIN moves |-> SideOf(actions[i])], costs)
    IN  [return_ppm |-> account.gain \div 100, fills |-> account.fills]
=============================================================================
