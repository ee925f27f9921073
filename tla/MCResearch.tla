----------------------------- MODULE MCResearch -----------------------------
(* Instances of Research.  A minute lasts four units and has two bars of two;   *)
(* the rows of the file are those of nine minutes of two months, with a gap.    *)
(* The file ends within the ninth; a tenth comes after its end.               *)
EXTENDS Research

(* Three trades in each minute, in both of its bars, the last at its closing     *)
(* price.  The last trade of minute 10 comes after EndTime.                    *)
TradesOf(minute, close) ==
    <<[id |-> 4 * minute + 1, time |-> 4 * minute + 1, price |-> 100, quantity |-> 1, buyer |-> FALSE],
      [id |-> 4 * minute + 2, time |-> 4 * minute + 2, price |-> 101, quantity |-> 1, buyer |-> TRUE],
      [id |-> 4 * minute + 3, time |-> 4 * minute + 3, price |-> close, quantity |-> 2, buyer |-> TRUE]>>

Archive(month, day, minutes, closes) ==
    [month |-> month, day |-> day,
     trades |-> FlattenSeq([i \in DOMAIN minutes |-> TradesOf(minutes[i], closes[minutes[i]])])]

(* A month before the period wanted; then either a second month in one archive  *)
(* or its days, and the last day of the first month beside the whole month.     *)
MCDirectories ==
    UNION {{<<Archive(0, 0, <<0>>, closes), Archive(1, 0, <<1, 2, 3, 4, 5, 6>>, closes),
              Archive(2, 0, <<7, 9, 10, 11>>, closes)>>,
            <<Archive(0, 0, <<0>>, closes), Archive(1, 6, <<6>>, closes),
              Archive(1, 0, <<1, 2, 3, 4, 5, 6>>, closes),
              Archive(2, 7, <<7>>, closes), Archive(2, 9, <<9, 10, 11>>, closes)>>} :
           closes \in {f \in [0 .. 11 -> {94, 107}] : \A i \in {0, 8, 10, 11} : f[i] = 94}}

ASSUME InstanceInOrder == DirectoriesInOrder

(* SPLITS, which begin after the first row that has all lookbacks and in which   *)
(* the last period begins after a gap; and COSTS.                             *)
MCPeriods == [development_train |-> <<16, 24>>, development_validation |-> <<28, 28>>,
              holdout_2026 |-> <<36, 42>>]
MCCosts == {<<5, 1>>, <<10, 20>>}
MCBase == <<5, 1>>
=============================================================================
