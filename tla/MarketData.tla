----------------------------- MODULE MarketData -----------------------------
(***************************************************************************)
(* The two ways from archives of trades to one record for each minute:       *)
(*                                                                         *)
(*   build_btc_replay_csv.py       trades -> minutes -> rows of the replay    *)
(*   build_btc_tick_features.py    trades -> bars of five seconds             *)
(*   build_btc_laya_tick_samples.py  bars -> minutes, for the samples          *)
(*                                                                         *)
(* A directory is the sequence of its archives in the order of their names:   *)
(* a month, a day of it or zero for the whole month, and trades.  A trade has  *)
(* an id, a time, a price in price units (two decimals, so the conversion is   *)
(* exact), a quantity, and whether the buyer was the aggressor.  Decimal and   *)
(* floating-point sums are sums.                                            *)
(***************************************************************************)
EXTENDS Integers, SequencesExt, Filter

CONSTANTS
    MinuteLength,       \* 60'000
    BarLength,          \* 5'000
    StartTime, EndTime, \* START_MS, END_MS
    WantedMonths,       \* those with 2025 or 2026 in the name of the archive
    SpreadParts,        \* 100'000: the half spread is one part of the price
    Unit,               \* 1'000'000
    ImbalanceCap        \* 900'000

ASSUME DataAssumption ==
    /\ {MinuteLength, BarLength, Unit} \subseteq Nat \ {0}
    /\ SpreadParts \in Nat \ {0, 1}
    /\ MinuteLength % BarLength = 0
    /\ {StartTime, EndTime} \subseteq Nat \ {0}
    /\ StartTime % MinuteLength = 0
    /\ ImbalanceCap \in 0 .. Unit - 1

IsMonthly(archive) == archive.day = 0

MonthlyMonths(directory) ==
    {directory[i].month : i \in {j \in DOMAIN directory : IsMonthly(directory[j])}}

(* A daily archive counts if there is none for its month. *)
Uncovered(directory, archive) ==
    ~IsMonthly(archive) /\ archive.month \notin MonthlyMonths(directory)

(* archive_paths: the months, then the days. *)
ReplayArchives(directory) ==
    LET wanted == {i \in DOMAIN directory : directory[i].month \in WantedMonths}
    IN  Chosen(directory, {i \in wanted : IsMonthly(directory[i])})
            \o Chosen(directory, {i \in wanted : Uncovered(directory, directory[i])})

Counted(directory) ==
    {i \in DOMAIN directory : IsMonthly(directory[i]) \/ Uncovered(directory, directory[i])}

(* Mutant of BarArchives: the days of a month are read beside its archive. *)
EveryArchive(directory) == directory

(* selected_archives: months and days in the order of the names. *)
BarArchives(directory) == Chosen(directory, Counted(directory))

Value(trade, buyer) == IF trade.buyer = buyer THEN trade.price * trade.quantity ELSE 0

Notional(trades, buyer) == SumFunction([i \in DOMAIN trades |-> Value(trades[i], buyer)])

-----------------------------------------------------------------------------
(* build_btc_replay_csv.py *)

Bucket(time, length) == (time \div length) * length

InFile(time) == StartTime <= time /\ time <= EndTime

(* The trades of an archive that are in a minute and in range. *)
TradesOfMinute(archive, number) ==
    {i \in DOMAIN archive.trades :
        InFile(archive.trades[i].time) /\ archive.trades[i].time \div MinuteLength = number}

MinuteOf(archive, number) ==
    LET trades == Chosen(archive.trades, TradesOfMinute(archive, number))
    IN  [time |-> number * MinuteLength, close |-> Last(trades).price,
         buy |-> Notional(trades, TRUE), sell |-> Notional(trades, FALSE)]

(* aggregate: the minutes of an archive that have trades, in their order. *)
Minutes(archive) ==
    LET numbers == Places(EndTime \div MinuteLength,
                          {n \in 1 .. EndTime \div MinuteLength : TradesOfMinute(archive, n) # {}})
    IN  [n \in DOMAIN numbers |-> MinuteOf(archive, numbers[n])]

(* Rounded half up, which for a negative quotient is away from zero. *)
RoundedQuotient(value, parts) ==
    IF value >= 0 THEN (2 * value + parts) \div (2 * parts)
    ELSE -((-2 * value + parts) \div (2 * parts))

Imbalance(minute) ==
    LET total == minute.buy + minute.sell
        exact == IF total > 0 THEN RoundedQuotient((minute.buy - minute.sell) * Unit, total) ELSE 0
    IN  IF exact > ImbalanceCap THEN ImbalanceCap
        ELSE IF exact < -ImbalanceCap THEN -ImbalanceCap ELSE exact

(* write_stream: a quote around the close. *)
RowOf(minute) ==
    LET part == minute.close \div SpreadParts
        half == IF part < 1 THEN 1 ELSE part
    IN  [time |-> minute.time, bid |-> minute.close - half, ask |-> minute.close + half,
         bid_quantity |-> Unit + Imbalance(minute), ask_quantity |-> Unit - Imbalance(minute)]

(* Sequences are the places in the file. *)
RowsOf(archive) ==
    LET minutes == Minutes(archive) IN [i \in DOMAIN minutes |-> RowOf(minutes[i])]

ReplayRows(directory) ==
    LET archives == ReplayArchives(directory)
    IN  FlattenSeq([i \in DOMAIN archives |-> RowsOf(archives[i])])

-----------------------------------------------------------------------------
(* build_btc_tick_features.py and build_btc_laya_tick_samples.py: consecutive   *)
(* records of one bucket are one bar, which is written when the next begins    *)
(* or the input ends.                                                       *)

Merged(bars, bar) ==
    IF bars # <<>> /\ Last(bars).time = bar.time
    THEN LET open == Last(bars)
         IN  [bars EXCEPT ![Len(bars)] =
                    [bar EXCEPT !.buy = @ + open.buy, !.sell = @ + open.sell,
                                !.trades = @ + open.trades,
                                !.high = IF @ > open.high THEN @ ELSE open.high,
                                !.low = IF @ < open.low THEN @ ELSE open.low]]
    ELSE Append(bars, bar)

BarOf(trade) ==
    [time |-> Bucket(trade.time, BarLength), close |-> trade.price,
     high |-> trade.price, low |-> trade.price, trades |-> 1,
     buy |-> Value(trade, TRUE), sell |-> Value(trade, FALSE)]

BarsOf(archive) == [i \in DOMAIN archive.trades |-> BarOf(archive.trades[i])]

Bars(directory) ==
    LET archives == BarArchives(directory)
    IN  FoldLeft(Merged, <<>>, FlattenSeq([i \in DOMAIN archives |-> BarsOf(archives[i])]))

(* A bar as a part of its minute. *)
InMinute(bar) == [bar EXCEPT !.time = Bucket(@, MinuteLength)]

MinutesOfBars(directory) ==
    LET bars == Bars(directory)
    IN  FoldLeft(Merged, <<>>, [i \in DOMAIN bars |-> InMinute(bars[i])])

(* load_samples: the row whose time is that of the minute. *)
JoinedRows(file, minute) ==
    {i \in DOMAIN file : file[i].time = minute.time}

=============================================================================
