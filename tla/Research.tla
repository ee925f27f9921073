------------------------------ MODULE Research ------------------------------
(***************************************************************************)
(* The report program (ModelReport) run on the file that is built from a      *)
(* directory of archives (MarketData), and the samples that the other         *)
(* programs load, cut from the same archives (TickSamples).                   *)
(***************************************************************************)
EXTENDS TickSamples

CONSTANT Directories        \* the directories that are tried

VARIABLE directory

researchVars == <<directory, reportVars>>

ResearchInit ==
    /\ directory \in Directories
    /\ ReportInit(ReplayRows(directory))

ResearchNext == ReportNext /\ UNCHANGED directory

ResearchSpec == ResearchInit /\ [][ResearchNext]_researchVars

-----------------------------------------------------------------------------
(* What the programs take for granted of a directory of archives. *)

Trades == [id : Nat, time : Nat, price : Nat \ {0, 1}, quantity : Nat, buyer : BOOLEAN]

Archives == [month : Int, day : Nat, trades : Seq(Trades)]

(* Trades are in the order of time, each of them once. *)
ArchiveInOrder(archive) ==
    \A i, j \in DOMAIN archive.trades :
        i < j => /\ archive.trades[i].time <= archive.trades[j].time
                 /\ archive.trades[i].id # archive.trades[j].id

(* Of the archives that count, each ends with a minute before the next begins,   *)
(* days come after the months, and only wanted months have trades in range.     *)
ArchivesInOrder(input) ==
    /\ \A i, j \in Counted(input) :
          /\ i < j => \A a \in ToSet(input[i].trades), b \in ToSet(input[j].trades) :
                         a.time \div MinuteLength < b.time \div MinuteLength
          /\ IsMonthly(input[j]) /\ ~IsMonthly(input[i]) => j < i
    /\ \A i \in Counted(input) : \A trade \in ToSet(input[i].trades) :
          InFile(trade.time) => input[i].month \in WantedMonths

(* The archive of a month has what those of its days have. *)
MonthsComplete(input) ==
    \A i \in DOMAIN input : \A trade \in ToSet(input[i].trades) :
        \E j \in Counted(input) : trade \in ToSet(input[j].trades)

DirectoriesInOrder ==
    \A input \in Directories :
        /\ input \in Seq(Archives)
        /\ \A i \in DOMAIN input : ArchiveInOrder(input[i])
        /\ ArchivesInOrder(input) /\ MonthsComplete(input)

-----------------------------------------------------------------------------
(* The rows are in the order of time, which load_samples and the replay rely   *)
(* on, and their quotes have two sides, as parse_row demands.                  *)
RowsUsable ==
    /\ \A i \in 1 .. Len(rows) - 1 : rows[i].time < rows[i + 1].time
    /\ \A i \in DOMAIN rows :
          /\ 0 < rows[i].bid /\ rows[i].bid < rows[i].ask
          /\ rows[i].bid_quantity > 0 /\ rows[i].ask_quantity > 0

(* "So August 2026 is not double counted" (build_btc_tick_features.py): every    *)
(* trade of the directory is in the bars once.                               *)
TradesCountedOnce ==
    LET bars == Bars(directory)
        trades == UNION {ToSet(directory[i].trades) : i \in DOMAIN directory}
    IN  SumFunction([trade \in trades |-> trade.price * trade.quantity])
          = SumFunction([i \in DOMAIN bars |-> bars[i].buy + bars[i].sell])

(* A minute that the file has all trades of: it ends within one, at 23:59:59.    *)
WholeMinute(time) == StartTime <= time /\ time + MinuteLength - 1 <= EndTime

(* Both ways of counting give the same minutes and count each trade once: a     *)
(* sample made from bars is joined with one row of the replay, that row has its *)
(* close and its flow, and no row is left over, although months and days         *)
(* overlap and bars were cut at other places.                                *)
PipelinesAgree ==
    index = Warmup + 1 =>
        LET minutes == MinutesOfBars(directory)
        IN  /\ RowsUsable
            /\ TradesCountedOnce
            /\ \A i \in DOMAIN minutes :
                  WholeMinute(minutes[i].time) =>
                      /\ Cardinality(JoinedRows(rows, minutes[i])) = 1
                      /\ \A j \in JoinedRows(rows, minutes[i]) : rows[j] = RowOf(minutes[i])
            /\ \A j \in DOMAIN rows : \E i \in DOMAIN minutes : minutes[i].time = rows[j].time

(* The file with other prices, half or twice as high, where free(time). *)
Repriced(free(_)) ==
    LET half(row) == [row EXCEPT !.bid = @ \div 2, !.ask = @ \div 2]
        twice(row) == [row EXCEPT !.bid = 2 * @, !.ask = 2 * @]
    IN  {[i \in DOMAIN rows |-> IF free(rows[i].time) THEN half(rows[i]) ELSE rows[i]],
         [i \in DOMAIN rows |-> IF free(rows[i].time) THEN twice(rows[i]) ELSE rows[i]]}

(* Features do not look ahead: they would be the same whatever came after     *)
(* the row of the sample (TODO.md, "Prevent future data leakage in rolling   *)
(* features, labels, queue state, and fills"), and so would the directional   *)
(* features that the baseline adds to a sample of that row.                  *)
FeaturesCausal ==
    samples # <<>> =>
        LET sample == samples[Len(samples)]
            later(time) == time > rows[sample.index].time
        IN  \A file \in Repriced(later) :
                /\ Features(file, sample.index) = sample.features
                /\ DirectionalFeatures(file, sample.index)
                     = DirectionalFeatures(rows, sample.index)

(* The programs that label agree on what a label is.  The label a sample was   *)
(* cut with, from closes of minutes, is the one the baseline gives it when it  *)
(* labels samples again, from the row it was joined with.  And each cell of    *)
(* the label grid has the counts of the labels that the baseline would give    *)
(* for the horizon and the margin of the cell, but for a round trip of twice    *)
(* the round_trip_cost_bps that the cell reports; the samples that the          *)
(* baseline holds because the file ends are in no count.                       *)
LabelsAgree ==
    index = Warmup + 1 =>
        LET loaded == Loaded(rows, TickSamples(MinutesOfBars(directory)))
            labelled(horizon) == {sample \in loaded : sample.sequence + horizon <= Len(rows)}
            relabelled(sample, horizon, cost, margin) ==
                Relabel(rows, sample.sequence, horizon, cost, margin)
        IN  /\ \A sample \in labelled(Horizon) :
                  WholeMinute(rows[sample.sequence + Horizon].time) =>
                      relabelled(sample, Horizon, RoundTrip, SafetyMargin) = sample.label
            /\ \A horizon \in GridHorizons, cost \in GridCosts, margin \in GridMargins,
                  split \in DOMAIN Periods, label \in {"hold", "long", "short"} :
                  GridCount(rows, loaded, split, label, horizon, cost, margin)
                    = Cardinality({sample \in labelled(horizon) :
                          /\ sample.split = split
                          /\ relabelled(sample, horizon, 2 * cost, margin) = label})

(* The holdout is untouched: the labels that the model, its temperature and   *)
(* its threshold are chosen with do not depend on rows of the last period     *)
(* (run_btc_model_oos_report.py, "no model or threshold choice uses it").     *)
HoldoutUntouched ==
    samples # <<>> =>
        LET sample == samples[Len(samples)]
            held(time) == "holdout_2026" \in PeriodsOf(time)
        IN  sample.period # "holdout_2026" =>
                \A file \in Repriced(held) : Label(file, sample.index) = sample.label

=============================================================================
