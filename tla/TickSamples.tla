----------------------------- MODULE TickSamples -----------------------------
(***************************************************************************)
(* Samples cut from the minutes of the bars, and the three places where a    *)
(* label is computed for one:                                              *)
(*                                                                         *)
(*   build_btc_laya_tick_samples.py   features and label from minutes         *)
(*   run_btc_tick_baseline_oos.py     loads samples, may label them again     *)
(*                                    and add features, from replay rows     *)
(*   diagnose_btc_tick_label_grid.py  counts labels over horizons and costs   *)
(*                                                                         *)
(* As in ModelReport an index is one more than in the scripts, and a          *)
(* logarithmic return is known by its two prices.  Prices are compared as     *)
(* fractions, without rounding.                                            *)
(***************************************************************************)
EXTENDS ModelReport, MarketData

CONSTANTS
    SamplesEnd,         \* 2026-09-15, where the samples end
    HoldoutEnd,         \* 2026-09-01, where those that are loaded end
    BasisParts,         \* 10'000
    RoundTrip,          \* 12 basis points
    SafetyMargin,       \* 2 basis points
    FlowWindow,         \* 5
    TrendLookbacks,     \* {120, 240}
    EfficiencyLookbacks,\* {60, 240}
    GridHorizons,       \* {15, 30, 60, 120, 240}
    GridCosts,          \* {8, 12, 20, 30} basis points
    GridMargins         \* {0, 2, 5} basis points

ASSUME TickAssumption ==
    /\ {BasisParts, FlowWindow} \subseteq Nat \ {0}
    /\ {RoundTrip, SafetyMargin} \subseteq Nat
    /\ FlowWindow <= Warmup
    /\ TrendLookbacks \cup EfficiencyLookbacks \subseteq Nat \ {0}
    /\ HoldoutEnd <= SamplesEnd
    /\ GridHorizons \cup GridCosts \cup GridMargins \subseteq Nat

(* split of both scripts, sample_split and load_external_samples: half-open     *)
(* intervals that begin where the periods of the report begin.               *)
SplitOf(time, end) ==
    IF time < Periods["development_train"][1] \/ time >= end THEN "none"
    ELSE IF time < Periods["development_validation"][1] THEN "development_train"
    ELSE IF time < Periods["holdout_2026"][1] THEN "development_validation"
    ELSE "holdout_2026"

(* The edge of going from one price to the other exceeds cost and margin. *)
Pays(from, to, cost, margin) == to * BasisParts > from * (BasisParts + cost + margin)

LabelOf(now, then, cost, margin) ==
    CASE Pays(now, then, cost, margin) /\ then >= now -> "long"
      [] Pays(then, now, cost, margin) -> "short"
      [] OTHER -> "hold"

-----------------------------------------------------------------------------
(* build_btc_laya_tick_samples.py *)

TickFeatures(minutes, at) ==
    [returns |-> [lookback \in Lookbacks |-> <<minutes[at - lookback].close, minutes[at].close>>],
     window |-> [offset \in 0 .. Warmup - 1 |->
                    <<minutes[at - offset - 1].close, minutes[at - offset].close>>],
     flow |-> [offset \in 0 .. FlowWindow - 1 |->
                    <<minutes[at - offset].buy, minutes[at - offset].sell>>],
     trades |-> MapThenSumSet(LAMBDA offset : minutes[at - offset].trades, 0 .. FlowWindow - 1),
     spread |-> <<minutes[at].high - minutes[at].low, minutes[at].close>>]

TickSample(minutes, at) ==
    [time |-> minutes[at].time, features |-> TickFeatures(minutes, at),
     label |-> LabelOf(minutes[at].close, minutes[at + Horizon].close, RoundTrip, SafetyMargin)]

TickSampleAt(minutes, at) ==
    /\ at > Warmup /\ at <= Len(minutes) - Horizon /\ (at - Warmup - 1) % Stride = 0
    /\ SplitOf(minutes[at].time, SamplesEnd) # "none"

TickSamples(minutes) ==
    {TickSample(minutes, at) : at \in {i \in DOMAIN minutes : TickSampleAt(minutes, i)}}

-----------------------------------------------------------------------------
(* run_btc_tick_baseline_oos.py *)

(* load_samples: samples outside the splits or without a row are left out, and  *)
(* of rows with one time the last counts.                                    *)
Loaded(file, cut) ==
    {[split |-> SplitOf(sample.time, HoldoutEnd), sequence |-> Max(JoinedRows(file, sample)),
      features |-> sample.features, label |-> sample.label] :
        sample \in {s \in cut : /\ SplitOf(s.time, HoldoutEnd) # "none"
                                /\ JoinedRows(file, s) # {}}}

(* Mutant of RowOfSequence: a sequence is taken for an index. *)
RowAfterSequence(file, sequence) == sequence + 1

(* Sequences are the places of rows, beginning at one. *)
RowOfSequence(file, sequence) == sequence

(* relabel: a row too near the end of the file is a hold. *)
Relabel(file, sequence, horizon, cost, margin) ==
    LET at == RowOfSequence(file, sequence)
    IN  IF at + horizon > Len(file) THEN "hold"
        ELSE LabelOf(Mid(file[at]), Mid(file[at + horizon]), cost, margin)

(* add_directional_features: zero, which is no pair, as long as the file does  *)
(* not reach back.                                                         *)
DirectionalFeatures(file, sequence) ==
    LET at == RowOfSequence(file, sequence)
        since(lookback) == IF at > lookback THEN Return(file, at, lookback) ELSE <<>>
        path(lookback) ==
            IF at > lookback THEN [offset \in 0 .. lookback - 1 |-> Return(file, at - offset, 1)]
            ELSE <<>>
    IN  [returns |-> [lookback \in TrendLookbacks |-> since(lookback)],
         efficiency |-> [lookback \in EfficiencyLookbacks |-> <<since(lookback), path(lookback)>>]]

-----------------------------------------------------------------------------
(* diagnose_btc_tick_label_grid.py *)

(* The cost that the grid takes off a return for the round_trip_cost_bps that   *)
(* it reports.                                                              *)
GridCost(cost) == 2 * cost

GridLabel(now, then, cost, margin) ==
    IF ~Pays(now, then, cost, margin) /\ ~Pays(then, now, cost, margin) THEN "hold"
    ELSE IF then >= now THEN "long" ELSE "short"

(* One count of a cell: how many samples of a split have a label.  Samples       *)
(* too near the end of the file are not counted.                             *)
GridCount(file, loaded, split, label, horizon, cost, margin) ==
    Cardinality({sample \in loaded :
        /\ sample.split = split
        /\ sample.sequence + horizon <= Len(file)
        /\ GridLabel(Mid(file[sample.sequence]), Mid(file[sample.sequence + horizon]),
                     GridCost(cost), margin) = label})

=============================================================================
