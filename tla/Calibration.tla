----------------------------- MODULE Calibration -----------------------------
(***************************************************************************)
(* The five programs that fit a model on the first period, choose a          *)
(* candidate on the second and evaluate it on all three:                     *)
(*                                                                         *)
(*   "router"    run_btc_regime_router_oos.py                                *)
(*   "experts"   run_btc_regime_experts_oos.py                               *)
(*   "baseline"  run_btc_tick_baseline_oos.py                                *)
(*   "head"      run_btc_laya_head_oos.py, then attach_cpp_tape_metrics.py    *)
(*   "report"    run_btc_model_oos_report.py                                 *)
(*                                                                         *)
(* The state is what main() of the program holds:                            *)
(*                                                                         *)
(*   program, file  which program runs, on which input: the rows of the       *)
(*             replay file and the samples loaded for them (TickSamples,      *)
(*             ModelReport)                                                *)
(*   phase     "load", "calibrate", "evaluate", "done", "attached", "failed"  *)
(*   learned   regime thresholds, fitted rows and temperature                 *)
(*   scored    the candidates tried so far, each with its figures             *)
(*   selected  the one chosen                                              *)
(*   tapes, results, predictions                                            *)
(*             for each split done: its tape, its metrics for both costs,      *)
(*             and its prediction report                                     *)
(*   periods   the metrics of the parts of the holdout                        *)
(*   attached  those of the head's tapes                                    *)
(*                                                                         *)
(* Times are seconds.  A fitted model is known by the rows it was fitted to;   *)
(* probabilities, thresholds of actions and rates are parts per million, and   *)
(* an efficiency is rounded.  Sums of floating-point numbers are sums.         *)
(***************************************************************************)
EXTENDS Filter, FiniteSetsExt

CONSTANTS
    Programs, Files,    \* the programs and the inputs that are tried
    Lookback,           \* 60 rows of an efficiency
    MinFills,           \* 30: what a candidate needs
    Move(_, _),         \* the logarithmic return between two prices
    Predict(_, _, _),   \* <<hold, long, short>> for the rows fitted to, features, temperature
    Loss(_),            \* the log loss for the probabilities of the labels
    Execution(_, _, _, _),  \* astra_replay (Replay): rows, tape, costs, gate
    Simulation(_, _, _, _)  \* simulate (ModelReport): rows, samples, actions, costs

ASSUME CalibrationAssumption ==
    /\ Programs \subseteq {"router", "experts", "baseline", "head", "report"}
    /\ {Lookback, MinFills} \subseteq Nat \ {0}

VARIABLES program, file, phase, learned, scored, selected, tapes, results, predictions,
          periods, attached

calibrationVars == <<program, file, phase, learned, scored, selected, tapes, results,
                     predictions, periods, attached>>

Million == 1000000

Splits == <<"development_train", "development_validation", "holdout_2026">>

CostsOf == [base |-> <<500, 100>>, stress |-> <<1000, 500>>]

(* From the first to the last second that astra_replay is given for a split. *)
SplitPeriods == [development_train |-> <<1735689600, 1751327999>>,
            development_validation |-> <<1751328000, 1767225599>>,
            holdout_2026 |-> <<1767225600, 1788220799>>]

(* Mutant of SubPeriods: the second quarter begins where the first ends. *)
SubPeriodsShared == <<<<1767225600, 1775001600>>, <<1775001600, 1782863999>>,
                      <<1782864000, 1788220799>>>>

(* holdout_periods: 2026_q1, 2026_q2, 2026_jul_aug. *)
SubPeriods == <<<<1767225600, 1775001599>>, <<1775001600, 1782863999>>,
                <<1782864000, 1788220799>>>>

(* sample_split: half-open intervals between dates. *)
SampleSplit(time) ==
    IF time < 1735689600 \/ time >= 1788220800 THEN "none"
    ELSE IF time < 1751328000 THEN "development_train"
    ELSE IF time < 1767225600 THEN "development_validation"
    ELSE "holdout_2026"

(* The places of the samples of a split. *)
Rows(input, split) ==
    Places(Len(input.samples),
           {i \in DOMAIN input.samples : SampleSplit(input.samples[i].time) = split})

TrainRows(input) == Rows(input, "development_train")

ValidationRows(input) == Rows(input, "development_validation")

-----------------------------------------------------------------------------
(* Regimes, for the router and the experts. *)

UsesRegimes(kind) == kind \in {"router", "experts"}

RoundHalfEven(value, parts) ==
    LET whole == value \div parts
        twice == 2 * (value % parts)
    IN  IF twice > parts \/ (twice = parts /\ whole % 2 = 1) THEN whole + 1 ELSE whole

(* quantile: the value at a place of the sorted list. *)
Quantile(values, percent) ==
    LET place == RoundHalfEven((Len(values) - 1) * percent, 100)
    IN  CHOOSE v \in {values[i] : i \in DOMAIN values} :
            /\ Cardinality({i \in DOMAIN values : values[i] < v}) <= place
            /\ place < Cardinality({i \in DOMAIN values : values[i] <= v})

Size(number) == IF number < 0 THEN -number ELSE number

(* add_efficiency: how much of the way of the last rows was in one direction. *)
EfficiencyOf(prices, sample) ==
    LET step(i) == Size(Move(prices[i - 1], prices[i]))
        way == MapThenSumSet(step, (sample.sequence - Lookback + 1) .. sample.sequence)
    IN  IF way = 0 THEN 0 ELSE (Size(sample.features.ret) * Million) \div way

Efficiency(input, sample) ==
    LET last == sample.sequence
    IN  IF last - 1 < Lookback THEN 0
        ELSE EfficiencyOf([i \in last - Lookback .. last |-> input.rows[i].price], sample)

Efficiencies(input) ==
    [i \in DOMAIN input.samples |-> Efficiency(input, input.samples[i])]

(* Mutant of Fitted: everything is fitted to all rows, later ones included. *)
FittedToAll(input) == [i \in DOMAIN input.samples |-> i]

(* train_rows: what thresholds, means and weights are computed from. *)
Fitted(input) == TrainRows(input)

Thresholds(input, efficiencies) ==
    LET rows == Fitted(input)
        of(values) == [n \in DOMAIN rows |-> values[rows[n]]]
        vols == [i \in DOMAIN input.samples |-> input.samples[i].features.vol]
    IN  [efficiency |-> Quantile(of(efficiencies), 60),
         high_vol |-> Quantile(of(vols), 75), low_vol |-> Quantile(of(vols), 25)]

Regime(efficiency, features, thresholds) ==
    <<IF efficiency < thresholds.efficiency THEN "range"
      ELSE IF features.ret >= 0 THEN "trend_up" ELSE "trend_down",
      IF features.vol >= thresholds.high_vol THEN "high_vol"
      ELSE IF features.vol <= thresholds.low_vol THEN "low_vol" ELSE "mid_vol">>

(* assign_regimes *)
RegimesBy(input, efficiencies, thresholds) ==
    [i \in DOMAIN input.samples |->
        Regime(efficiencies[i], input.samples[i].features, thresholds)]

Regimes(input) ==
    LET efficiencies == Efficiencies(input)
    IN  RegimesBy(input, efficiencies, Thresholds(input, efficiencies))

(* The nine regimes in the order of their names. *)
RegimeOrder ==
    <<<<"range", "high_vol">>, <<"range", "low_vol">>, <<"range", "mid_vol">>,
      <<"trend_down", "high_vol">>, <<"trend_down", "low_vol">>, <<"trend_down", "mid_vol">>,
      <<"trend_up", "high_vol">>, <<"trend_up", "low_vol">>, <<"trend_up", "mid_vol">>>>

-----------------------------------------------------------------------------
(* Candidates, in the order they are tried. *)

ThresholdGrid(kind) ==
    CASE kind = "router" -> <<340000, 360000, 380000, 400000, 420000, 450000, 500000>>
      [] kind \in {"experts", "baseline"} ->
            <<340000, 360000, 380000, 400000, 420000, 450000, 500000, 550000, 600000>>
      [] kind \in {"head", "report"} ->
            <<400000, 450000, 500000, 550000, 600000, 650000, 700000>>

(* The gates of the router: all regimes, each of them, and those of one kind.   *)
GateNames ==
    <<<<"all">>>> \o RegimeOrder \o <<<<"trend">>, <<"range">>, <<"high_vol">>, <<"low_vol">>>>

AllowedBy(name, present) ==
    CASE name = <<"all">> -> present
      [] name = <<"trend">> -> {regime \in present : regime[1] \in {"trend_up", "trend_down"}}
      [] name \in {<<"range">>, <<"high_vol">>, <<"low_vol">>} ->
            {regime \in present : name[1] \in {regime[1], regime[2]}}
      [] OTHER -> {name}

(* They are made for the regimes of all rows, later ones included. *)
Gates(present) ==
    LET singles == 2 .. Len(RegimeOrder) + 1
        names == Chosen(GateNames, {n \in DOMAIN GateNames : n \in singles => GateNames[n] \in present})
    IN  [n \in DOMAIN names |-> [name |-> names[n], allowed |-> AllowedBy(names[n], present)]]

Crossed(gates, grid) ==
    LET place(n) == ((n - 1) \div Len(grid)) + 1
    IN  [n \in 1 .. Len(gates) * Len(grid) |->
            [name |-> gates[place(n)].name, allowed |-> gates[place(n)].allowed,
             threshold |-> grid[((n - 1) % Len(grid)) + 1]]]

Candidates(kind, regimes) ==
    Crossed(IF kind = "router" THEN Gates({regimes[i] : i \in DOMAIN regimes})
            ELSE <<[name |-> <<"none">>, allowed |-> {}]>>,
            ThresholdGrid(kind))

-----------------------------------------------------------------------------
(* What is learned from the first period: probabilities for every sample. *)

Lesson(input, rows) ==
    [n \in DOMAIN rows |-> <<input.samples[rows[n]].features, input.samples[rows[n]].label>>]

(* EXPERTS and expert_name *)
Experts == {"trend_up", "trend_down", "range"}

ExpertRows(input, regimes, name) ==
    LET rows == Fitted(input)
    IN  Chosen(rows, {n \in DOMAIN rows : regimes[rows[n]][1] = name})

ProbabilityOf(label, probabilities) ==
    CASE label = "hold" -> probabilities[1]
      [] label = "long" -> probabilities[2]
      [] label = "short" -> probabilities[3]

(* choose_temperature, in percent: the first of the smallest losses.           *)
TemperatureGrid == {50, 75, 100, 125, 150, 200, 300}

ValidationLoss(input, lesson, temperature) ==
    LET rows == ValidationRows(input)
        probability(sample) ==
            ProbabilityOf(sample.label, Predict(lesson, sample.features, temperature))
    IN  Loss([n \in DOMAIN rows |-> probability(input.samples[rows[n]])])

LeastLoss(losses) ==
    CHOOSE t \in DOMAIN losses :
        \A other \in DOMAIN losses :
            losses[t] < losses[other] \/ (losses[t] = losses[other] /\ t <= other)

Temperature(input, lesson) ==
    LeastLoss([t \in TemperatureGrid |-> ValidationLoss(input, lesson, t)])

TemperatureFor(kind, input, lesson) ==
    IF kind \in {"head", "report"} THEN Temperature(input, lesson) ELSE 100

Predictions(input, lesson, temperature) ==
    [i \in DOMAIN input.samples |-> Predict(lesson, input.samples[i].features, temperature)]

(* train_experts and predict_routed: each row is left to the expert for its     *)
(* regime.                                                                 *)
RoutedPredictions(input, regimes) ==
    LET lessons == [name \in Experts |-> Lesson(input, ExpertRows(input, regimes, name))]
    IN  [i \in DOMAIN input.samples |->
            Predict(lessons[regimes[i][1]], input.samples[i].features, 100)]

LearnFrom(kind, input, regimes, lesson, temperature) ==
    [regimes |-> regimes, temperature |-> temperature,
     candidates |-> Candidates(kind, regimes),
     probabilities |-> IF kind = "experts" THEN RoutedPredictions(input, regimes)
                       ELSE Predictions(input, lesson, temperature)]

Learn(kind, input) ==
    LET lesson == Lesson(input, Fitted(input))
    IN  LearnFrom(kind, input, IF UsesRegimes(kind) THEN Regimes(input) ELSE <<>>,
                  lesson, TemperatureFor(kind, input, lesson))

(* A quantile or a mean of no rows, or a loss over none, ends the program; the  *)
(* report says that a split has no samples.                                  *)
CannotLearn(kind, input) ==
    \/ Fitted(input) = <<>>
    \/ kind \in {"head", "report"} /\ ValidationRows(input) = <<>>
    \/ kind = "report" /\ Rows(input, "holdout_2026") = <<>>
    \/ /\ kind = "experts" /\ Fitted(input) # <<>>
       /\ LET regimes == Regimes(input)
          IN  \E name \in Experts : ExpertRows(input, regimes, name) = <<>>

-----------------------------------------------------------------------------
(* Actions, tapes and figures. *)

(* action_for; prediction_metrics and write_tape of the head choose alike. *)
ActionFor(probabilities, threshold) ==
    LET direction == IF probabilities[2] >= probabilities[3] THEN "long" ELSE "short"
    IN  IF ProbabilityOf(direction, probabilities) >= threshold THEN direction ELSE "hold"

Directional(action) == action # "hold"

Actions(probabilities, threshold) ==
    [n \in DOMAIN probabilities |-> ActionFor(probabilities[n], threshold)]

(* write_tape *)
Tape(input, rows, probabilities, threshold) ==
    LET line(sample, action, p) == [sequence |-> sample.sequence, action |-> action,
                                    probability |-> ProbabilityOf(action, p)]
    IN  [n \in DOMAIN rows |-> line(input.samples[rows[n]],
                                    ActionFor(probabilities[n], threshold), probabilities[n])]

(* prediction_report: what is counted of labels and actions; prediction_metrics *)
(* of the report and the head counts those that are correct.                  *)
PredictionReport(labels, actions) ==
    LET point(n) == IF ~Directional(actions[n]) \/ ~Directional(labels[n]) THEN 0
                    ELSE IF actions[n] = labels[n] THEN 1 ELSE -1
    IN  [proxy_score |-> MapThenSumSet(point, DOMAIN actions),
         directional_actions |-> Cardinality({n \in DOMAIN actions : Directional(actions[n])}),
         correct |-> Cardinality({n \in DOMAIN actions : actions[n] = labels[n]})]

Labels(input, rows) == [n \in DOMAIN rows |-> input.samples[rows[n]].label]

(* run_cpp: rows outside the period are skipped. *)
RunCpp(input, tape, period, costs, gate) ==
    LET inPeriod == {i \in DOMAIN input.rows :
                        period[1] <= input.rows[i].time /\ input.rows[i].time <= period[2]}
    IN  Execution(Chosen(input.rows, inPeriod), tape, costs, gate)

Simulated(input, rows, actions, costs) ==
    Simulation(input.rows, [n \in DOMAIN rows |-> input.samples[rows[n]]], actions, costs)

HoldOnly == <<Million, 0, 0>>

ClosedTo(kind, model, i, candidate) == kind = "router" /\ model.regimes[i] \notin candidate.allowed

(* The probabilities of rows while candidates are tried, when the final tapes   *)
(* are written, and for the final prediction report: the router gates them at   *)
(* each place anew.                                                         *)
TriedProbabilities(kind, model, rows, candidate) ==
    [n \in DOMAIN rows |-> IF ClosedTo(kind, model, rows[n], candidate) THEN HoldOnly
                           ELSE model.probabilities[rows[n]]]

(* Mutant of FinalProbabilities: the final tapes are not gated. *)
FinalUngated(kind, model, rows, candidate) == [n \in DOMAIN rows |-> model.probabilities[rows[n]]]

FinalProbabilities(kind, model, rows, candidate) ==
    [n \in DOMAIN rows |-> IF ClosedTo(kind, model, rows[n], candidate) THEN HoldOnly
                           ELSE model.probabilities[rows[n]]]

GatedProbabilities(kind, model, rows, candidate) ==
    [n \in DOMAIN rows |-> IF ClosedTo(kind, model, rows[n], candidate) THEN HoldOnly
                           ELSE model.probabilities[rows[n]]]

-----------------------------------------------------------------------------
(* Choosing a candidate on the second period. *)

Figures(kind, input, rows, probabilities, threshold, prediction) ==
    IF UsesRegimes(kind)
    THEN RunCpp(input, Tape(input, rows, probabilities, threshold),
                SplitPeriods["development_validation"], CostsOf.base, 0)
    ELSE IF kind = "baseline" THEN prediction
    ELSE Simulated(input, rows, Actions(probabilities, threshold), CostsOf.base)

ScoreOf(kind, input, rows, probabilities, candidate) ==
    LET prediction == PredictionReport(Labels(input, rows),
                                       Actions(probabilities, candidate.threshold))
    IN  [candidate |-> candidate, prediction |-> prediction,
         figures |-> Figures(kind, input, rows, probabilities, candidate.threshold, prediction)]

Score(kind, input, model, candidate) ==
    LET rows == ValidationRows(input)
    IN  ScoreOf(kind, input, rows, TriedProbabilities(kind, model, rows, candidate), candidate)

(* What the largest is chosen by; the profit factor of astra_replay is a text,  *)
(* known here by its place in the order of texts.                             *)
Key(kind, figures, threshold) ==
    CASE UsesRegimes(kind) -> <<figures.return_ppm, figures.profit_factor, -figures.fills>>
      [] kind = "baseline" ->
            <<figures.proxy_score,
              IF figures.proxy_score > 0 THEN figures.directional_actions
              ELSE -figures.directional_actions,
              threshold>>
      [] kind \in {"head", "report"} -> <<figures.return_ppm, figures.fills, threshold>>

Precedes(a, b) ==
    \E n \in DOMAIN a \cap DOMAIN b : a[n] < b[n] /\ \A m \in 1 .. n - 1 : a[m] = b[m]

Eligible(kind, scores) ==
    {i \in DOMAIN scores : UsesRegimes(kind) => scores[i].figures.fills >= MinFills}

(* max: the first of the largest. *)
IsFirstOfLargest(kind, scores, i) ==
    LET key(j) == Key(kind, scores[j].figures, scores[j].candidate.threshold)
        chosen == key(i)
    IN  \A j \in Eligible(kind, scores) :
            /\ ~Precedes(chosen, key(j))
            /\ j < i => Precedes(key(j), chosen)

-----------------------------------------------------------------------------
(* The steps of a program. *)

Load ==
    /\ phase = "load"
    /\ ~CannotLearn(program, file)
    /\ learned' = Learn(program, file)
    /\ phase' = "calibrate"
    /\ UNCHANGED <<program, file, scored, selected, tapes, results, predictions, periods, attached>>

CannotLoad ==
    /\ phase = "load"
    /\ CannotLearn(program, file)
    /\ phase' = "failed"
    /\ UNCHANGED <<program, file, learned, scored, selected, tapes, results, predictions,
                   periods, attached>>

(* astra_replay loads no empty tape, and run_cpp ends the program. *)
CannotReplay(split) == Rows(file, split) = <<>>

CannotTry == UsesRegimes(program) /\ CannotReplay("development_validation")

CannotEvaluate(split) == program \in {"router", "experts", "baseline"} /\ CannotReplay(split)

Try ==
    /\ phase = "calibrate"
    /\ Len(scored) < Len(learned.candidates)
    /\ ~CannotTry
    /\ scored' = Append(scored, Score(program, file, learned, learned.candidates[Len(scored) + 1]))
    /\ UNCHANGED <<program, file, phase, learned, selected, tapes, results, predictions,
                   periods, attached>>

Select ==
    /\ phase = "calibrate"
    /\ Len(scored) = Len(learned.candidates)
    /\ \E i \in Eligible(program, scored) :
          IsFirstOfLargest(program, scored, i) /\ selected' = scored[i]
    /\ phase' = "evaluate"
    /\ UNCHANGED <<program, file, learned, scored, tapes, results, predictions, periods, attached>>

(* max of no candidates ends the program. *)
NoneEligible ==
    /\ phase = "calibrate"
    /\ Len(scored) = Len(learned.candidates)
    /\ Eligible(program, scored) = {}
    /\ phase' = "failed"
    /\ UNCHANGED <<program, file, learned, scored, selected, tapes, results, predictions,
                   periods, attached>>

(* The head and the report simulate; the head is compared with the model that   *)
(* was not fitted, at a temperature of its own.                              *)
Unfitted == Predictions(file, <<>>, Temperature(file, <<>>))

FinalOf(rows) == FinalProbabilities(program, learned, rows, selected.candidate)

FinalTape(rows) == Tape(file, rows, FinalOf(rows), selected.candidate.threshold)

FinalSimulation(rows, probabilities, costs) ==
    Simulated(file, rows, Actions(probabilities, selected.candidate.threshold), costs)

FinalMetrics(split, rows, costs) ==
    IF program = "head"
    THEN [fitted |-> FinalSimulation(rows, FinalOf(rows), costs),
          unfitted |-> FinalSimulation(rows, [n \in DOMAIN rows |-> Unfitted[rows[n]]], costs)]
    ELSE IF program = "report" THEN FinalSimulation(rows, FinalOf(rows), costs)
    ELSE RunCpp(file, FinalTape(rows), SplitPeriods[split], costs, 0)

FinalResult(split) ==
    LET rows == Rows(file, split)
    IN  [name \in DOMAIN CostsOf |-> FinalMetrics(split, rows, CostsOf[name])]

FinalPrediction(split) ==
    LET rows == Rows(file, split)
        gated == GatedProbabilities(program, learned, rows, selected.candidate)
    IN  PredictionReport(Labels(file, rows), Actions(gated, selected.candidate.threshold))

Evaluate ==
    /\ phase = "evaluate"
    /\ Len(results) < Len(Splits)
    /\ ~CannotEvaluate(Splits[Len(results) + 1])
    /\ LET split == Splits[Len(results) + 1]
       IN  /\ tapes' = IF program = "report" THEN tapes
                       ELSE Append(tapes, FinalTape(Rows(file, split)))
           /\ results' = Append(results, FinalResult(split))
           /\ predictions' = Append(predictions, FinalPrediction(split))
    /\ UNCHANGED <<program, file, phase, learned, scored, selected, periods, attached>>

(* The tape of the holdout, over one part of it. *)
EvaluatePart ==
    /\ phase = "evaluate"
    /\ Len(results) = Len(Splits)
    /\ UsesRegimes(program)
    /\ Len(periods) < Len(SubPeriods)
    /\ LET part == SubPeriods[Len(periods) + 1]
       IN  periods' = Append(periods, [name \in DOMAIN CostsOf |->
                                          RunCpp(file, tapes[3], part, CostsOf[name], 0)])
    /\ UNCHANGED <<program, file, phase, learned, scored, selected, tapes, results, predictions,
                   attached>>

Finish ==
    /\ phase = "evaluate"
    /\ Len(results) = Len(Splits)
    /\ UsesRegimes(program) => Len(periods) = Len(SubPeriods)
    /\ phase' = "done"
    /\ UNCHANGED <<program, file, learned, scored, selected, tapes, results, predictions,
                   periods, attached>>

ReplayFails ==
    /\ \/ phase = "calibrate" /\ Len(scored) < Len(learned.candidates) /\ CannotTry
       \/ /\ phase = "evaluate"
          /\ Len(results) < Len(Splits)
          /\ CannotEvaluate(Splits[Len(results) + 1])
       \/ /\ phase = "done"
          /\ program = "head"
          /\ \E i \in DOMAIN Splits : CannotReplay(Splits[i])
    /\ phase' = "failed"
    /\ UNCHANGED <<program, file, learned, scored, selected, tapes, results, predictions,
                   periods, attached>>

(* attach_cpp_tape_metrics.py: the gate is a constant, whatever was selected.   *)
Attach ==
    /\ phase = "done"
    /\ program = "head"
    /\ \A i \in DOMAIN Splits : ~CannotReplay(Splits[i])
    /\ phase' = "attached"
    /\ attached' = [i \in DOMAIN Splits |-> [name \in DOMAIN CostsOf |->
                       RunCpp(file, tapes[i], SplitPeriods[Splits[i]], CostsOf[name], 700000)]]
    /\ UNCHANGED <<program, file, learned, scored, selected, tapes, results, predictions, periods>>

-----------------------------------------------------------------------------
CalibrationInit ==
    /\ program \in Programs
    /\ file \in Files
    /\ phase = "load"
    /\ learned = <<>> /\ scored = <<>> /\ selected = <<>>
    /\ tapes = <<>> /\ results = <<>> /\ predictions = <<>>
    /\ periods = <<>> /\ attached = <<>>

CalibrationNext ==
    \/ Load \/ CannotLoad
    \/ Try \/ Select \/ NoneEligible
    \/ Evaluate \/ EvaluatePart \/ Finish
    \/ Attach \/ ReplayFails

CalibrationSpec == CalibrationInit /\ [][CalibrationNext]_calibrationVars

-----------------------------------------------------------------------------
(* Before the first day of the holdout. *)
Development(input) ==
    LET before(list) ==
            Chosen(list, {i \in DOMAIN list : list[i].time < SplitPeriods["holdout_2026"][1]})
    IN  [rows |-> before(input.rows), samples |-> before(input.samples)]

(* What a program would choose on another input, and write there for a row. *)
ChosenOn(kind, input, model) ==
    LET scores == [n \in DOMAIN model.candidates |->
                        Score(kind, input, model, model.candidates[n])]
    IN  {scores[i] : i \in {j \in Eligible(kind, scores) : IsFirstOfLargest(kind, scores, j)}}

LineOf(kind, input, model, candidate, i) ==
    Tape(input, <<i>>, FinalProbabilities(kind, model, <<i>>, candidate), candidate.threshold)

(* The holdout has no say: whatever comes after its first day, the same gate,  *)
(* threshold and temperature are chosen, and a row that is followed by another  *)
(* future is decided alike, although the regimes the router tries are those of  *)
(* all rows ("The gate and probability threshold are selected only on 2025      *)
(* validation by the production C++ base-cost replay; 2026 is untouched until   *)
(* final evaluation", reports/btc_regime_router_oos/README.md).              *)
SelectionIgnoresHoldout ==
    phase = "evaluate" /\ results = <<>> =>
        \A other \in {input \in Files : Development(input) = Development(file)} :
            CannotLearn(program, other) \/
            LET model == Learn(program, other)
                choices == ChosenOn(program, other, model)
                alike(i) == /\ file.samples[i] = other.samples[i]
                            /\ \A n \in 1 .. file.samples[i].sequence :
                                  file.rows[n] = other.rows[n]
                common == {i \in (DOMAIN file.samples) \cap (DOMAIN other.samples) : alike(i)}
            IN  /\ model.temperature = learned.temperature
                /\ {<<choice.candidate.name, choice.candidate.threshold>> : choice \in choices}
                     = {<<selected.candidate.name, selected.candidate.threshold>>}
                /\ \A choice \in choices, i \in common :
                      LineOf(program, other, model, choice.candidate, i)
                        = LineOf(program, file, learned, selected.candidate, i)

(* The choice is reproduced: what is reported for the second period with the   *)
(* final tape is what the candidate was chosen for, in its return, its profit   *)
(* factor and its fills, in the simulated account, and in its predictions.      *)
SelectionReproduced ==
    phase = "done" =>
        /\ predictions[2] = selected.prediction
        /\ UsesRegimes(program) \/ program = "report" => results[2].base = selected.figures
        /\ program = "head" => results[2].base.fitted = selected.figures

(* Each decision is evaluated where it belongs: in the period of its own split  *)
(* and in no other, and one of the holdout in exactly one of its parts.         *)
HoldoutCoveredOnce ==
    phase = "done" /\ tapes # <<>> =>
        LET within(line, period) ==
                LET time == file.rows[line.sequence].time
                IN  period[1] <= time /\ time <= period[2]
        IN  \A i \in DOMAIN Splits : \A j \in DOMAIN tapes[i] :
                LET line == tapes[i][j]
                IN  /\ {name \in DOMAIN SplitPeriods : within(line, SplitPeriods[name])} = {Splits[i]}
                    /\ Cardinality({n \in DOMAIN SubPeriods : within(line, SubPeriods[n])})
                         = IF Splits[i] = "holdout_2026" THEN 1 ELSE 0

=============================================================================
