--------------------------- MODULE PipelinesProofs ---------------------------
(***************************************************************************)
(* Theorems about the research programs for any model, any execution and any  *)
(* input.                                                                  *)
(*                                                                         *)
(* Of the five that choose a candidate (Calibration) the inductive invariant   *)
(* says what the state has been computed from: the scores are those of         *)
(* candidates with what was learned, the selected one is among them, and what  *)
(* is there of the final tapes and results is that of the splits in their       *)
(* order.  That the holdout has no say is shown for two inputs that are alike   *)
(* before it: the same is learned from both, their candidates come in the same  *)
(* order up to those without fills, and so the first of the largest is the same. *)
(* Of the report (Research) it says that samples name rows, that the account    *)
(* is that of a position of one size or none, and that the rows are those of     *)
(* the directory.  That those and the minutes of the bars are the same is shown  *)
(* by what merging and joining keep: the flow, the close and the times of the     *)
(* records of a minute, which are those of the one archive that it is in.       *)
(***************************************************************************)
EXTENDS Pipelines, TLAPS, FiniteSetTheorems, WellFoundedInduction

(* Induction over the natural numbers, with a set as the hypothesis. *)
LEMMA Induction ==
    ASSUME NEW P, 0 \in P, \A n \in Nat : n \in P => n + 1 \in P
    PROVE  Nat \subseteq P
<1> DEFINE T == Nat \ P
<1> SUFFICES ASSUME T # {} PROVE FALSE
  OBVIOUS
<1>1. PICK n \in T : \A k \in T : ~(k < n)
  <2>1. IsWellFoundedOn(OpToRel(<, Nat), Nat)
    BY NatLessThanWellFounded, Zenon
  <2>2. PICK n \in T : \A k \in T : <<k, n>> \notin OpToRel(<, Nat)
    BY <2>1, WFMin, Zenon
  <2> QED
    BY <2>2 DEF OpToRel
<1>2. n # 0 /\ n - 1 \in Nat /\ n - 1 \notin T
  BY <1>1
<1> QED
  BY <1>1, <1>2

-----------------------------------------------------------------------------
(* What a comprehension keeps, place by place. *)

KeptAt(chosen, f, n) ==
    IF n = 0 THEN <<>>
    ELSE IF n \in chosen THEN Append(f[n - 1], n) ELSE f[n - 1]

IsKept(length, chosen, f) == f = [n \in 0 .. length |-> KeptAt(chosen, f, n)]

(* The recursive function of Places is there. *)
LEMMA KeptExists ==
    ASSUME NEW length \in Nat, NEW chosen
    PROVE  \E f : IsKept(length, chosen, f)
<1> DEFINE P == {n \in Nat : \E f : IsKept(n, chosen, f)}
<1>1. 0 \in P
  <2>1. IsKept(0, chosen, [n \in 0 .. 0 |-> <<>>])
    BY DEF IsKept, KeptAt
  <2> QED
    BY <2>1
<1>2. ASSUME NEW n \in Nat, n \in P PROVE n + 1 \in P
  <2>1. PICK f : IsKept(n, chosen, f)
    BY <1>2
  <2> DEFINE last == IF n + 1 \in chosen THEN Append(f[n], n + 1) ELSE f[n]
  <2> DEFINE g == [k \in 0 .. n + 1 |-> IF k = n + 1 THEN last ELSE f[k]]
  <2>2. \A k \in 0 .. n : f[k] = KeptAt(chosen, f, k)
    BY <2>1 DEF IsKept
  <2>3. ASSUME NEW k \in 0 .. n + 1 PROVE g[k] = KeptAt(chosen, g, k)
    <3>1. CASE k = n + 1
      <4>1. g[k] = last /\ g[k - 1] = f[n] /\ k # 0
        BY <3>1
      <4> HIDE DEF g
      <4> QED
        BY <3>1, <4>1 DEF KeptAt
    <3>2. CASE k \in 1 .. n
      <4>1. g[k] = f[k] /\ g[k - 1] = f[k - 1]
        BY <3>2
      <4>2. f[k] = KeptAt(chosen, f, k)
        BY <2>2, <3>2
      <4> HIDE DEF g
      <4> QED
        BY <4>1, <4>2 DEF KeptAt
    <3>3. CASE k = 0
      <4>1. g[0] = f[0] /\ f[0] = <<>>
        BY <2>2 DEF KeptAt
      <4> HIDE DEF g
      <4> QED
        BY <3>3, <4>1 DEF KeptAt
    <3> QED
      BY <3>1, <3>2, <3>3
  <2>4. g = [k \in 0 .. n + 1 |-> g[k]]
    OBVIOUS
  <2>5. IsKept(n + 1, chosen, g)
    <3> HIDE DEF g
    <3> QED
      BY <2>3, <2>4 DEF IsKept
  <2> QED
    BY <2>5
<1> HIDE DEF P
<1>3. length \in P
  BY <1>1, <1>2, Induction
<1> QED
  BY <1>3 DEF P

(* A comprehension keeps chosen numbers only, each of them within the length. *)
LEMMA PlacesChosen ==
    ASSUME NEW length \in Nat, NEW chosen
    PROVE  Places(length, chosen) \in Seq(chosen \cap (1 .. length))
<1> DEFINE f == CHOOSE g : IsKept(length, chosen, g)
<1> DEFINE kept == chosen \cap (1 .. length)
<1>1. IsKept(length, chosen, f)
  BY KeptExists
<1>2. Places(length, chosen) = f[length]
  BY DEF Places, IsKept, KeptAt
<1> HIDE DEF f
<1> DEFINE P == {n \in Nat : n <= length => f[n] \in Seq(kept)}
<1>3. \A n \in 0 .. length : f[n] = KeptAt(chosen, f, n)
  BY <1>1 DEF IsKept
<1>4. 0 \in P
  <2>1. f[0] = <<>>
    BY <1>3 DEF KeptAt
  <2>2. <<>> \in Seq(kept)
    OBVIOUS
  <2> HIDE DEF kept
  <2> QED
    BY <2>1, <2>2
<1>5. ASSUME NEW n \in Nat, n \in P PROVE n + 1 \in P
  <2> SUFFICES ASSUME n + 1 <= length PROVE f[n + 1] \in Seq(kept)
    OBVIOUS
  <2>1. f[n] \in Seq(kept)
    BY <1>5
  <2>2. f[n + 1] = IF n + 1 \in chosen THEN Append(f[n], n + 1) ELSE f[n]
    BY <1>3 DEF KeptAt
  <2>3. n + 1 \in chosen => n + 1 \in kept
    OBVIOUS
  <2> HIDE DEF kept
  <2> QED
    BY <2>1, <2>2, <2>3
<1> HIDE DEF P
<1>6. length \in P
  BY <1>4, <1>5, Induction
<1> QED
  BY <1>2, <1>6 DEF P
Scores == {Score(program, file, learned, learned.candidates[n]) : n \in Nat}

FinalResults == {FinalResult(Splits[n]) : n \in Nat}

FinalPredictions == {FinalPrediction(Splits[n]) : n \in Nat}

(* selected was scored. *)
SelectedInv ==
    /\ program \in Programs
    /\ phase \in {"load", "calibrate", "evaluate", "done", "attached", "failed"}
    /\ scored \in Seq(Scores)
    /\ phase = "load" => scored = <<>>
    /\ phase \in {"evaluate", "done", "attached"} => selected \in Scores

(* results and predictions are those of the splits so far. *)
ResultsInv ==
    /\ results \in Seq(FinalResults)
    /\ predictions \in Seq(FinalPredictions)
    /\ Len(predictions) = Len(results)
    /\ phase \in {"load", "calibrate"} => results = <<>> /\ predictions = <<>>
    /\ phase = "done" => Len(results) = 3
    /\ \A n \in 1 .. Len(results) :
          results[n] = FinalResult(Splits[n]) /\ predictions[n] = FinalPrediction(Splits[n])

CalibrationInv == SelectedInv /\ ResultsInv

-----------------------------------------------------------------------------
(* The three places where the router gates give the same probabilities. *)
LEMMA GatesAgree ==
    ASSUME NEW kind, NEW model, NEW kept, NEW candidate
    PROVE  /\ FinalProbabilities(kind, model, kept, candidate)
                = TriedProbabilities(kind, model, kept, candidate)
           /\ GatedProbabilities(kind, model, kept, candidate)
                = TriedProbabilities(kind, model, kept, candidate)
BY DEF FinalProbabilities, TriedProbabilities, GatedProbabilities

(* A score is determined by its candidate. *)
LEMMA SelectedIsScore ==
    ASSUME selected \in Scores
    PROVE  selected = Score(program, file, learned, selected.candidate)
<1>1. PICK n \in Nat : selected = Score(program, file, learned, learned.candidates[n])
    BY DEF Scores
<1>2. selected.candidate = learned.candidates[n]
    BY <1>1 DEF Score, ScoreOf
<1> QED
    BY <1>1, <1>2

(* The final figures and predictions of the second period are the score. *)
LEMMA SecondSplitIsScore ==
    ASSUME selected \in Scores, program \in Programs
    PROVE  /\ FinalPrediction(Splits[2]) = selected.prediction
           /\ UsesRegimes(program) \/ program = "report" =>
                 FinalResult(Splits[2]).base = selected.figures
           /\ program = "head" => FinalResult(Splits[2]).base.fitted = selected.figures
<1> DEFINE kept == ValidationRows(file)
<1> DEFINE candidate == selected.candidate
<1> DEFINE tried == TriedProbabilities(program, learned, kept, candidate)
<1>1. Splits[2] = "development_validation" /\ Rows(file, Splits[2]) = kept
    BY DEF Splits, ValidationRows
<1>2. selected = ScoreOf(program, file, kept, tried, candidate)
    BY SelectedIsScore DEF Score
<1>3. FinalOf(kept) = tried
    BY GatesAgree DEF FinalOf
<1>4. GatedProbabilities(program, learned, kept, candidate) = tried
    BY GatesAgree
<1> HIDE DEF kept, tried
<1>5. selected.prediction = PredictionReport(Labels(file, kept), Actions(tried, candidate.threshold))
    BY <1>2 DEF ScoreOf
<1>6. selected.figures = Figures(program, file, kept, tried, candidate.threshold, selected.prediction)
    BY <1>2 DEF ScoreOf
<1>7. FinalPrediction(Splits[2]) = selected.prediction
    BY <1>1, <1>4, <1>5 DEF FinalPrediction
<1>8. FinalResult(Splits[2]).base = FinalMetrics(Splits[2], kept, CostsOf.base)
    <2>1. "base" \in DOMAIN CostsOf /\ CostsOf["base"] = CostsOf.base
        BY DEF CostsOf
    <2> QED
        BY <1>1, <2>1 DEF FinalResult
<1>9. ASSUME UsesRegimes(program)
      PROVE  FinalMetrics(Splits[2], kept, CostsOf.base) = selected.figures
    <2>1. program \in {"router", "experts"}
        BY <1>9 DEF UsesRegimes
    <2>2. FinalMetrics(Splits[2], kept, CostsOf.base)
            = RunCpp(file, FinalTape(kept), SplitPeriods[Splits[2]], CostsOf.base, 0)
        BY <2>1 DEF FinalMetrics
    <2>3. FinalTape(kept) = Tape(file, kept, tried, candidate.threshold)
        BY <1>3 DEF FinalTape
    <2> QED
        BY <1>1, <1>6, <1>9, <2>2, <2>3 DEF Figures
<1>10. ASSUME program \in {"head", "report"}
       PROVE  selected.figures = FinalSimulation(kept, FinalOf(kept), CostsOf.base)
    <2>1. ~UsesRegimes(program)
        BY <1>10 DEF UsesRegimes
    <2>2. FinalSimulation(kept, FinalOf(kept), CostsOf.base)
            = Simulated(file, kept, Actions(tried, candidate.threshold), CostsOf.base)
        BY <1>3 DEF FinalSimulation
    <2> QED
        BY <1>6, <1>10, <2>1, <2>2 DEF Figures
<1>11. program = "report" => FinalMetrics(Splits[2], kept, CostsOf.base) = selected.figures
    BY <1>10 DEF FinalMetrics
<1>12. program = "head" => FinalMetrics(Splits[2], kept, CostsOf.base).fitted = selected.figures
    BY <1>10 DEF FinalMetrics
<1> QED
    BY <1>7, <1>8, <1>9, <1>11, <1>12

-----------------------------------------------------------------------------
LEMMA InitCalibrationInv == CalibrationInit => CalibrationInv
BY DEF CalibrationInit, CalibrationInv, SelectedInv, ResultsInv

LEMMA StepKeepsSelected == CalibrationInv /\ [CalibrationNext]_calibrationVars => SelectedInv'
<1> SUFFICES ASSUME CalibrationInv, [CalibrationNext]_calibrationVars PROVE SelectedInv'
    OBVIOUS
<1> USE DEF CalibrationInv, SelectedInv
<1>1. CASE Load
    <2>1. scored' = <<>> /\ phase' = "calibrate" /\ program' = program
        BY <1>1 DEF Load
    <2> QED
        BY <2>1
<1>2. CASE CannotLoad
    BY <1>2 DEF CannotLoad, Scores
<1>3. CASE Try
    <2>1. Scores' = Scores
        BY <1>3 DEF Try, Scores
    <2>2. Score(program, file, learned, learned.candidates[Len(scored) + 1]) \in Scores
        BY DEF Scores
    <2> QED
        BY <1>3, <2>1, <2>2 DEF Try
<1>4. CASE Select
    <2>1. Scores' = Scores
        BY <1>4 DEF Select, Scores
    <2>2. PICK i \in DOMAIN scored : selected' = scored[i]
        BY <1>4 DEF Select, Eligible
    <2>3. scored[i] \in Scores
        BY <2>2
    <2> QED
        BY <1>4, <2>1, <2>2, <2>3 DEF Select
<1>5. CASE NoneEligible
    BY <1>5 DEF NoneEligible, Scores
<1>6. CASE Evaluate
    BY <1>6 DEF Evaluate, Scores
<1>7. CASE EvaluatePart
    BY <1>7 DEF EvaluatePart, Scores
<1>8. CASE Finish
    BY <1>8 DEF Finish, Scores
<1>9. CASE Attach
    BY <1>9 DEF Attach, Scores
<1>10. CASE ReplayFails
    BY <1>10 DEF ReplayFails, Scores
<1>11. CASE UNCHANGED calibrationVars
    BY <1>11 DEF calibrationVars, Scores
<1> QED
    BY <1>1, <1>2, <1>3, <1>4, <1>5, <1>6, <1>7, <1>8, <1>9, <1>10, <1>11 DEF CalibrationNext

(* What is final depends on nothing that changes after the selection. *)
LEMMA FinalUnchanged ==
    ASSUME UNCHANGED <<program, file, learned, selected>>
    PROVE  /\ \A split : FinalResult(split)' = FinalResult(split)
           /\ \A split : FinalPrediction(split)' = FinalPrediction(split)
           /\ FinalResults' = FinalResults
           /\ FinalPredictions' = FinalPredictions
BY DEF FinalResults, FinalPredictions, FinalResult, FinalPrediction, FinalMetrics, FinalSimulation,
       FinalTape, FinalOf, Unfitted

LEMMA StepKeepsResults == CalibrationInv /\ [CalibrationNext]_calibrationVars => ResultsInv'
<1> SUFFICES ASSUME CalibrationInv, [CalibrationNext]_calibrationVars PROVE ResultsInv'
    OBVIOUS
<1> USE DEF CalibrationInv, SelectedInv, ResultsInv
<1>1. ASSUME results = <<>>, predictions = <<>>, UNCHANGED <<results, predictions>>,
             phase' # "done"
      PROVE  ResultsInv'
    BY <1>1
<1>2. CASE Load \/ CannotLoad
    BY <1>1, <1>2 DEF Load, CannotLoad
<1>3. CASE Try \/ Select \/ NoneEligible
    BY <1>1, <1>3 DEF Try, Select, NoneEligible
<1>4. ASSUME UNCHANGED <<program, file, learned, selected, results, predictions>>,
             phase' \in {"load", "calibrate"} => phase' = phase,
             phase' = "done" => Len(results) = 3
      PROVE  ResultsInv'
    BY <1>4, FinalUnchanged
<1>5. CASE Evaluate
    <2>1. UNCHANGED <<program, file, learned, selected, phase>> /\ phase = "evaluate"
        BY <1>5 DEF Evaluate
    <2> DEFINE split == Splits[Len(results) + 1]
    <2>2. /\ results' = Append(results, FinalResult(split))
          /\ predictions' = Append(predictions, FinalPrediction(split))
        BY <1>5 DEF Evaluate
    <2>3. Len(results) + 1 \in Nat
        OBVIOUS
    <2>4. FinalResult(split) \in FinalResults /\ FinalPrediction(split) \in FinalPredictions
        BY <2>3 DEF FinalResults, FinalPredictions
    <2> HIDE DEF split
    <2>5. results' \in Seq(FinalResults) /\ predictions' \in Seq(FinalPredictions)
        BY <2>2, <2>4
    <2>6. Len(results') = Len(results) + 1 /\ Len(predictions') = Len(results')
        BY <2>2, <2>4
    <2>7. ASSUME NEW n \in 1 .. Len(results')
          PROVE  results'[n] = FinalResult(Splits[n]) /\ predictions'[n] = FinalPrediction(Splits[n])
        <3>1. CASE n = Len(results) + 1
            BY <2>2, <2>4, <3>1 DEF split
        <3>2. CASE n \in 1 .. Len(results)
            BY <2>2, <2>4, <3>2
        <3> QED
            BY <2>6, <2>7, <3>1, <3>2
    <2> QED
        BY <2>1, <2>5, <2>6, <2>7, FinalUnchanged
<1>6. CASE EvaluatePart
    BY <1>4, <1>6 DEF EvaluatePart
<1>7. CASE Finish
    <2>1. Len(results) = 3
        BY <1>7 DEF Finish, Splits
    <2> QED
        BY <1>4, <1>7, <2>1 DEF Finish
<1>8. CASE Attach
    BY <1>4, <1>8 DEF Attach
<1>9. CASE ReplayFails
    BY <1>4, <1>9 DEF ReplayFails
<1>10. CASE UNCHANGED calibrationVars
    BY <1>4, <1>10 DEF calibrationVars
<1> QED
    BY <1>2, <1>3, <1>5, <1>6, <1>7, <1>8, <1>9, <1>10 DEF CalibrationNext

(* SelectionReproduced for any model, any execution, any input and any minimum  *)
(* of fills: the metrics that are reported for the second period at the end of   *)
(* main() are those that the candidate was selected for.                     *)
THEOREM SelectionIsReproduced == CalibrationSpec => []SelectionReproduced
<1>1. CalibrationInv /\ [CalibrationNext]_calibrationVars => CalibrationInv'
    BY StepKeepsSelected, StepKeepsResults DEF CalibrationInv
<1>2. CalibrationInv => SelectionReproduced
    <2> SUFFICES ASSUME CalibrationInv, phase = "done" PROVE SelectionReproduced
        BY DEF SelectionReproduced
    <2>1. selected \in Scores /\ program \in Programs
        BY DEF CalibrationInv, SelectedInv
    <2>2. results[2] = FinalResult(Splits[2]) /\ predictions[2] = FinalPrediction(Splits[2])
        BY DEF CalibrationInv, ResultsInv
    <2> QED
        BY <2>1, <2>2, SecondSplitIsScore DEF SelectionReproduced
<1> QED
    BY <1>1, <1>2, InitCalibrationInv, PTL DEF CalibrationSpec
-----------------------------------------------------------------------------
(* Tapes. *)

(* A sample has the row of its time, as load_samples joins them; times are      *)
(* whole seconds.                                                          *)
SamplesJoined ==
    \A input \in Files :
        /\ Len(input.samples) \in Nat
        /\ \A i \in DOMAIN input.samples :
              LET sample == input.samples[i]
              IN  sample.time \in Int /\ input.rows[sample.sequence].time = sample.time

FinalTapes == {FinalTape(Rows(file, Splits[n])) : n \in Nat}

(* tapes are those of the splits so far; the report program writes none. *)
TapesInv ==
    /\ file \in Files
    /\ tapes \in Seq(FinalTapes)
    /\ Len(tapes) = IF program = "report" THEN 0 ELSE Len(results)
    /\ \A n \in 1 .. Len(tapes) : tapes[n] = FinalTape(Rows(file, Splits[n]))

(* A decision of a tape is one on a sample of its split. *)
LEMMA LinesOfSplit ==
    ASSUME NEW split, NEW j, file \in Files, SamplesJoined,
           j \in DOMAIN FinalTape(Rows(file, split))
    PROVE  LET time == file.rows[FinalTape(Rows(file, split))[j].sequence].time
           IN  time \in Int /\ SampleSplit(time) = split
<1> DEFINE chosen == {i \in DOMAIN file.samples : SampleSplit(file.samples[i].time) = split}
<1> DEFINE kept == Rows(file, split)
<1>1. Len(file.samples) \in Nat
  BY DEF SamplesJoined
<1>2. kept \in Seq(chosen \cap (1 .. Len(file.samples)))
  <2> HIDE DEF chosen
  <2>1. Places(Len(file.samples), chosen) \in Seq(chosen \cap (1 .. Len(file.samples)))
    BY <1>1, PlacesChosen
  <2> QED
    BY <2>1 DEF chosen, Rows
<1>3. /\ DOMAIN FinalTape(kept) = DOMAIN kept
      /\ FinalTape(kept)[j].sequence = file.samples[kept[j]].sequence
      /\ j \in DOMAIN kept
  BY DEF FinalTape, Tape
<1>4. kept[j] \in chosen
  <2> HIDE DEF kept, chosen
  <2> QED
    BY <1>2, <1>3
<1>5. LET sample == file.samples[kept[j]]
      IN  /\ SampleSplit(sample.time) = split
          /\ sample.time \in Int /\ file.rows[sample.sequence].time = sample.time
  <2> HIDE DEF kept
  <2> QED
    BY <1>4 DEF SamplesJoined
<1> QED
  BY <1>3, <1>5

(* The half-open intervals of sample_split are the closed ones, in whole        *)
(* seconds, that are given to astra_replay.                                  *)
LEMMA SplitIsPeriod ==
    ASSUME NEW time \in Int, NEW i \in DOMAIN Splits, SampleSplit(time) = Splits[i]
    PROVE  {name \in DOMAIN SplitPeriods :
              SplitPeriods[name][1] <= time /\ time <= SplitPeriods[name][2]} = {Splits[i]}
<1> DEFINE in(name) == SplitPeriods[name][1] <= time /\ time <= SplitPeriods[name][2]
<1>1. DOMAIN SplitPeriods = {"development_train", "development_validation", "holdout_2026"}
  BY DEF SplitPeriods
<1>2. Splits[i] \in DOMAIN SplitPeriods
  BY <1>1 DEF Splits
<1>3. /\ in("development_train") <=> SampleSplit(time) = "development_train"
      /\ in("development_validation") <=> SampleSplit(time) = "development_validation"
      /\ in("holdout_2026") <=> SampleSplit(time) = "holdout_2026"
  BY DEF SplitPeriods, SampleSplit
<1> HIDE DEF in
<1>4. \A name \in DOMAIN SplitPeriods : in(name) <=> name = Splits[i]
  BY <1>1, <1>3
<1>5. {name \in DOMAIN SplitPeriods : in(name)} = {Splits[i]}
  BY <1>2, <1>4
<1> QED
  BY <1>5 DEF in

(* The parts of the holdout are disjoint and leave nothing out. *)
LEMMA HoldoutInParts ==
    ASSUME NEW time \in Int
    PROVE  Cardinality({n \in DOMAIN SubPeriods :
                          SubPeriods[n][1] <= time /\ time <= SubPeriods[n][2]})
             = IF SampleSplit(time) = "holdout_2026" THEN 1 ELSE 0
<1> DEFINE in(n) == SubPeriods[n][1] <= time /\ time <= SubPeriods[n][2]
<1> DEFINE parts == {n \in DOMAIN SubPeriods : in(n)}
<1>1. DOMAIN SubPeriods = {1, 2, 3}
  BY DEF SubPeriods
<1>2. /\ in(1) <=> 1767225600 <= time /\ time < 1775001600
      /\ in(2) <=> 1775001600 <= time /\ time < 1782864000
      /\ in(3) <=> 1782864000 <= time /\ time < 1788220800
  BY DEF SubPeriods
<1>3. SampleSplit(time) = "holdout_2026" <=> 1767225600 <= time /\ time < 1788220800
  BY DEF SampleSplit
<1> HIDE DEF in
<1>4. CASE SampleSplit(time) = "holdout_2026"
  <2>1. PICK n \in {1, 2, 3} : \A m \in {1, 2, 3} : in(m) <=> m = n
    <3>1. CASE time < 1775001600
      BY <1>2, <1>3, <1>4, <3>1
    <3>2. CASE 1775001600 <= time /\ time < 1782864000
      BY <1>2, <1>3, <1>4, <3>2
    <3>3. CASE 1782864000 <= time
      BY <1>2, <1>3, <1>4, <3>3
    <3> QED
      BY <3>1, <3>2, <3>3
  <2>2. parts = {n}
    BY <1>1, <2>1
  <2> HIDE DEF parts
  <2>3. Cardinality(parts) = 1
    BY <2>2, FS_Singleton
  <2> QED
    BY <1>4, <2>3 DEF parts, in
<1>5. CASE SampleSplit(time) # "holdout_2026"
  <2>1. ~in(1) /\ ~in(2) /\ ~in(3)
    BY <1>2, <1>3, <1>5
  <2>2. parts = {}
    BY <1>1, <2>1
  <2> HIDE DEF parts
  <2>3. Cardinality(parts) = 0
    BY <2>2, FS_EmptySet
  <2> QED
    BY <1>5, <2>3 DEF parts, in
<1> QED
  BY <1>4, <1>5

LEMMA InitTapes == CalibrationInit => TapesInv
BY DEF CalibrationInit, TapesInv

LEMMA StepKeepsTapes ==
    CalibrationInv /\ TapesInv /\ [CalibrationNext]_calibrationVars => TapesInv'
<1> SUFFICES ASSUME CalibrationInv, TapesInv, [CalibrationNext]_calibrationVars PROVE TapesInv'
  OBVIOUS
<1>0. /\ phase \in {"load", "calibrate"} => results = <<>>
      /\ Len(results) \in Nat
  BY DEF CalibrationInv, ResultsInv
<1>1. ASSUME results = <<>>, UNCHANGED <<program, file, tapes, results>> PROVE TapesInv'
  <2>1. tapes = <<>>
    BY <1>1 DEF TapesInv
  <2> QED
    BY <1>1, <2>1 DEF TapesInv
<1>2. CASE Load \/ CannotLoad
  BY <1>0, <1>1, <1>2 DEF Load, CannotLoad
<1>3. CASE Try \/ Select \/ NoneEligible
  BY <1>0, <1>1, <1>3 DEF Try, Select, NoneEligible
<1>4. ASSUME UNCHANGED <<program, file, learned, selected>>
      PROVE  /\ \A kept : FinalTape(kept)' = FinalTape(kept)
             /\ FinalTapes' = FinalTapes
  BY <1>4 DEF FinalTapes, FinalTape, FinalOf
<1>5. ASSUME UNCHANGED <<program, file, learned, selected, tapes, results>> PROVE TapesInv'
  BY <1>4, <1>5 DEF TapesInv
<1>6. CASE Evaluate
  <2> DEFINE next == Len(results) + 1
  <2> DEFINE final == FinalTape(Rows(file, Splits[next]))
  <2>1. /\ UNCHANGED <<program, file, learned, selected>>
        /\ tapes' = IF program = "report" THEN tapes ELSE Append(tapes, final)
    BY <1>6 DEF Evaluate
  <2>2. Len(results') = Len(results) + 1
    BY <1>6 DEF CalibrationInv, ResultsInv, Evaluate
  <2>3. final \in FinalTapes
    BY <1>0 DEF FinalTapes
  <2> HIDE DEF final
  <2>4. CASE program = "report"
    BY <1>4, <2>1, <2>2, <2>4 DEF TapesInv
  <2>5. CASE program # "report"
    <3>1. tapes \in Seq(FinalTapes) /\ Len(tapes) = Len(results) /\ tapes' = Append(tapes, final)
      BY <2>1, <2>5 DEF TapesInv
    <3>2. tapes' \in Seq(FinalTapes) /\ Len(tapes') = next
      BY <2>3, <3>1
    <3>3. ASSUME NEW n \in 1 .. next PROVE tapes'[n] = FinalTape(Rows(file, Splits[n]))
      <4>1. CASE n = next
        BY <2>3, <3>1, <4>1 DEF final
      <4>2. CASE n \in 1 .. Len(results)
        BY <3>1, <4>2 DEF TapesInv
      <4> QED
        BY <1>0, <4>1, <4>2
    <3> QED
      BY <1>4, <2>1, <2>2, <2>5, <3>2, <3>3 DEF TapesInv
  <2> QED
    BY <2>4, <2>5
<1>7. CASE EvaluatePart
  BY <1>5, <1>7 DEF EvaluatePart
<1>8. CASE Finish
  BY <1>5, <1>8 DEF Finish
<1>9. CASE Attach
  BY <1>5, <1>9 DEF Attach
<1>10. CASE ReplayFails
  BY <1>5, <1>10 DEF ReplayFails
<1>11. CASE UNCHANGED calibrationVars
  BY <1>5, <1>11 DEF calibrationVars
<1> QED
  BY <1>2, <1>3, <1>6, <1>7, <1>8, <1>9, <1>10, <1>11 DEF CalibrationNext

(* HoldoutCoveredOnce for any number of files, samples and programs: the splits  *)
(* of main(), the nanoseconds given to astra_replay and the parts of the holdout  *)
(* agree, so that every decision that is evaluated at the end is evaluated in      *)
(* its own period, in no other, and one of the holdout in exactly one part.       *)
THEOREM DecisionsEvaluatedOnce == SamplesJoined /\ CalibrationSpec => []HoldoutCoveredOnce
<1>1. CalibrationInv /\ TapesInv /\ [CalibrationNext]_calibrationVars
        => (CalibrationInv /\ TapesInv)'
  <2>1. CalibrationInv /\ [CalibrationNext]_calibrationVars => CalibrationInv'
    <3>1. SelectedInv' /\ ResultsInv' => CalibrationInv'
      BY Zenon DEF CalibrationInv
    <3> QED
      BY <3>1, StepKeepsSelected, StepKeepsResults, Zenon
  <2> QED
    BY <2>1, StepKeepsTapes, Zenon
<1>2. SamplesJoined /\ CalibrationInv /\ TapesInv => HoldoutCoveredOnce
  <2> SUFFICES ASSUME SamplesJoined, CalibrationInv, TapesInv, phase = "done", tapes # <<>>,
                      NEW i \in DOMAIN Splits, NEW j \in DOMAIN tapes[i]
               PROVE  LET time == file.rows[tapes[i][j].sequence].time
                      IN  /\ {name \in DOMAIN SplitPeriods :
                                SplitPeriods[name][1] <= time /\ time <= SplitPeriods[name][2]}
                               = {Splits[i]}
                          /\ Cardinality({n \in DOMAIN SubPeriods :
                                SubPeriods[n][1] <= time /\ time <= SubPeriods[n][2]})
                               = IF Splits[i] = "holdout_2026" THEN 1 ELSE 0
    BY DEF HoldoutCoveredOnce
  <2> DEFINE time == file.rows[tapes[i][j].sequence].time
  <2>1. DOMAIN Splits = 1 .. 3
    BY DEF Splits
  <2>2. Len(tapes) = 3
    BY DEF CalibrationInv, ResultsInv, TapesInv
  <2>3. tapes[i] = FinalTape(Rows(file, Splits[i])) /\ file \in Files
    BY <2>1, <2>2 DEF TapesInv
  <2>4. time \in Int /\ SampleSplit(time) = Splits[i]
    BY <2>3, LinesOfSplit
  <2> HIDE DEF time
  <2>5. {name \in DOMAIN SplitPeriods :
            SplitPeriods[name][1] <= time /\ time <= SplitPeriods[name][2]} = {Splits[i]}
    BY <2>4, SplitIsPeriod
  <2>6. Cardinality({n \in DOMAIN SubPeriods :
            SubPeriods[n][1] <= time /\ time <= SubPeriods[n][2]})
          = IF SampleSplit(time) = "holdout_2026" THEN 1 ELSE 0
    BY <2>4, HoldoutInParts
  <2> QED
    BY <2>4, <2>5, <2>6, Zenon DEF time
<1>3. SamplesJoined => SamplesJoined'
  BY DEF SamplesJoined
<1> QED
  BY <1>1, <1>2, <1>3, InitCalibrationInv, InitTapes, PTL DEF CalibrationSpec

-----------------------------------------------------------------------------
(* More of what a comprehension keeps. *)

LEMMA PlacesUnfold ==
    ASSUME NEW length \in Nat, NEW chosen
    PROVE  \E f : /\ Places(length, chosen) = f[length]
                  /\ \A n \in 0 .. length : f[n] = KeptAt(chosen, f, n)
<1> DEFINE f == CHOOSE g : IsKept(length, chosen, g)
<1>1. IsKept(length, chosen, f)
  BY KeptExists
<1>2. Places(length, chosen) = f[length]
  BY DEF Places, IsKept, KeptAt
<1> HIDE DEF f
<1>3. \A n \in 0 .. length : f[n] = KeptAt(chosen, f, n)
  BY <1>1 DEF IsKept
<1> QED
  BY <1>2, <1>3

(* What is not chosen does not count. *)
LEMMA PlacesSame ==
    ASSUME NEW short \in Nat, NEW long \in Nat, short <= long, NEW s, NEW t,
           \A n \in 1 .. short : n \in s <=> n \in t,
           \A n \in short + 1 .. long : n \notin t
    PROVE  Places(short, s) = Places(long, t)
<1>1. PICK f : /\ Places(short, s) = f[short]
               /\ \A n \in 0 .. short : f[n] = KeptAt(s, f, n)
  BY PlacesUnfold
<1>2. PICK g : /\ Places(long, t) = g[long]
               /\ \A n \in 0 .. long : g[n] = KeptAt(t, g, n)
  BY PlacesUnfold
<1> DEFINE P == {n \in Nat : n <= long => g[n] = f[IF n <= short THEN n ELSE short]}
<1>3. 0 \in P
  BY <1>1, <1>2 DEF KeptAt
<1>4. ASSUME NEW n \in Nat, n \in P PROVE n + 1 \in P
  <2> SUFFICES ASSUME n + 1 <= long PROVE g[n + 1] = f[IF n + 1 <= short THEN n + 1 ELSE short]
    OBVIOUS
  <2>1. g[n + 1] = IF n + 1 \in t THEN Append(g[n], n + 1) ELSE g[n]
    BY <1>2 DEF KeptAt
  <2>2. CASE n + 1 <= short
    <3>1. f[n + 1] = IF n + 1 \in s THEN Append(f[n], n + 1) ELSE f[n]
      BY <1>1, <2>2 DEF KeptAt
    <3>2. g[n] = f[n]
      BY <1>4, <2>2
    <3>3. n + 1 \in s <=> n + 1 \in t
      BY <2>2
    <3> QED
      BY <2>1, <2>2, <3>1, <3>2, <3>3
  <2>3. CASE n + 1 > short
    <3>1. n + 1 \notin t
      BY <2>3
    <3>2. g[n] = f[short]
      BY <1>4, <2>3
    <3> QED
      BY <2>1, <2>3, <3>1, <3>2
  <2> QED
    BY <2>2, <2>3
<1> HIDE DEF P
<1>5. long \in P
  BY <1>3, <1>4, Induction
<1> QED
  BY <1>1, <1>2, <1>5 DEF P

(* Places are in order, and every number chosen has one. *)
InOrder(places, numbers) ==
    /\ \A i, j \in DOMAIN places : i < j => places[i] < places[j]
    /\ \A k \in numbers : \E i \in DOMAIN places : places[i] = k

LEMMA PlacesInOrder ==
    ASSUME NEW length \in Nat, NEW chosen
    PROVE  LET places == Places(length, chosen)
           IN  /\ places \in Seq(chosen \cap (1 .. length))
               /\ InOrder(places, chosen \cap (1 .. length))
<1>1. PICK f : /\ Places(length, chosen) = f[length]
               /\ \A n \in 0 .. length : f[n] = KeptAt(chosen, f, n)
  BY PlacesUnfold
<1> DEFINE P == {n \in Nat : n <= length =>
                    f[n] \in Seq(1 .. n) /\ InOrder(f[n], chosen \cap (1 .. n))}
<1>2. 0 \in P
  <2>1. f[0] = <<>>
    BY <1>1 DEF KeptAt
  <2>2. <<>> \in Seq(1 .. 0) /\ InOrder(<<>>, chosen \cap (1 .. 0))
    BY DEF InOrder
  <2> HIDE DEF InOrder
  <2> QED
    BY <2>1, <2>2
<1>3. ASSUME NEW n \in Nat, n \in P PROVE n + 1 \in P
  <2> SUFFICES ASSUME n + 1 <= length
               PROVE  f[n + 1] \in Seq(1 .. n + 1) /\ InOrder(f[n + 1], chosen \cap (1 .. n + 1))
    OBVIOUS
  <2>1. f[n + 1] = IF n + 1 \in chosen THEN Append(f[n], n + 1) ELSE f[n]
    BY <1>1 DEF KeptAt
  <2>2. /\ f[n] \in Seq(1 .. n)
        /\ \A i, j \in DOMAIN f[n] : i < j => f[n][i] < f[n][j]
        /\ \A k \in chosen \cap (1 .. n) : \E i \in DOMAIN f[n] : f[n][i] = k
    BY <1>3 DEF InOrder
  <2> DEFINE q == f[n]
  <2> DEFINE r == f[n + 1]
  <2>3. q \in Seq(1 .. n + 1)
    <3>1. \A i \in DOMAIN q : q[i] \in 1 .. n
      BY <2>2
    <3>2. Len(q) \in Nat /\ q = [i \in 1 .. Len(q) |-> q[i]]
      BY <2>2
    <3> QED
      BY <3>1, <3>2
  <2>4. CASE n + 1 \notin chosen
    <3>1. r = q
      BY <2>1, <2>4
    <3>2. \A k \in chosen \cap (1 .. n + 1) : k \in 1 .. n
      BY <2>4
    <3> HIDE DEF q, r
    <3> QED
      BY <2>2, <2>3, <3>1, <3>2 DEF q, r, InOrder
  <2>5. CASE n + 1 \in chosen
    <3>1. r = Append(q, n + 1)
      BY <2>1, <2>5
    <3>2. /\ \A i, j \in DOMAIN q : i < j => q[i] < q[j]
          /\ \A k \in chosen \cap (1 .. n) : \E i \in DOMAIN q : q[i] = k
          /\ \A i \in DOMAIN q : q[i] \in 1 .. n
      BY <2>2
    <3> HIDE DEF q, r
    <3>3. /\ r \in Seq(1 .. n + 1)
          /\ Len(q) \in Nat /\ DOMAIN q = 1 .. Len(q)
          /\ DOMAIN r = 1 .. Len(q) + 1 /\ r[Len(q) + 1] = n + 1
          /\ \A i \in 1 .. Len(q) : r[i] = q[i]
      BY <2>3, <3>1
    <3>4. ASSUME NEW i \in DOMAIN r, NEW j \in DOMAIN r, i < j PROVE r[i] < r[j]
      <4>1. i \in 1 .. Len(q) /\ r[i] = q[i] /\ q[i] \in 1 .. n
        BY <3>2, <3>3, <3>4
      <4>2. CASE j = Len(q) + 1
        BY <3>3, <4>1, <4>2
      <4>3. CASE j \in 1 .. Len(q)
        BY <3>2, <3>3, <3>4, <4>1, <4>3
      <4> QED
        BY <3>3, <4>2, <4>3
    <3>5. ASSUME NEW k \in chosen \cap (1 .. n + 1) PROVE \E i \in DOMAIN r : r[i] = k
      <4>1. CASE k = n + 1
        BY <3>3, <4>1
      <4>2. CASE k # n + 1
        <5>1. k \in chosen \cap (1 .. n)
          BY <4>2
        <5>2. PICK i \in DOMAIN q : q[i] = k
          BY <3>2, <5>1
        <5> QED
          BY <3>3, <5>2
      <4> QED
        BY <4>1, <4>2
    <3> QED
      BY <3>3, <3>4, <3>5 DEF r, InOrder
  <2> QED
    BY <2>4, <2>5
<1> HIDE DEF P
<1>4. length \in P
  BY <1>2, <1>3, Induction
<1>5. Places(length, chosen) \in Seq(chosen \cap (1 .. length))
  BY PlacesChosen
<1> QED
  BY <1>1, <1>4, <1>5 DEF P

(* A prefix is kept as it is. *)
LEMMA PlacesOfPrefix ==
    ASSUME NEW length \in Nat, NEW d \in 0 .. length, NEW chosen,
           \A n \in 1 .. length : n \in chosen <=> n <= d
    PROVE  Places(length, chosen) = [n \in 1 .. d |-> n]
<1>1. Places(d, chosen) = Places(length, chosen)
  <2>1. \A n \in d + 1 .. length : n \notin chosen
    OBVIOUS
  <2> QED
    BY <2>1, PlacesSame
<1>2. PICK f : /\ Places(d, chosen) = f[d]
               /\ \A n \in 0 .. d : f[n] = KeptAt(chosen, f, n)
  BY PlacesUnfold
<1> DEFINE P == {n \in Nat : n <= d => f[n] = [k \in 1 .. n |-> k]}
<1>3. 0 \in P
  BY <1>2 DEF KeptAt
<1>4. ASSUME NEW n \in Nat, n \in P PROVE n + 1 \in P
  <2> SUFFICES ASSUME n + 1 <= d PROVE f[n + 1] = [k \in 1 .. n + 1 |-> k]
    OBVIOUS
  <2>1. f[n + 1] = Append(f[n], n + 1)
    <3>1. n + 1 \in chosen
      OBVIOUS
    <3>2. f[n + 1] = IF n + 1 \in chosen THEN Append(f[n], n + 1) ELSE f[n]
      BY <1>2 DEF KeptAt
    <3> QED
      BY <3>1, <3>2
  <2>2. f[n] = [k \in 1 .. n |-> k]
    BY <1>4
  <2> QED
    BY <2>1, <2>2
<1> HIDE DEF P
<1>5. d \in P
  BY <1>3, <1>4, Induction
<1> QED
  BY <1>1, <1>2, <1>5 DEF P

(* Numbers that are chosen with all before them are those up to one of them. *)
LEMMA ChosenPrefix ==
    ASSUME NEW length \in Nat, NEW chosen,
           \A i, j \in 1 .. length : i < j /\ j \in chosen => i \in chosen
    PROVE  \E d \in 0 .. length : \A n \in 1 .. length : n \in chosen <=> n <= d
<1> DEFINE P == {n \in Nat : n <= length =>
                    \E d \in 0 .. n : \A i \in 1 .. n : i \in chosen <=> i <= d}
<1>1. 0 \in P
  OBVIOUS
<1>2. ASSUME NEW n \in Nat, n \in P PROVE n + 1 \in P
  <2> SUFFICES ASSUME n + 1 <= length
               PROVE  \E d \in 0 .. n + 1 : \A i \in 1 .. n + 1 : i \in chosen <=> i <= d
    OBVIOUS
  <2>1. CASE n + 1 \in chosen
    <3>1. \A i \in 1 .. n + 1 : i \in chosen <=> i <= n + 1
      BY <2>1
    <3> QED
      BY <3>1
  <2>2. CASE n + 1 \notin chosen
    <3>1. PICK d \in 0 .. n : \A i \in 1 .. n : i \in chosen <=> i <= d
      BY <1>2
    <3>2. \A i \in 1 .. n + 1 : i \in chosen <=> i <= d
      BY <2>2, <3>1
    <3> QED
      BY <3>1, <3>2
  <2> QED
    BY <2>1, <2>2
<1> HIDE DEF P
<1>3. length \in P
  BY <1>1, <1>2, Induction
<1> QED
  BY <1>3 DEF P

-----------------------------------------------------------------------------
(* Two inputs that are alike before the holdout. *)

HoldoutStart == SplitPeriods["holdout_2026"][1]

ListInOrder(list) ==
    /\ Len(list) \in Nat /\ DOMAIN list = 1 .. Len(list)
    /\ \A i \in DOMAIN list : list[i].time \in Int
    /\ \A i, j \in DOMAIN list : i <= j => list[i].time <= list[j].time

Before(list) == {i \in DOMAIN list : list[i].time < HoldoutStart}

(* Both lists are the same up to d, where what is before the holdout ends. *)
AlikeUpTo(a, b, d) ==
    /\ d \in 0 .. Len(a) /\ d \in 0 .. Len(b)
    /\ \A n \in 1 .. d : a[n] = b[n] /\ a[n].time < HoldoutStart
    /\ \A n \in d + 1 .. Len(a) : ~(a[n].time < HoldoutStart)
    /\ \A n \in d + 1 .. Len(b) : ~(b[n].time < HoldoutStart)

LEMMA BeforeIsPrefix ==
    ASSUME NEW list, ListInOrder(list)
    PROVE  \E d \in 0 .. Len(list) :
              /\ \A n \in 1 .. Len(list) : n \in Before(list) <=> n <= d
              /\ Chosen(list, Before(list)) = [n \in 1 .. d |-> list[n]]
<1>1. HoldoutStart \in Int
  BY DEF HoldoutStart, SplitPeriods
<1>2. \A i, j \in 1 .. Len(list) : i < j /\ j \in Before(list) => i \in Before(list)
  BY <1>1 DEF Before, ListInOrder
<1>3. Len(list) \in Nat
  BY DEF ListInOrder
<1>4. PICK d \in 0 .. Len(list) : \A n \in 1 .. Len(list) : n \in Before(list) <=> n <= d
  BY <1>2, <1>3, ChosenPrefix, Zenon
<1>5. Places(Len(list), Before(list)) = [n \in 1 .. d |-> n]
  BY <1>3, <1>4, PlacesOfPrefix, Zenon
<1>6. Chosen(list, Before(list)) = [n \in 1 .. d |-> list[n]]
  BY <1>5 DEF Chosen
<1> QED
  BY <1>4, <1>6

LEMMA BeforeAlike ==
    ASSUME NEW a, NEW b, ListInOrder(a), ListInOrder(b),
           Chosen(a, Before(a)) = Chosen(b, Before(b))
    PROVE  \E d : AlikeUpTo(a, b, d)
<1>1. PICK d \in 0 .. Len(a) :
              /\ \A n \in 1 .. Len(a) : n \in Before(a) <=> n <= d
              /\ Chosen(a, Before(a)) = [n \in 1 .. d |-> a[n]]
  BY BeforeIsPrefix
<1>2. PICK e \in 0 .. Len(b) :
              /\ \A n \in 1 .. Len(b) : n \in Before(b) <=> n <= e
              /\ Chosen(b, Before(b)) = [n \in 1 .. e |-> b[n]]
  BY BeforeIsPrefix
<1>3. Len(a) \in Nat /\ Len(b) \in Nat /\ DOMAIN a = 1 .. Len(a) /\ DOMAIN b = 1 .. Len(b)
  BY DEF ListInOrder
<1> DEFINE p == [n \in 1 .. d |-> a[n]]
<1> DEFINE q == [n \in 1 .. e |-> b[n]]
<1>4. p = q
  BY <1>1, <1>2
<1>5. d = e
  <2>1. 1 .. d = 1 .. e
    <3>1. DOMAIN p = 1 .. d /\ DOMAIN q = 1 .. e
      OBVIOUS
    <3> HIDE DEF p, q
    <3> QED
      BY <1>4, <3>1
  <2>2. d \in Nat /\ e \in Nat
    BY <1>3
  <2> QED
    BY <2>1, <2>2
<1>6. ASSUME NEW n \in 1 .. d PROVE a[n] = b[n] /\ a[n].time < HoldoutStart
  <2>1. p[n] = a[n] /\ q[n] = b[n]
    BY <1>5
  <2>2. n \in Before(a)
    BY <1>1, <1>3
  <2> HIDE DEF p, q
  <2> QED
    BY <1>4, <2>1, <2>2 DEF Before
<1>7. \A n \in d + 1 .. Len(a) : ~(a[n].time < HoldoutStart)
  BY <1>1, <1>3 DEF Before
<1>8. \A n \in d + 1 .. Len(b) : ~(b[n].time < HoldoutStart)
  BY <1>2, <1>3, <1>5 DEF Before
<1> QED
  BY <1>2, <1>5, <1>6, <1>7, <1>8 DEF AlikeUpTo

Within(list, T) == {i \in DOMAIN list : list[i].time \in T}

(* What is chosen by a condition that only times before the holdout meet is the  *)
(* same in both.                                                            *)
LEMMA ChosenAlike ==
    ASSUME NEW a, NEW b, NEW d, ListInOrder(a), ListInOrder(b), AlikeUpTo(a, b, d),
           NEW T, \A time \in T : time < HoldoutStart
    PROVE  /\ Places(Len(a), Within(a, T)) = Places(Len(b), Within(b, T))
           /\ Places(Len(a), Within(a, T)) \in Seq(1 .. d)
           /\ Chosen(a, Within(a, T)) = Chosen(b, Within(b, T))
<1> DEFINE s == Within(a, T)
<1> DEFINE t == Within(b, T)
<1> DEFINE places == Places(Len(a), s)
<1>1. /\ Len(a) \in Nat /\ Len(b) \in Nat /\ DOMAIN a = 1 .. Len(a) /\ DOMAIN b = 1 .. Len(b)
      /\ d \in Nat /\ d <= Len(a) /\ d <= Len(b)
  BY DEF ListInOrder, AlikeUpTo
<1>2. \A n \in 1 .. d : n \in s <=> n \in t
  BY <1>1 DEF AlikeUpTo, Within
<1>3. \A n \in d + 1 .. Len(a) : n \notin s
  BY <1>1 DEF AlikeUpTo, Within
<1>4. \A n \in d + 1 .. Len(b) : n \notin t
  BY <1>1 DEF AlikeUpTo, Within
<1> HIDE DEF s, t
<1>5. Places(d, s) = Places(Len(a), s)
  <2>1. \A n \in 1 .. d : n \in s <=> n \in s
    OBVIOUS
  <2> QED
    BY <1>1, <1>3, <2>1, PlacesSame
<1>6. Places(d, s) = Places(Len(b), t)
  BY <1>1, <1>2, <1>4, PlacesSame
<1>7. places \in Seq(1 .. d)
  <2>1. Places(d, s) \in Seq(s \cap (1 .. d))
    BY <1>1, PlacesChosen
  <2>2. places = Places(d, s)
    BY <1>5
  <2> HIDE DEF places
  <2>3. \A S : S \cap (1 .. d) \subseteq 1 .. d
    OBVIOUS
  <2>4. \A q, S, U : q \in Seq(S) /\ S \subseteq U => q \in Seq(U)
    OBVIOUS
  <2> QED
    BY <2>1, <2>2, <2>3, <2>4, Zenon
<1>8. \A n \in DOMAIN places : a[places[n]] = b[places[n]]
  BY <1>7 DEF AlikeUpTo
<1>9. Chosen(a, s) = Chosen(b, t)
  <2>1. Places(Len(b), t) = places
    BY <1>5, <1>6
  <2> HIDE DEF places
  <2>2. Chosen(a, s) = [n \in DOMAIN places |-> a[places[n]]]
    BY DEF Chosen, places
  <2>3. Chosen(b, t) = [n \in DOMAIN places |-> b[places[n]]]
    BY <2>1 DEF Chosen
  <2> QED
    BY <1>8, <2>2, <2>3
<1> QED
  BY <1>5, <1>6, <1>7, <1>9 DEF s, t

-----------------------------------------------------------------------------
(* Rows and samples are in the order of time, and a sample has a row. *)
FilesInOrder ==
    \A input \in Files :
        /\ ListInOrder(input.rows) /\ ListInOrder(input.samples)
        /\ \A i \in DOMAIN input.samples :
              input.samples[i].sequence \in Nat /\ input.samples[i].sequence \in DOMAIN input.rows

(* A sample is the same in two inputs, and so is all that came before it. *)
SampleAlike(a, b, i) ==
    /\ i \in DOMAIN a.samples /\ i \in DOMAIN b.samples
    /\ a.samples[i] = b.samples[i]
    /\ \A n \in 1 .. a.samples[i].sequence : a.rows[n] = b.rows[n]

Twins(a, b) ==
    /\ FilesInOrder /\ SamplesJoined
    /\ a \in Files /\ b \in Files
    /\ Development(a) = Development(b)

LEMMA TwinsAlike ==
    ASSUME NEW a, NEW b, Twins(a, b)
    PROVE  /\ \E d : AlikeUpTo(a.rows, b.rows, d)
           /\ \E d : AlikeUpTo(a.samples, b.samples, d)
<1>1. /\ ListInOrder(a.rows) /\ ListInOrder(a.samples)
      /\ ListInOrder(b.rows) /\ ListInOrder(b.samples)
  BY DEF Twins, FilesInOrder
<1>2. /\ Chosen(a.rows, Before(a.rows)) = Chosen(b.rows, Before(b.rows))
      /\ Chosen(a.samples, Before(a.samples)) = Chosen(b.samples, Before(b.samples))
  <2>1. Development(a).rows = Development(b).rows /\ Development(a).samples = Development(b).samples
    BY DEF Twins
  <2>2. \A input : /\ Development(input).rows = Chosen(input.rows, Before(input.rows))
                   /\ Development(input).samples = Chosen(input.samples, Before(input.samples))
    BY DEF Development, Before, HoldoutStart
  <2> QED
    BY <2>1, <2>2, Zenon
<1>3. \E d : AlikeUpTo(a.rows, b.rows, d)
  BY <1>1, <1>2, BeforeAlike, Zenon
<1>4. \E d : AlikeUpTo(a.samples, b.samples, d)
  BY <1>1, <1>2, BeforeAlike, Zenon
<1> QED
  BY <1>3, <1>4

LEMMA DevelopmentTimes ==
    \A time \in Int : SampleSplit(time) \in {"development_train", "development_validation"} =>
                          time < HoldoutStart
BY DEF SampleSplit, HoldoutStart, SplitPeriods

(* The samples of the first two periods are at the same places, and alike. *)
LEMMA TwinRows ==
    ASSUME NEW a, NEW b, Twins(a, b),
           NEW split \in {"development_train", "development_validation"}
    PROVE  /\ Rows(a, split) = Rows(b, split)
           /\ Rows(a, split) \in Seq(Nat)
           /\ \A n \in DOMAIN Rows(a, split) : SampleAlike(a, b, Rows(a, split)[n])
<1>1. PICK d : AlikeUpTo(a.samples, b.samples, d)
  BY TwinsAlike
<1>2. PICK e : AlikeUpTo(a.rows, b.rows, e)
  BY TwinsAlike
<1>3. /\ ListInOrder(a.rows) /\ ListInOrder(a.samples)
      /\ ListInOrder(b.rows) /\ ListInOrder(b.samples)
  BY DEF Twins, FilesInOrder
<1> DEFINE T == {time \in Int : SampleSplit(time) = split}
<1>4. \A time \in T : time < HoldoutStart
  BY DevelopmentTimes
<1>5. /\ {i \in DOMAIN a.samples : SampleSplit(a.samples[i].time) = split}
           = Within(a.samples, T)
      /\ {i \in DOMAIN b.samples : SampleSplit(b.samples[i].time) = split}
           = Within(b.samples, T)
  BY <1>3 DEF ListInOrder, Within
<1> HIDE DEF T
<1>6. /\ Rows(a, split) = Places(Len(a.samples), Within(a.samples, T))
      /\ Rows(b, split) = Places(Len(b.samples), Within(b.samples, T))
  BY <1>5 DEF Rows
<1>7. Rows(a, split) = Rows(b, split) /\ Rows(a, split) \in Seq(1 .. d)
  BY <1>1, <1>3, <1>4, <1>6, ChosenAlike
<1>8. d \in Nat
  BY <1>1, <1>3 DEF AlikeUpTo, ListInOrder
<1>9. ASSUME NEW n \in DOMAIN Rows(a, split) PROVE SampleAlike(a, b, Rows(a, split)[n])
  <2> DEFINE i == Rows(a, split)[n]
  <2>1. i \in 1 .. d
    BY <1>7, <1>8
  <2> HIDE DEF i
  <2>2. /\ a.samples[i] = b.samples[i] /\ a.samples[i].time < HoldoutStart
        /\ i \in DOMAIN a.samples /\ i \in DOMAIN b.samples
    BY <1>1, <1>3, <1>8, <2>1 DEF AlikeUpTo, ListInOrder
  <2> DEFINE s == a.samples[i].sequence
  <2>3. s \in Nat /\ s \in DOMAIN a.rows /\ a.rows[s].time = a.samples[i].time
    BY <2>2 DEF Twins, FilesInOrder, SamplesJoined
  <2> HIDE DEF s
  <2>4. e \in 0 .. Len(a.rows) /\ DOMAIN a.rows = 1 .. Len(a.rows) /\ Len(a.rows) \in Nat
    BY <1>2, <1>3 DEF AlikeUpTo, ListInOrder
  <2>5. s <= e
    <3>1. ~(s \in e + 1 .. Len(a.rows))
      BY <1>2, <2>2, <2>3 DEF AlikeUpTo
    <3> QED
      BY <2>3, <2>4, <3>1
  <2>6. \A k \in 1 .. s : a.rows[k] = b.rows[k]
    BY <1>2, <2>3, <2>4, <2>5 DEF AlikeUpTo
  <2> QED
    BY <2>2, <2>6 DEF SampleAlike, i, s
<1>10. Rows(a, split) \in Seq(Nat)
  BY <1>7, <1>8
<1> QED
  BY <1>7, <1>9, <1>10

-----------------------------------------------------------------------------
(* What is learned from the first period is the same for both. *)

AllAlike(a, b, places) == \A n \in DOMAIN places : SampleAlike(a, b, places[n])

LEMMA AlikeLists ==
    ASSUME NEW a, NEW b, NEW places, AllAlike(a, b, places)
    PROVE  /\ Lesson(a, places) = Lesson(b, places)
           /\ Labels(a, places) = Labels(b, places)
           /\ [n \in DOMAIN places |-> a.samples[places[n]]]
                = [n \in DOMAIN places |-> b.samples[places[n]]]
<1>1. \A n \in DOMAIN places : a.samples[places[n]] = b.samples[places[n]]
  BY DEF AllAlike, SampleAlike
<1>2. Lesson(a, places) = Lesson(b, places)
  BY <1>1 DEF Lesson
<1>3. Labels(a, places) = Labels(b, places)
  BY <1>1 DEF Labels
<1> QED
  BY <1>1, <1>2, <1>3

LEMMA TwinSplits ==
    ASSUME NEW a, NEW b, Twins(a, b)
    PROVE  /\ Fitted(a) = Fitted(b) /\ AllAlike(a, b, Fitted(a))
           /\ ValidationRows(a) = ValidationRows(b) /\ AllAlike(a, b, ValidationRows(a))
<1> DEFINE first == "development_train"
<1> DEFINE second == "development_validation"
<1>1. Rows(a, first) = Rows(b, first) /\ AllAlike(a, b, Rows(a, first))
  BY TwinRows DEF AllAlike
<1>2. Rows(a, second) = Rows(b, second) /\ AllAlike(a, b, Rows(a, second))
  BY TwinRows DEF AllAlike
<1> QED
  BY <1>1, <1>2 DEF Fitted, TrainRows, ValidationRows

LEMMA TwinTemperatures ==
    ASSUME NEW a, NEW b, Twins(a, b), NEW lesson
    PROVE  Temperature(a, lesson) = Temperature(b, lesson)
<1> DEFINE kept == ValidationRows(a)
<1>1. ValidationRows(b) = kept
  BY TwinSplits
<1>2. \A n \in DOMAIN kept : a.samples[kept[n]] = b.samples[kept[n]]
  BY TwinSplits DEF AllAlike, SampleAlike
<1> DEFINE chances(input, t) ==
      [n \in DOMAIN kept |->
          ProbabilityOf(input.samples[kept[n]].label,
                        Predict(lesson, input.samples[kept[n]].features, t))]
<1>3. ASSUME NEW t PROVE ValidationLoss(a, lesson, t) = ValidationLoss(b, lesson, t)
  <2>1. chances(a, t) = chances(b, t)
    <3> HIDE DEF kept
    <3> QED
      BY <1>2
  <2>2. ValidationLoss(a, lesson, t) = Loss(chances(a, t))
    BY DEF ValidationLoss
  <2>3. ValidationLoss(b, lesson, t) = Loss(chances(b, t))
    BY <1>1 DEF ValidationLoss
  <2> QED
    BY <2>1, <2>2, <2>3
<1>4. [t \in TemperatureGrid |-> ValidationLoss(a, lesson, t)]
        = [t \in TemperatureGrid |-> ValidationLoss(b, lesson, t)]
  BY <1>3
<1> QED
  BY <1>4 DEF Temperature

(* An efficiency looks back only. *)
LEMMA AlikeEfficiencies ==
    ASSUME NEW a, NEW b, Twins(a, b), NEW i, SampleAlike(a, b, i)
    PROVE  Efficiencies(a)[i] = Efficiencies(b)[i]
<1> DEFINE sample == a.samples[i]
<1> DEFINE last == sample.sequence
<1>1. /\ i \in DOMAIN a.samples /\ i \in DOMAIN b.samples /\ b.samples[i] = sample
      /\ \A n \in 1 .. last : a.rows[n] = b.rows[n]
  BY DEF SampleAlike
<1>2. last \in Nat
  BY <1>1 DEF Twins, FilesInOrder
<1>3. Efficiencies(a)[i] = Efficiency(a, sample) /\ Efficiencies(b)[i] = Efficiency(b, sample)
  BY <1>1 DEF Efficiencies
<1>4. CASE last - 1 < Lookback
  BY <1>3, <1>4 DEF Efficiency
<1>5. CASE ~(last - 1 < Lookback)
  <2> DEFINE window(input) == [n \in last - Lookback .. last |-> input.rows[n].price]
  <2>1. window(a) = window(b)
    <3>1. last - Lookback >= 1
      BY <1>2, <1>5, CalibrationAssumption
    <3>2. \A n \in last - Lookback .. last : n \in 1 .. last
      BY <1>2, <3>1, CalibrationAssumption
    <3> HIDE DEF last
    <3> QED
      BY <1>1, <3>2
  <2>2. Efficiency(a, sample) = EfficiencyOf(window(a), sample)
    BY <1>5 DEF Efficiency
  <2>3. Efficiency(b, sample) = EfficiencyOf(window(b), sample)
    BY <1>5 DEF Efficiency
  <2> QED
    BY <1>3, <2>1, <2>2, <2>3
<1> QED
  BY <1>4, <1>5

LEMMA TwinThresholds ==
    ASSUME NEW a, NEW b, Twins(a, b)
    PROVE  Thresholds(a, Efficiencies(a)) = Thresholds(b, Efficiencies(b))
<1> DEFINE kept == Fitted(a)
<1> DEFINE vols(input) == [i \in DOMAIN input.samples |-> input.samples[i].features.vol]
<1> DEFINE of(values) == [n \in DOMAIN kept |-> values[kept[n]]]
<1>1. Fitted(b) = kept /\ AllAlike(a, b, kept)
  BY TwinSplits
<1>2. of(Efficiencies(a)) = of(Efficiencies(b))
  <2>1. \A n \in DOMAIN kept : Efficiencies(a)[kept[n]] = Efficiencies(b)[kept[n]]
    BY <1>1, AlikeEfficiencies DEF AllAlike
  <2> QED
    BY <2>1
<1>3. of(vols(a)) = of(vols(b))
  <2>1. \A n \in DOMAIN kept : vols(a)[kept[n]] = vols(b)[kept[n]]
    <3>1. \A n \in DOMAIN kept :
            /\ kept[n] \in DOMAIN a.samples /\ kept[n] \in DOMAIN b.samples
            /\ a.samples[kept[n]] = b.samples[kept[n]]
      BY <1>1 DEF AllAlike, SampleAlike
    <3> HIDE DEF kept
    <3> QED
      BY <3>1
  <2> HIDE DEF vols
  <2> QED
    BY <2>1
<1>4. Thresholds(a, Efficiencies(a)) =
        [efficiency |-> Quantile(of(Efficiencies(a)), 60),
         high_vol |-> Quantile(of(vols(a)), 75), low_vol |-> Quantile(of(vols(a)), 25)]
  BY DEF Thresholds
<1>5. Thresholds(b, Efficiencies(b)) =
        [efficiency |-> Quantile(of(Efficiencies(b)), 60),
         high_vol |-> Quantile(of(vols(b)), 75), low_vol |-> Quantile(of(vols(b)), 25)]
  BY <1>1 DEF Thresholds
<1> HIDE DEF of, vols
<1> QED
  BY <1>2, <1>3, <1>4, <1>5

LEMMA AlikeRegimes ==
    ASSUME NEW a, NEW b, Twins(a, b), NEW i, SampleAlike(a, b, i)
    PROVE  Regimes(a)[i] = Regimes(b)[i]
<1>1. i \in DOMAIN a.samples /\ i \in DOMAIN b.samples /\ a.samples[i] = b.samples[i]
  BY DEF SampleAlike
<1>2. Regimes(a)[i] = Regime(Efficiencies(a)[i], a.samples[i].features,
                             Thresholds(a, Efficiencies(a)))
  BY <1>1 DEF Regimes, RegimesBy
<1>3. Regimes(b)[i] = Regime(Efficiencies(b)[i], b.samples[i].features,
                             Thresholds(b, Efficiencies(b)))
  BY <1>1 DEF Regimes, RegimesBy
<1>4. /\ Efficiencies(a)[i] = Efficiencies(b)[i]
      /\ Thresholds(a, Efficiencies(a)) = Thresholds(b, Efficiencies(b))
  BY AlikeEfficiencies, TwinThresholds
<1> QED
  BY <1>1, <1>2, <1>3, <1>4

LEMMA TwinExperts ==
    ASSUME NEW a, NEW b, Twins(a, b), NEW name
    PROVE  Lesson(a, ExpertRows(a, Regimes(a), name)) = Lesson(b, ExpertRows(b, Regimes(b), name))
<1> DEFINE kept == Fitted(a)
<1> DEFINE ofA == {n \in DOMAIN kept : Regimes(a)[kept[n]][1] = name}
<1> DEFINE ofB == {n \in DOMAIN kept : Regimes(b)[kept[n]][1] = name}
<1>1. Fitted(b) = kept /\ AllAlike(a, b, kept)
  BY TwinSplits
<1>2. \A n \in DOMAIN kept : Regimes(a)[kept[n]] = Regimes(b)[kept[n]]
  BY <1>1, AlikeRegimes DEF AllAlike
<1>3. ofA = ofB
  <2> HIDE DEF kept
  <2> QED
    BY <1>2
<1>4. ExpertRows(a, Regimes(a), name) = Chosen(kept, ofA)
  BY DEF ExpertRows
<1>5. ExpertRows(b, Regimes(b), name) = Chosen(kept, ofB)
  BY <1>1 DEF ExpertRows
<1>6. Len(kept) \in Nat
  BY TwinRows DEF Fitted, TrainRows
<1>7. ofA \subseteq DOMAIN kept
  OBVIOUS
<1> HIDE DEF kept, ofA, ofB
<1>8. AllAlike(a, b, Chosen(kept, ofA))
  <2>1. Places(Len(kept), ofA) \in Seq(ofA \cap (1 .. Len(kept)))
    BY <1>6, PlacesChosen
  <2> DEFINE places == Places(Len(kept), ofA)
  <2>2. \A n \in DOMAIN places : places[n] \in ofA
    BY <2>1
  <2>3. Chosen(kept, ofA) = [n \in DOMAIN places |-> kept[places[n]]]
    BY DEF Chosen
  <2> HIDE DEF places
  <2> QED
    BY <1>1, <1>7, <2>2, <2>3 DEF AllAlike
<1> QED
  BY <1>3, <1>4, <1>5, <1>8, AlikeLists

LEMMA TwinRouted ==
    ASSUME NEW a, NEW b, Twins(a, b), NEW i, SampleAlike(a, b, i)
    PROVE  RoutedPredictions(a, Regimes(a))[i] = RoutedPredictions(b, Regimes(b))[i]
<1> DEFINE lessons(input) ==
      [name \in Experts |-> Lesson(input, ExpertRows(input, Regimes(input), name))]
<1>1. lessons(a) = lessons(b)
  BY TwinExperts
<1>2. i \in DOMAIN a.samples /\ i \in DOMAIN b.samples /\ a.samples[i] = b.samples[i]
  BY DEF SampleAlike
<1>3. RoutedPredictions(a, Regimes(a))[i]
        = Predict(lessons(a)[Regimes(a)[i][1]], a.samples[i].features, 100)
  BY <1>2 DEF RoutedPredictions
<1>4. RoutedPredictions(b, Regimes(b))[i]
        = Predict(lessons(b)[Regimes(b)[i][1]], b.samples[i].features, 100)
  BY <1>2 DEF RoutedPredictions
<1>5. Regimes(a)[i] = Regimes(b)[i]
  BY AlikeRegimes
<1> HIDE DEF lessons
<1> QED
  BY <1>1, <1>2, <1>3, <1>4, <1>5

RegimesOf(kind, input) == IF UsesRegimes(kind) THEN Regimes(input) ELSE <<>>

(* The models: temperature, and probabilities of samples that are alike. *)
LEMMA TwinModels ==
    ASSUME NEW a, NEW b, Twins(a, b), NEW kind \in Programs
    PROVE  /\ Learn(kind, a).temperature = Learn(kind, b).temperature
           /\ \A i : SampleAlike(a, b, i) =>
                 Learn(kind, a).probabilities[i] = Learn(kind, b).probabilities[i]
           /\ \A input : Learn(kind, input).regimes = RegimesOf(kind, input)
           /\ \A input : Learn(kind, input).candidates = Candidates(kind, RegimesOf(kind, input))
<1> DEFINE lesson(input) == Lesson(input, Fitted(input))
<1> DEFINE temperature(input) == TemperatureFor(kind, input, lesson(input))
<1>1. \A input : Learn(kind, input) =
          LearnFrom(kind, input, RegimesOf(kind, input), lesson(input), temperature(input))
  BY DEF Learn, RegimesOf
<1>2. lesson(a) = lesson(b)
  BY TwinSplits, AlikeLists
<1>3. temperature(a) = temperature(b)
  BY <1>2, TwinTemperatures DEF TemperatureFor
<1> HIDE DEF lesson, temperature
<1>4. \A input : /\ Learn(kind, input).temperature = temperature(input)
                 /\ Learn(kind, input).regimes = RegimesOf(kind, input)
                 /\ Learn(kind, input).candidates = Candidates(kind, RegimesOf(kind, input))
                 /\ Learn(kind, input).probabilities =
                      IF kind = "experts" THEN RoutedPredictions(input, RegimesOf(kind, input))
                      ELSE Predictions(input, lesson(input), temperature(input))
  BY <1>1 DEF LearnFrom
<1>5. ASSUME NEW i, SampleAlike(a, b, i)
      PROVE  Learn(kind, a).probabilities[i] = Learn(kind, b).probabilities[i]
  <2>1. CASE kind = "experts"
    <3>1. RegimesOf(kind, a) = Regimes(a) /\ RegimesOf(kind, b) = Regimes(b)
      BY <2>1 DEF RegimesOf, UsesRegimes
    <3> QED
      BY <1>4, <1>5, <2>1, <3>1, TwinRouted
  <2>2. CASE kind # "experts"
    <3>1. i \in DOMAIN a.samples /\ i \in DOMAIN b.samples /\ a.samples[i] = b.samples[i]
      BY <1>5 DEF SampleAlike
    <3>2. \A input, one, t : i \in DOMAIN input.samples =>
              Predictions(input, one, t)[i] = Predict(one, input.samples[i].features, t)
      BY DEF Predictions
    <3>3. Learn(kind, a).probabilities = Predictions(a, lesson(a), temperature(a))
      BY <1>4, <2>2
    <3>4. Learn(kind, b).probabilities = Predictions(b, lesson(b), temperature(b))
      BY <1>4, <2>2
    <3> QED
      BY <1>2, <1>3, <3>1, <3>2, <3>3, <3>4
  <2> QED
    BY <2>1, <2>2
<1> QED
  BY <1>3, <1>4, <1>5

-----------------------------------------------------------------------------
(* The candidates: gates in the order of GateNames, each with every threshold. *)

PresentIn(regimes) == {regimes[i] : i \in DOMAIN regimes}

GatesFor(present) == {n \in 1 .. 14 : n \in 2 .. 10 => GateNames[n] \in present}

GateOrder(kind, regimes) ==
    IF kind = "router" THEN Places(14, GatesFor(PresentIn(regimes))) ELSE <<1>>

NamesFor(kind) == IF kind = "router" THEN GateNames ELSE <<<<"none">>>>

LEMMA GateNamesLength == Len(GateNames) = 14 /\ DOMAIN GateNames = 1 .. 14 /\ Len(RegimeOrder) = 9
BY DEF GateNames, RegimeOrder

LEMMA SingleGates ==
    \A n \in 2 .. 10 : \A present : AllowedBy(GateNames[n], present) = {GateNames[n]}
<1> SUFFICES ASSUME NEW n \in 2 .. 10, NEW present
             PROVE  AllowedBy(GateNames[n], present) = {GateNames[n]}
  OBVIOUS
<1>1. GateNames[n] = RegimeOrder[n - 1] /\ n - 1 \in 1 .. 9
  BY DEF GateNames, RegimeOrder
<1>2. \A k \in 1 .. 9 : Len(RegimeOrder[k]) = 2
  BY DEF RegimeOrder
<1>3. Len(GateNames[n]) = 2
  BY <1>1, <1>2
<1>4. /\ Len(<<"all">>) = 1 /\ Len(<<"trend">>) = 1 /\ Len(<<"range">>) = 1
      /\ Len(<<"high_vol">>) = 1 /\ Len(<<"low_vol">>) = 1
  OBVIOUS
<1>5. GateNames[n] \notin {<<"all">>, <<"trend">>, <<"range">>, <<"high_vol">>, <<"low_vol">>}
  BY <1>3, <1>4
<1> QED
  BY <1>5 DEF AllowedBy

(* A regime that is there passes a gate or not, whatever else is there. *)
LEMMA GateOfRegime ==
    ASSUME NEW name, NEW present, NEW regime \in present
    PROVE  regime \in AllowedBy(name, present) <=> regime \in AllowedBy(name, {regime})
<1>1. CASE name = <<"all">>
  BY <1>1 DEF AllowedBy
<1>2. CASE name = <<"trend">>
  <2>1. <<"trend">> # <<"all">>
    OBVIOUS
  <2> QED
    BY <1>2, <2>1 DEF AllowedBy
<1>3. CASE name \in {<<"range">>, <<"high_vol">>, <<"low_vol">>}
  <2>1. name # <<"all">> /\ name # <<"trend">>
    BY <1>3
  <2> QED
    BY <1>3, <2>1 DEF AllowedBy
<1>4. CASE name \notin {<<"all">>, <<"trend">>, <<"range">>, <<"high_vol">>, <<"low_vol">>}
  BY <1>4 DEF AllowedBy
<1> QED
  BY <1>1, <1>2, <1>3, <1>4

LEMMA GridLength ==
    ASSUME NEW kind \in Programs
    PROVE  Len(ThresholdGrid(kind)) \in {7, 9} /\ DOMAIN ThresholdGrid(kind) = 1 .. Len(ThresholdGrid(kind))
<1>1. kind \in {"router", "experts", "baseline", "head", "report"}
  BY CalibrationAssumption
<1>2. ASSUME NEW other, other \in {<<340000, 360000, 380000, 400000, 420000, 450000, 500000>>,
             <<400000, 450000, 500000, 550000, 600000, 650000, 700000>>,
             <<340000, 360000, 380000, 400000, 420000, 450000, 500000, 550000, 600000>>}
      PROVE  Len(other) \in {7, 9} /\ DOMAIN other = 1 .. Len(other)
  BY <1>2, SMT
<1>3. ThresholdGrid(kind) \in {<<340000, 360000, 380000, 400000, 420000, 450000, 500000>>,
             <<400000, 450000, 500000, 550000, 600000, 650000, 700000>>,
             <<340000, 360000, 380000, 400000, 420000, 450000, 500000, 550000, 600000>>}
  BY <1>1, SMT DEF ThresholdGrid
<1> QED
  BY <1>2, <1>3

LEMMA GatesListed ==
    ASSUME NEW present
    PROVE  LET order == Places(14, GatesFor(present))
           IN  Gates(present) = [n \in DOMAIN order |->
                  [name |-> GateNames[order[n]], allowed |-> AllowedBy(GateNames[order[n]], present)]]
<1> DEFINE order == Places(14, GatesFor(present))
<1> DEFINE names == [n \in DOMAIN order |-> GateNames[order[n]]]
<1>1. {n \in DOMAIN GateNames : n \in 2 .. Len(RegimeOrder) + 1 => GateNames[n] \in present}
        = GatesFor(present)
  BY GateNamesLength DEF GatesFor
<1>2. Chosen(GateNames, GatesFor(present)) = names
  BY GateNamesLength DEF Chosen
<1>3. Gates(present) = [n \in DOMAIN names |->
                          [name |-> names[n], allowed |-> AllowedBy(names[n], present)]]
  BY <1>1, <1>2 DEF Gates
<1> HIDE DEF order
<1> QED
  BY <1>3 DEF order

LEMMA OrderOfGates ==
    ASSUME NEW kind, NEW regimes
    PROVE  /\ GateOrder(kind, regimes) \in Seq(1 .. 14)
           /\ InOrder(GateOrder(kind, regimes),
                      IF kind = "router" THEN GatesFor(PresentIn(regimes)) ELSE {1})
<1> DEFINE gates == GatesFor(PresentIn(regimes))
<1>1. CASE kind = "router"
  <2>1. gates \cap (1 .. 14) = gates
    BY DEF GatesFor
  <2> HIDE DEF gates
  <2>2. Places(14, gates) \in Seq(gates) /\ InOrder(Places(14, gates), gates)
    <3>1. 14 \in Nat
      OBVIOUS
    <3> QED
      BY <2>1, <3>1, PlacesInOrder
  <2>3. gates \subseteq 1 .. 14
    BY DEF gates, GatesFor
  <2>4. \A q, S, U : q \in Seq(S) /\ S \subseteq U => q \in Seq(U)
    OBVIOUS
  <2>5. Places(14, gates) \in Seq(1 .. 14)
    BY <2>2, <2>3, <2>4, Zenon
  <2> QED
    BY <1>1, <2>2, <2>5 DEF GateOrder, gates
<1>2. CASE kind # "router"
  BY <1>2 DEF GateOrder, InOrder
<1> QED
  BY <1>1, <1>2

GateOf(kind, n) == ((n - 1) \div Len(ThresholdGrid(kind))) + 1

ThresholdOf(kind, n) == ((n - 1) % Len(ThresholdGrid(kind))) + 1

LEMMA CandidatesListed ==
    ASSUME NEW kind \in Programs, NEW regimes
    PROVE  LET order == GateOrder(kind, regimes)
               list == Candidates(kind, regimes)
           IN  /\ Len(list) = Len(order) * Len(ThresholdGrid(kind))
               /\ DOMAIN list = 1 .. Len(list) /\ Len(list) \in Nat
               /\ \A n \in DOMAIN list :
                     /\ GateOf(kind, n) \in 1 .. Len(order)
                     /\ ThresholdOf(kind, n) \in 1 .. Len(ThresholdGrid(kind))
                     /\ list[n].name = NamesFor(kind)[order[GateOf(kind, n)]]
                     /\ list[n].threshold = ThresholdGrid(kind)[ThresholdOf(kind, n)]
                     /\ kind = "router" =>
                           list[n].allowed = AllowedBy(list[n].name, PresentIn(regimes))
<1> DEFINE order == GateOrder(kind, regimes)
<1> DEFINE list == Candidates(kind, regimes)
<1> DEFINE grid == ThresholdGrid(kind)
<1> DEFINE gates == IF kind = "router" THEN Gates(PresentIn(regimes))
                    ELSE <<[name |-> <<"none">>, allowed |-> {}]>>
<1>1. list = Crossed(gates, grid)
  BY DEF Candidates, PresentIn
<1>2. order \in Seq(1 .. 14)
  BY OrderOfGates
<1>3. /\ Len(gates) = Len(order)
      /\ \A g \in 1 .. Len(order) :
            /\ gates[g].name = NamesFor(kind)[order[g]]
            /\ kind = "router" => gates[g].allowed = AllowedBy(gates[g].name, PresentIn(regimes))
  <2>1. CASE kind = "router"
    <3>1. order = Places(14, GatesFor(PresentIn(regimes)))
      BY <2>1 DEF GateOrder
    <3>2. gates = [n \in DOMAIN order |-> [name |-> GateNames[order[n]],
                                           allowed |-> AllowedBy(GateNames[order[n]], PresentIn(regimes))]]
      BY <2>1, <3>1, GatesListed
    <3> HIDE DEF order, gates
    <3> QED
      BY <1>2, <2>1, <3>2 DEF NamesFor
  <2>2. CASE kind # "router"
    BY <2>2 DEF GateOrder, NamesFor
  <2> QED
    BY <2>1, <2>2
<1>4. Len(grid) \in {7, 9}
  BY GridLength
<1> HIDE DEF order, grid, gates
<1> DEFINE size == Len(order) * Len(grid)
<1>5. list = [n \in 1 .. size |->
            [name |-> gates[GateOf(kind, n)].name, allowed |-> gates[GateOf(kind, n)].allowed,
             threshold |-> grid[ThresholdOf(kind, n)]]]
  BY <1>1, <1>3 DEF Crossed, GateOf, ThresholdOf, grid
<1>6. size \in Nat
  BY <1>2, <1>4
<1>7. ASSUME NEW n \in 1 .. size
      PROVE  GateOf(kind, n) \in 1 .. Len(order) /\ ThresholdOf(kind, n) \in 1 .. Len(grid)
  <2>1. Len(order) \in Nat
    BY <1>2
  <2>2. CASE Len(grid) = 7
    BY <1>7, <2>1, <2>2 DEF GateOf, ThresholdOf, grid
  <2>3. CASE Len(grid) = 9
    BY <1>7, <2>1, <2>3 DEF GateOf, ThresholdOf, grid
  <2> QED
    BY <1>4, <2>2, <2>3
<1> HIDE DEF list, size
<1>8. Len(list) = size /\ DOMAIN list = 1 .. size
  BY <1>5, <1>6
<1>9. ASSUME NEW n \in 1 .. size
      PROVE  /\ list[n].name = NamesFor(kind)[order[GateOf(kind, n)]]
             /\ list[n].threshold = grid[ThresholdOf(kind, n)]
             /\ kind = "router" => list[n].allowed = AllowedBy(list[n].name, PresentIn(regimes))
  BY <1>3, <1>5, <1>7
<1> QED
  BY <1>6, <1>7, <1>8, <1>9 DEF list, size, order, grid

-----------------------------------------------------------------------------
(* A candidate of the same name and threshold has the same score on both. *)

(* simulate reads rows at its samples only, so what comes after the last does    *)
(* not count.                                                               *)
SimulationLooksBack ==
    \A one, other \in Files, places \in Seq(Nat) : \A actions, pair :
        AllAlike(one, other, places) =>
            Simulated(one, places, actions, pair) = Simulated(other, places, actions, pair)

IsCandidate(kind, input, candidate) ==
    kind = "router" => candidate.allowed = AllowedBy(candidate.name, PresentIn(Regimes(input)))

SameCandidate(kind, a, b, one, other) ==
    /\ IsCandidate(kind, a, one) /\ IsCandidate(kind, b, other)
    /\ one.name = other.name /\ one.threshold = other.threshold

LEMMA RegimePresent ==
    ASSUME NEW input, NEW i \in DOMAIN input.samples
    PROVE  Regimes(input)[i] \in PresentIn(Regimes(input))
<1>1. DOMAIN Regimes(input) = DOMAIN input.samples
  BY DEF Regimes, RegimesBy
<1> HIDE DEF Regimes
<1> QED
  BY <1>1 DEF PresentIn

LEMMA AlikeClosed ==
    ASSUME NEW a, NEW b, Twins(a, b), NEW kind \in Programs, NEW i, SampleAlike(a, b, i),
           NEW one, NEW other, SameCandidate(kind, a, b, one, other)
    PROVE  ClosedTo(kind, Learn(kind, a), i, one) = ClosedTo(kind, Learn(kind, b), i, other)
<1>1. CASE kind # "router"
  BY <1>1 DEF ClosedTo
<1>2. CASE kind = "router"
  <2>1. Learn(kind, a).regimes = Regimes(a) /\ Learn(kind, b).regimes = Regimes(b)
    BY <1>2, TwinModels DEF RegimesOf, UsesRegimes
  <2> DEFINE regime == Regimes(a)[i]
  <2>2. regime = Regimes(b)[i]
    BY AlikeRegimes
  <2>3. regime \in PresentIn(Regimes(a)) /\ regime \in PresentIn(Regimes(b))
    BY <2>2, RegimePresent DEF SampleAlike
  <2>4. /\ one.allowed = AllowedBy(one.name, PresentIn(Regimes(a)))
        /\ other.allowed = AllowedBy(one.name, PresentIn(Regimes(b)))
    BY <1>2 DEF SameCandidate, IsCandidate
  <2> HIDE DEF regime
  <2> DEFINE name == one.name
  <2> HIDE DEF name
  <2>5. \A present : regime \in present =>
            (regime \in AllowedBy(name, present) <=> regime \in AllowedBy(name, {regime}))
    BY GateOfRegime
  <2>6. regime \in one.allowed <=> regime \in other.allowed
    BY <2>3, <2>4, <2>5 DEF name
  <2>7. ClosedTo(kind, Learn(kind, a), i, one) = (regime \notin one.allowed)
    BY <1>2, <2>1 DEF ClosedTo, regime
  <2>8. ClosedTo(kind, Learn(kind, b), i, other) = (regime \notin other.allowed)
    BY <1>2, <2>1, <2>2 DEF ClosedTo
  <2> QED
    BY <2>6, <2>7, <2>8
<1> QED
  BY <1>1, <1>2

LEMMA AlikeProbabilities ==
    ASSUME NEW a, NEW b, Twins(a, b), NEW kind \in Programs, NEW places, AllAlike(a, b, places),
           NEW one, NEW other, SameCandidate(kind, a, b, one, other)
    PROVE  TriedProbabilities(kind, Learn(kind, a), places, one)
             = TriedProbabilities(kind, Learn(kind, b), places, other)
<1> DEFINE at(model, candidate, n) ==
      IF ClosedTo(kind, model, places[n], candidate) THEN HoldOnly
      ELSE model.probabilities[places[n]]
<1>1. ASSUME NEW n \in DOMAIN places
      PROVE  at(Learn(kind, a), one, n) = at(Learn(kind, b), other, n)
  <2>1. SampleAlike(a, b, places[n])
    BY DEF AllAlike
  <2>2. ClosedTo(kind, Learn(kind, a), places[n], one)
          = ClosedTo(kind, Learn(kind, b), places[n], other)
    BY <2>1, AlikeClosed
  <2>3. Learn(kind, a).probabilities[places[n]] = Learn(kind, b).probabilities[places[n]]
    BY <2>1, TwinModels
  <2> QED
    BY <2>2, <2>3
<1>2. TriedProbabilities(kind, Learn(kind, a), places, one)
        = [n \in DOMAIN places |-> at(Learn(kind, a), one, n)]
  BY DEF TriedProbabilities
<1>3. TriedProbabilities(kind, Learn(kind, b), places, other)
        = [n \in DOMAIN places |-> at(Learn(kind, b), other, n)]
  BY DEF TriedProbabilities
<1> HIDE DEF at
<1> QED
  BY <1>1, <1>2, <1>3

LEMMA AlikeTapes ==
    ASSUME NEW a, NEW b, NEW places, AllAlike(a, b, places), NEW probabilities, NEW threshold
    PROVE  Tape(a, places, probabilities, threshold) = Tape(b, places, probabilities, threshold)
<1>1. \A n \in DOMAIN places : a.samples[places[n]] = b.samples[places[n]]
  BY DEF AllAlike, SampleAlike
<1> QED
  BY <1>1 DEF Tape

LEMMA AlikeLines ==
    ASSUME NEW a, NEW b, Twins(a, b), NEW kind \in Programs, NEW i, SampleAlike(a, b, i),
           NEW one, NEW other, SameCandidate(kind, a, b, one, other)
    PROVE  LineOf(kind, a, Learn(kind, a), one, i) = LineOf(kind, b, Learn(kind, b), other, i)
<1>1. AllAlike(a, b, <<i>>)
  BY DEF AllAlike
<1>2. one.threshold = other.threshold
  BY DEF SameCandidate
<1>3. FinalProbabilities(kind, Learn(kind, a), <<i>>, one)
        = FinalProbabilities(kind, Learn(kind, b), <<i>>, other)
  BY <1>1, AlikeProbabilities, GatesAgree
<1> QED
  BY <1>1, <1>2, <1>3, AlikeTapes DEF LineOf

(* The replay of the second period sees its rows only. *)
LEMMA AlikeRuns ==
    ASSUME NEW a, NEW b, Twins(a, b), NEW tape, NEW pair, NEW gate
    PROVE  RunCpp(a, tape, SplitPeriods["development_validation"], pair, gate)
             = RunCpp(b, tape, SplitPeriods["development_validation"], pair, gate)
<1> DEFINE span == SplitPeriods["development_validation"]
<1> DEFINE T == {time \in Int : span[1] <= time /\ time <= span[2]}
<1>1. \A time \in T : time < HoldoutStart
  BY SMT DEF HoldoutStart, SplitPeriods
<1>2. PICK d : AlikeUpTo(a.rows, b.rows, d)
  BY TwinsAlike
<1>3. ListInOrder(a.rows) /\ ListInOrder(b.rows)
  BY DEF Twins, FilesInOrder
<1> HIDE DEF span
<1>4. \A list : ListInOrder(list) =>
          {i \in DOMAIN list : span[1] <= list[i].time /\ list[i].time <= span[2]}
            = Within(list, T)
  BY DEF Within, ListInOrder
<1> HIDE DEF T
<1>5. Chosen(a.rows, Within(a.rows, T)) = Chosen(b.rows, Within(b.rows, T))
  BY <1>1, <1>2, <1>3, ChosenAlike
<1>6. RunCpp(a, tape, span, pair, gate)
        = Execution(Chosen(a.rows, Within(a.rows, T)), tape, pair, gate)
  BY <1>3, <1>4 DEF RunCpp
<1>7. RunCpp(b, tape, span, pair, gate)
        = Execution(Chosen(b.rows, Within(b.rows, T)), tape, pair, gate)
  BY <1>3, <1>4 DEF RunCpp
<1> QED
  BY <1>5, <1>6, <1>7 DEF span

LEMMA AlikeScores ==
    ASSUME NEW a, NEW b, Twins(a, b), SimulationLooksBack, NEW kind \in Programs,
           NEW one, NEW other, SameCandidate(kind, a, b, one, other)
    PROVE  LET scoreA == Score(kind, a, Learn(kind, a), one)
               scoreB == Score(kind, b, Learn(kind, b), other)
           IN  /\ scoreA.figures = scoreB.figures
               /\ scoreA.candidate = one /\ scoreB.candidate = other
<1> DEFINE kept == ValidationRows(a)
<1> DEFINE tried == TriedProbabilities(kind, Learn(kind, a), kept, one)
<1> DEFINE threshold == one.threshold
<1> DEFINE prediction == PredictionReport(Labels(a, kept), Actions(tried, threshold))
<1>1. ValidationRows(b) = kept /\ AllAlike(a, b, kept)
  BY TwinSplits
<1>2. other.threshold = threshold
  BY DEF SameCandidate
<1>3. TriedProbabilities(kind, Learn(kind, b), kept, other) = tried
  BY <1>1, AlikeProbabilities
<1>4. Labels(b, kept) = Labels(a, kept)
  BY <1>1, AlikeLists
<1>5. kept \in Seq(Nat)
  BY TwinRows DEF ValidationRows
<1> HIDE DEF kept, tried, threshold
<1>6. Score(kind, a, Learn(kind, a), one) = ScoreOf(kind, a, kept, tried, one)
  BY DEF Score, kept, tried
<1>7. Score(kind, b, Learn(kind, b), other) = ScoreOf(kind, b, kept, tried, other)
  BY <1>1, <1>3 DEF Score
<1> HIDE DEF prediction
<1>8. Figures(kind, a, kept, tried, threshold, prediction)
        = Figures(kind, b, kept, tried, threshold, prediction)
  <2>1. Tape(a, kept, tried, threshold) = Tape(b, kept, tried, threshold)
    BY <1>1, AlikeTapes
  <2>2. Simulated(a, kept, Actions(tried, threshold), CostsOf.base)
          = Simulated(b, kept, Actions(tried, threshold), CostsOf.base)
    BY <1>1, <1>5 DEF SimulationLooksBack, Twins
  <2>3. \A tape : RunCpp(a, tape, SplitPeriods["development_validation"], CostsOf.base, 0)
                    = RunCpp(b, tape, SplitPeriods["development_validation"], CostsOf.base, 0)
    BY AlikeRuns
  <2> QED
    BY <2>1, <2>2, <2>3 DEF Figures
<1>9. ScoreOf(kind, a, kept, tried, one).figures
        = Figures(kind, a, kept, tried, threshold, prediction)
  BY DEF ScoreOf, prediction, threshold
<1>10. ScoreOf(kind, b, kept, tried, other).figures
         = Figures(kind, b, kept, tried, threshold, prediction)
  BY <1>2, <1>4 DEF ScoreOf, prediction
<1>11. /\ ScoreOf(kind, a, kept, tried, one).candidate = one
       /\ ScoreOf(kind, b, kept, tried, other).candidate = other
  BY DEF ScoreOf
<1> QED
  BY <1>6, <1>7, <1>8, <1>9, <1>10, <1>11

-----------------------------------------------------------------------------
(* The candidates of both inputs in one order. *)

(* A tape that only holds is executed without a fill. *)
HoldingFillsNothing ==
    \A input \in Files : \A tape, span, pair :
        (\A n \in DOMAIN tape : tape[n].action = "hold") =>
            RunCpp(input, tape, span, pair, 0).fills = 0

Rank(kind, regimes, n) == 10 * GateOrder(kind, regimes)[GateOf(kind, n)] + ThresholdOf(kind, n)

LEMMA RanksInOrder ==
    ASSUME NEW kind \in Programs, NEW regimes,
           NEW i \in DOMAIN Candidates(kind, regimes), NEW j \in DOMAIN Candidates(kind, regimes),
           i < j
    PROVE  /\ Rank(kind, regimes, i) \in Int /\ Rank(kind, regimes, j) \in Int
           /\ Rank(kind, regimes, i) < Rank(kind, regimes, j)
<1> DEFINE order == GateOrder(kind, regimes)
<1> DEFINE size == Len(ThresholdGrid(kind))
<1>1. /\ order \in Seq(1 .. 14) /\ DOMAIN order = 1 .. Len(order)
      /\ \A g \in DOMAIN order : order[g] \in 1 .. 14
      /\ \A g, h \in DOMAIN order : g < h => order[g] < order[h]
  <2>1. order \in Seq(1 .. 14) /\ InOrder(order, IF kind = "router"
                                            THEN GatesFor(PresentIn(regimes)) ELSE {1})
    BY OrderOfGates
  <2> HIDE DEF order
  <2> QED
    BY <2>1 DEF InOrder
<1>2. size \in {7, 9}
  BY GridLength
<1>3. /\ i \in Nat \ {0} /\ j \in Nat \ {0}
      /\ GateOf(kind, i) \in 1 .. Len(order) /\ GateOf(kind, j) \in 1 .. Len(order)
      /\ ThresholdOf(kind, i) \in 1 .. size /\ ThresholdOf(kind, j) \in 1 .. size
  BY CandidatesListed
<1> HIDE DEF order, size
<1>4. \/ GateOf(kind, i) < GateOf(kind, j)
      \/ GateOf(kind, i) = GateOf(kind, j) /\ ThresholdOf(kind, i) < ThresholdOf(kind, j)
  <2>1. CASE size = 7
    <3>1. \A k \in {i, j} : /\ GateOf(kind, k) = ((k - 1) \div 7) + 1
                           /\ ThresholdOf(kind, k) = ((k - 1) % 7) + 1
      BY <2>1 DEF GateOf, ThresholdOf, size
    <3> QED
      BY <1>3, <3>1
  <2>2. CASE size = 9
    <3>1. \A k \in {i, j} : /\ GateOf(kind, k) = ((k - 1) \div 9) + 1
                           /\ ThresholdOf(kind, k) = ((k - 1) % 9) + 1
      BY <2>2 DEF GateOf, ThresholdOf, size
    <3> QED
      BY <1>3, <3>1
  <2> QED
    BY <1>2, <2>1, <2>2
<1>5. order[GateOf(kind, i)] \in Nat /\ order[GateOf(kind, j)] \in Nat
  <2>1. GateOf(kind, i) \in DOMAIN order /\ GateOf(kind, j) \in DOMAIN order
    BY <1>1, <1>3
  <2>2. order[GateOf(kind, i)] \in 1 .. 14 /\ order[GateOf(kind, j)] \in 1 .. 14
    BY <1>1, <2>1
  <2> QED
    BY <2>2
<1>6. CASE GateOf(kind, i) < GateOf(kind, j)
  <2>1. order[GateOf(kind, i)] + 1 <= order[GateOf(kind, j)]
    BY <1>1, <1>3, <1>5, <1>6
  <2>2. ThresholdOf(kind, i) \in 1 .. 9 /\ ThresholdOf(kind, j) \in 1 .. 9
    <3>1. 1 .. size \subseteq 1 .. 9
      BY <1>2
    <3> QED
      BY <1>3, <3>1
  <2> DEFINE p == order[GateOf(kind, i)]
  <2> DEFINE q == order[GateOf(kind, j)]
  <2>3. /\ Rank(kind, regimes, i) = 10 * p + ThresholdOf(kind, i)
        /\ Rank(kind, regimes, j) = 10 * q + ThresholdOf(kind, j)
    BY DEF Rank, order
  <2>4. p \in Nat /\ q \in Nat /\ p + 1 <= q
    BY <1>5, <2>1
  <2> HIDE DEF p, q
  <2> QED
    BY <2>2, <2>3, <2>4
<1>7. CASE GateOf(kind, i) = GateOf(kind, j) /\ ThresholdOf(kind, i) < ThresholdOf(kind, j)
  BY <1>2, <1>3, <1>5, <1>7 DEF Rank, order
<1> QED
  BY <1>4, <1>6, <1>7

LEMMA ThresholdsPositive ==
    ASSUME NEW kind \in Programs, NEW t \in 1 .. Len(ThresholdGrid(kind))
    PROVE  ThresholdGrid(kind)[t] \in Nat /\ ThresholdGrid(kind)[t] > 0
<1>1. ASSUME NEW other, other \in {<<340000, 360000, 380000, 400000, 420000, 450000, 500000>>,
             <<400000, 450000, 500000, 550000, 600000, 650000, 700000>>,
             <<340000, 360000, 380000, 400000, 420000, 450000, 500000, 550000, 600000>>},
             NEW k \in 1 .. Len(other)
      PROVE  other[k] \in Nat /\ other[k] > 0
  <2>1. CASE other = <<340000, 360000, 380000, 400000, 420000, 450000, 500000>>
    BY <2>1, SMTT(30)
  <2>2. CASE other = <<400000, 450000, 500000, 550000, 600000, 650000, 700000>>
    BY <2>2, SMTT(30)
  <2>3. CASE other = <<340000, 360000, 380000, 400000, 420000, 450000, 500000, 550000, 600000>>
    BY <2>3, SMTT(30)
  <2> QED
    BY <1>1, <2>1, <2>2, <2>3, SMT
<1>2. kind \in {"router", "experts", "baseline", "head", "report"}
  BY CalibrationAssumption
<1>3. ThresholdGrid(kind) \in {<<340000, 360000, 380000, 400000, 420000, 450000, 500000>>,
             <<400000, 450000, 500000, 550000, 600000, 650000, 700000>>,
             <<340000, 360000, 380000, 400000, 420000, 450000, 500000, 550000, 600000>>}
  BY <1>2, SMT DEF ThresholdGrid
<1> QED
  BY <1>1, <1>3

(* A gate that no row of the second period passes holds throughout, and is not   *)
(* eligible.                                                                *)
LEMMA ClosedGateHolds ==
    ASSUME NEW input \in Files, HoldingFillsNothing, NEW candidate,
           candidate.threshold \in Nat, candidate.threshold > 0,
           \A n \in DOMAIN ValidationRows(input) :
              ClosedTo("router", Learn("router", input), ValidationRows(input)[n], candidate)
    PROVE  Score("router", input, Learn("router", input), candidate).figures.fills = 0
<1> DEFINE kept == ValidationRows(input)
<1> DEFINE tried == TriedProbabilities("router", Learn("router", input), kept, candidate)
<1> DEFINE threshold == candidate.threshold
<1> DEFINE tape == Tape(input, kept, tried, threshold)
<1>1. tried = [n \in DOMAIN kept |-> HoldOnly]
  BY DEF TriedProbabilities
<1>2. ActionFor(HoldOnly, threshold) = "hold"
  <2>1. HoldOnly[2] = 0 /\ HoldOnly[3] = 0
    BY DEF HoldOnly
  <2>2. ProbabilityOf("long", HoldOnly) = 0
    BY <2>1 DEF ProbabilityOf
  <2> HIDE DEF threshold
  <2>3. threshold \in Nat /\ threshold > 0
    BY DEF threshold
  <2> QED
    BY <2>1, <2>2, <2>3 DEF ActionFor
<1> HIDE DEF kept, tried, threshold
<1>3. \A n \in DOMAIN tape : tape[n].action = "hold"
  BY <1>1, <1>2 DEF Tape
<1> HIDE DEF tape
<1>4. \A prediction : Figures("router", input, kept, tried, threshold, prediction)
          = RunCpp(input, tape, SplitPeriods["development_validation"], CostsOf.base, 0)
  BY DEF Figures, UsesRegimes, tape
<1>5. Score("router", input, Learn("router", input), candidate)
        = ScoreOf("router", input, kept, tried, candidate)
  BY DEF Score, kept, tried
<1>6. ScoreOf("router", input, kept, tried, candidate).figures
        = RunCpp(input, tape, SplitPeriods["development_validation"], CostsOf.base, 0)
  BY <1>4 DEF ScoreOf, threshold
<1>7. RunCpp(input, tape, SplitPeriods["development_validation"], CostsOf.base, 0).fills = 0
  BY <1>3 DEF HoldingFillsNothing
<1> QED
  BY <1>5, <1>6, <1>7

EnoughFills(kind, input, candidate) ==
    UsesRegimes(kind) =>
        Score(kind, input, Learn(kind, input), candidate).figures.fills >= MinFills

LEMMA QuotientOf7 ==
    \A h \in Nat, s \in 0 .. 6 : (7 * h + s) \div 7 = h /\ (7 * h + s) % 7 = s
OBVIOUS

LEMMA QuotientOf9 ==
    \A h \in Nat, s \in 0 .. 8 : (9 * h + s) \div 9 = h /\ (9 * h + s) % 9 = s
OBVIOUS

(* A candidate that may be chosen on one input is a candidate on the other. *)
LEMMA CandidateMatched ==
    ASSUME NEW a, NEW b, Twins(a, b), HoldingFillsNothing, NEW kind \in Programs,
           NEW n \in DOMAIN Learn(kind, a).candidates,
           EnoughFills(kind, a, Learn(kind, a).candidates[n])
    PROVE  \E m \in DOMAIN Learn(kind, b).candidates :
              /\ Rank(kind, RegimesOf(kind, a), n) = Rank(kind, RegimesOf(kind, b), m)
              /\ SameCandidate(kind, a, b, Learn(kind, a).candidates[n],
                               Learn(kind, b).candidates[m])
<1> DEFINE regimesA == RegimesOf(kind, a)
<1> DEFINE regimesB == RegimesOf(kind, b)
<1> DEFINE listA == Learn(kind, a).candidates
<1> DEFINE listB == Learn(kind, b).candidates
<1> DEFINE orderA == GateOrder(kind, regimesA)
<1> DEFINE orderB == GateOrder(kind, regimesB)
<1> DEFINE size == Len(ThresholdGrid(kind))
<1> DEFINE t == ThresholdOf(kind, n)
<1> DEFINE gate == orderA[GateOf(kind, n)]
<1>1. listA = Candidates(kind, regimesA) /\ listB = Candidates(kind, regimesB)
  BY TwinModels
<1>2. /\ t \in 1 .. size /\ GateOf(kind, n) \in DOMAIN orderA
      /\ listA[n].name = NamesFor(kind)[gate] /\ listA[n].threshold = ThresholdGrid(kind)[t]
      /\ kind = "router" => listA[n].allowed = AllowedBy(listA[n].name, PresentIn(regimesA))
  <2>1. orderA \in Seq(1 .. 14)
    BY OrderOfGates
  <2> QED
    BY <1>1, <2>1, CandidatesListed
<1>3. gate \in 1 .. 14
  BY <1>2, OrderOfGates
<1>4. \E g \in DOMAIN orderB : orderB[g] = gate
  <2>1. CASE kind # "router"
    BY <1>2, <2>1 DEF GateOrder
  <2>2. CASE kind = "router"
    <3>1. regimesA = Regimes(a) /\ regimesB = Regimes(b)
      BY <2>2 DEF RegimesOf, UsesRegimes
    <3>2. gate \in GatesFor(PresentIn(regimesB))
      <4> SUFFICES ASSUME gate \in 2 .. 10, GateNames[gate] \notin PresentIn(regimesB)
                   PROVE  FALSE
        BY <1>3 DEF GatesFor
      <4>1. listA[n].allowed = {GateNames[gate]}
        <5>1. listA[n].allowed = AllowedBy(GateNames[gate], PresentIn(regimesA))
          BY <1>2, <2>2 DEF NamesFor
        <5> HIDE DEF gate, regimesA
        <5> QED
          BY <5>1, SingleGates
      <4> DEFINE kept == ValidationRows(a)
      <4>2. ASSUME NEW k \in DOMAIN kept
            PROVE  ClosedTo("router", Learn("router", a), kept[k], listA[n])
        <5>1. SampleAlike(a, b, kept[k])
          BY TwinSplits DEF AllAlike
        <5>2. Regimes(a)[kept[k]] = Regimes(b)[kept[k]]
          BY <5>1, AlikeRegimes
        <5>3. Regimes(b)[kept[k]] \in PresentIn(regimesB)
          BY <3>1, <5>1, RegimePresent DEF SampleAlike
        <5>4. Regimes(a)[kept[k]] \notin listA[n].allowed
          BY <4>1, <5>2, <5>3
        <5>5. Learn("router", a).regimes = Regimes(a)
          BY <2>2, <3>1, TwinModels
        <5> HIDE DEF kept, listA
        <5> QED
          BY <5>4, <5>5 DEF ClosedTo
      <4>3. listA[n].threshold \in Nat /\ listA[n].threshold > 0
        BY <1>2, ThresholdsPositive
      <4> DEFINE one == listA[n]
      <4> HIDE DEF one
      <4>4. one.threshold \in Nat /\ one.threshold > 0
        BY <4>3 DEF one
      <4>5. \A k \in DOMAIN kept : ClosedTo("router", Learn("router", a), kept[k], one)
        BY <4>2 DEF one
      <4>6. Score("router", a, Learn("router", a), one).figures.fills = 0
        BY <4>4, <4>5, ClosedGateHolds DEF Twins
      <4>7. Score("router", a, Learn("router", a), one).figures.fills >= MinFills
        BY <2>2 DEF EnoughFills, UsesRegimes, one
      <4> QED
        BY <4>6, <4>7, CalibrationAssumption
    <3> QED
      BY <2>2, <3>2, OrderOfGates DEF InOrder
  <2> QED
    BY <2>1, <2>2
<1>5. PICK g \in DOMAIN orderB : orderB[g] = gate
  BY <1>4
<1>6. orderB \in Seq(1 .. 14)
  BY OrderOfGates
<1>7. size \in {7, 9}
  BY GridLength
<1>8. Len(listB) = Len(orderB) * size /\ DOMAIN listB = 1 .. Len(listB)
  BY <1>1, CandidatesListed
<1> HIDE DEF listA, listB, orderA, orderB, size, t, gate, regimesA, regimesB
<1> DEFINE m == (g - 1) * size + t
<1>9. m \in DOMAIN listB /\ GateOf(kind, m) = g /\ ThresholdOf(kind, m) = t
  <2>1. g \in 1 .. Len(orderB) /\ Len(orderB) \in Nat
    BY <1>6
  <2>2. CASE size = 7
    <3>1. m = 7 * (g - 1) + t /\ t \in 1 .. 7 /\ Len(listB) = 7 * Len(orderB)
      BY <1>2, <1>8, <2>1, <2>2
    <3> HIDE DEF m
    <3>2. (m - 1) \div 7 = g - 1 /\ (m - 1) % 7 = t - 1
      <4> DEFINE h == g - 1
      <4> DEFINE s == t - 1
      <4>1. h \in Nat /\ s \in 0 .. 6
        BY <2>1, <3>1
      <4>2. m = 7 * h + t /\ t = s + 1
        BY <3>1
      <4> HIDE DEF h, s
      <4>3. m - 1 = 7 * h + s
        BY <4>1, <4>2
      <4>4. (7 * h + s) \div 7 = h /\ (7 * h + s) % 7 = s
        BY <4>1, QuotientOf7
      <4>5. (m - 1) \div 7 = h /\ (m - 1) % 7 = s
        BY <4>3, <4>4, Zenon
      <4> QED
        BY <4>5 DEF h, s
    <3>3. m \in 1 .. Len(listB)
      BY <2>1, <3>1
    <3>4. GateOf(kind, m) = ((m - 1) \div 7) + 1 /\ ThresholdOf(kind, m) = ((m - 1) % 7) + 1
      BY <2>2 DEF GateOf, ThresholdOf, size
    <3> QED
      BY <1>8, <2>1, <3>1, <3>2, <3>3, <3>4
  <2>3. CASE size = 9
    <3>1. m = 9 * (g - 1) + t /\ t \in 1 .. 9 /\ Len(listB) = 9 * Len(orderB)
      BY <1>2, <1>8, <2>1, <2>3
    <3> HIDE DEF m
    <3>2. (m - 1) \div 9 = g - 1 /\ (m - 1) % 9 = t - 1
      <4> DEFINE h == g - 1
      <4> DEFINE s == t - 1
      <4>1. h \in Nat /\ s \in 0 .. 8
        BY <2>1, <3>1
      <4>2. m = 9 * h + t /\ t = s + 1
        BY <3>1
      <4> HIDE DEF h, s
      <4>3. m - 1 = 9 * h + s
        BY <4>1, <4>2
      <4>4. (9 * h + s) \div 9 = h /\ (9 * h + s) % 9 = s
        BY <4>1, QuotientOf9
      <4>5. (m - 1) \div 9 = h /\ (m - 1) % 9 = s
        BY <4>3, <4>4, Zenon
      <4> QED
        BY <4>5 DEF h, s
    <3>3. m \in 1 .. Len(listB)
      BY <2>1, <3>1
    <3>4. GateOf(kind, m) = ((m - 1) \div 9) + 1 /\ ThresholdOf(kind, m) = ((m - 1) % 9) + 1
      BY <2>3 DEF GateOf, ThresholdOf, size
    <3> QED
      BY <1>8, <2>1, <3>1, <3>2, <3>3, <3>4
  <2> QED
    BY <1>7, <2>2, <2>3
<1> HIDE DEF m
<1>10. /\ listB[m].name = NamesFor(kind)[gate] /\ listB[m].threshold = ThresholdGrid(kind)[t]
       /\ kind = "router" => listB[m].allowed = AllowedBy(listB[m].name, PresentIn(regimesB))
  BY <1>1, <1>5, <1>9, CandidatesListed DEF orderB
<1>11. Rank(kind, regimesA, n) = Rank(kind, regimesB, m)
  BY <1>5, <1>9 DEF Rank, gate, t, orderA, orderB
<1>12. kind = "router" => regimesA = Regimes(a) /\ regimesB = Regimes(b)
  BY DEF RegimesOf, UsesRegimes, regimesA, regimesB
<1>13. SameCandidate(kind, a, b, listA[n], listB[m])
  BY <1>2, <1>10, <1>12 DEF SameCandidate, IsCandidate
<1> QED
  BY <1>9, <1>11, <1>13 DEF listA, listB, regimesA, regimesB

-----------------------------------------------------------------------------
(* The choice. *)

KeyOf(kind, scores, i) == Key(kind, scores[i].figures, scores[i].candidate.threshold)

LEMMA FirstIsUnique ==
    ASSUME NEW kind, NEW scores, Eligible(kind, scores) \subseteq Nat,
           NEW i \in Eligible(kind, scores), NEW j \in Eligible(kind, scores),
           IsFirstOfLargest(kind, scores, i), IsFirstOfLargest(kind, scores, j)
    PROVE  i = j
<1>1. i \in Nat /\ j \in Nat
  OBVIOUS
<1>2. /\ ~Precedes(KeyOf(kind, scores, i), KeyOf(kind, scores, j))
      /\ ~Precedes(KeyOf(kind, scores, j), KeyOf(kind, scores, i))
  BY DEF IsFirstOfLargest, KeyOf
<1>3. /\ j < i => Precedes(KeyOf(kind, scores, j), KeyOf(kind, scores, i))
      /\ i < j => Precedes(KeyOf(kind, scores, i), KeyOf(kind, scores, j))
  BY DEF IsFirstOfLargest, KeyOf
<1> QED
  BY <1>1, <1>2, <1>3

(* If the scores of two lists can be matched in order, the matches of the first   *)
(* of the largest are.                                                       *)
LEMMA FirstIsMatched ==
    ASSUME NEW kind, NEW s, NEW t, NEW p, NEW q,
           Eligible(kind, s) \subseteq Nat, Eligible(kind, t) \subseteq Nat,
           \A i, j \in Eligible(kind, s) : i < j => p[i] < p[j],
           \A i, j \in Eligible(kind, t) : i < j => q[i] < q[j],
           \A i \in Eligible(kind, s) : p[i] \in Int,
           \A i \in Eligible(kind, t) : q[i] \in Int,
           NEW i \in Eligible(kind, s), IsFirstOfLargest(kind, s, i),
           NEW j \in Eligible(kind, t), q[j] = p[i], KeyOf(kind, t, j) = KeyOf(kind, s, i),
           \A n \in Eligible(kind, t) : \E m \in Eligible(kind, s) :
              q[n] = p[m] /\ KeyOf(kind, t, n) = KeyOf(kind, s, m)
    PROVE  IsFirstOfLargest(kind, t, j)
<1>1. ASSUME NEW n \in Eligible(kind, t)
      PROVE  /\ ~Precedes(KeyOf(kind, t, j), KeyOf(kind, t, n))
             /\ n < j => Precedes(KeyOf(kind, t, n), KeyOf(kind, t, j))
  <2>1. PICK m \in Eligible(kind, s) : q[n] = p[m] /\ KeyOf(kind, t, n) = KeyOf(kind, s, m)
    OBVIOUS
  <2>2. /\ ~Precedes(KeyOf(kind, s, i), KeyOf(kind, s, m))
        /\ m < i => Precedes(KeyOf(kind, s, m), KeyOf(kind, s, i))
    BY DEF IsFirstOfLargest, KeyOf
  <2>3. n < j => m < i
    <3> SUFFICES ASSUME n < j, ~(m < i) PROVE FALSE
      OBVIOUS
    <3>1. p[m] < p[i] /\ p[m] \in Int /\ p[i] \in Int
      BY <2>1
    <3>2. m \in Nat /\ i \in Nat
      OBVIOUS
    <3>3. m = i \/ p[i] < p[m]
      BY <3>2
    <3> QED
      BY <3>1, <3>3
  <2> QED
    BY <2>1, <2>2, <2>3
<1> QED
  BY <1>1 DEF IsFirstOfLargest, KeyOf

(* scored is what the candidates of the model have been given so far, and the     *)
(* selected one is the first of the largest.                                  *)
ScoredInv ==
    /\ file \in Files
    /\ phase \in {"calibrate", "evaluate"} =>
          /\ learned = Learn(program, file)
          /\ \A n \in DOMAIN scored :
                scored[n] = Score(program, file, learned, learned.candidates[n])
    /\ phase = "evaluate" =>
          /\ Len(scored) = Len(learned.candidates)
          /\ \E i \in Eligible(program, scored) :
                IsFirstOfLargest(program, scored, i) /\ selected = scored[i]

LEMMA InitScored == CalibrationInit => ScoredInv
BY DEF CalibrationInit, ScoredInv

LEMMA StepKeepsScored ==
    CalibrationInv /\ ScoredInv /\ [CalibrationNext]_calibrationVars => ScoredInv'
<1> SUFFICES ASSUME CalibrationInv, ScoredInv, [CalibrationNext]_calibrationVars PROVE ScoredInv'
  OBVIOUS
<1> USE DEF ScoredInv
<1>1. ASSUME UNCHANGED <<program, file, learned, scored, selected>>,
             phase' \in {"calibrate", "evaluate"} => phase' = phase
      PROVE  ScoredInv'
  BY <1>1
<1>2. CASE Load
  <2>1. /\ learned' = Learn(program, file) /\ phase' = "calibrate" /\ scored' = <<>>
        /\ UNCHANGED <<program, file>>
    BY <1>2 DEF Load, CalibrationInv, SelectedInv
  <2> QED
    BY <2>1
<1>3. CASE CannotLoad
  BY <1>1, <1>3 DEF CannotLoad
<1>4. CASE Try
  <2> DEFINE score == Score(program, file, learned, learned.candidates[Len(scored) + 1])
  <2>1. /\ phase = "calibrate" /\ UNCHANGED <<program, file, phase, learned>>
        /\ scored' = Append(scored, score)
    BY <1>4 DEF Try
  <2>2. scored \in Seq(Scores)
    BY DEF CalibrationInv, SelectedInv
  <2>3. score \in Scores
    <3>1. Len(scored) + 1 \in Nat
      BY <2>2
    <3> QED
      BY <3>1 DEF Scores
  <2>4. ASSUME NEW n \in DOMAIN scored'
        PROVE  scored'[n] = Score(program, file, learned, learned.candidates[n])
    <3> DEFINE at(k) == Score(program, file, learned, learned.candidates[k])
    <3>1. score = at(Len(scored) + 1) /\ \A k \in DOMAIN scored : scored[k] = at(k)
      BY <2>1
    <3> HIDE DEF score, at
    <3>2. CASE n = Len(scored) + 1
      <4>1. scored'[Len(scored) + 1] = score
        BY <2>1, <2>2, <2>3
      <4> QED
        BY <3>1, <3>2, <4>1 DEF at
    <3>3. CASE n # Len(scored) + 1
      BY <2>1, <2>2, <2>3, <3>1, <3>3
    <3> QED
      BY <3>2, <3>3 DEF at
  <2> QED
    BY <2>1, <2>4
<1>5. CASE Select
  <2>1. /\ phase = "calibrate" /\ phase' = "evaluate"
        /\ UNCHANGED <<program, file, learned, scored>>
        /\ Len(scored) = Len(learned.candidates)
        /\ \E i \in Eligible(program, scored) :
              IsFirstOfLargest(program, scored, i) /\ selected' = scored[i]
    BY <1>5 DEF Select
  <2> QED
    BY <2>1
<1>6. CASE NoneEligible
  BY <1>1, <1>6 DEF NoneEligible
<1>7. CASE Evaluate
  BY <1>1, <1>7 DEF Evaluate
<1>8. CASE EvaluatePart
  BY <1>1, <1>8 DEF EvaluatePart
<1>9. CASE Finish
  BY <1>1, <1>9 DEF Finish
<1>10. CASE Attach
  BY <1>1, <1>10 DEF Attach
<1>11. CASE ReplayFails
  BY <1>1, <1>11 DEF ReplayFails
<1>12. CASE UNCHANGED calibrationVars
  BY <1>1, <1>12 DEF calibrationVars
<1> QED
  BY <1>2, <1>3, <1>4, <1>5, <1>6, <1>7, <1>8, <1>9, <1>10, <1>11, <1>12 DEF CalibrationNext

-----------------------------------------------------------------------------
(* The scores of all candidates on an input. *)
AllScores(kind, input) ==
    [n \in DOMAIN Learn(kind, input).candidates |->
        Score(kind, input, Learn(kind, input), Learn(kind, input).candidates[n])]

RanksOf(kind, input) ==
    [n \in DOMAIN Learn(kind, input).candidates |-> Rank(kind, RegimesOf(kind, input), n)]

ScoreMatched(kind, a, b, n, m) ==
    /\ RanksOf(kind, a)[n] = RanksOf(kind, b)[m]
    /\ SameCandidate(kind, a, b, Learn(kind, a).candidates[n], Learn(kind, b).candidates[m])
    /\ KeyOf(kind, AllScores(kind, a), n) = KeyOf(kind, AllScores(kind, b), m)

LEMMA ScoresMatch ==
    ASSUME NEW a, NEW b, Twins(a, b), SimulationLooksBack, HoldingFillsNothing,
           NEW kind \in Programs, NEW n \in Eligible(kind, AllScores(kind, a))
    PROVE  \E m \in Eligible(kind, AllScores(kind, b)) : ScoreMatched(kind, a, b, n, m)
<1> DEFINE one == Learn(kind, a).candidates[n]
<1> DEFINE s == AllScores(kind, a)
<1> DEFINE t == AllScores(kind, b)
<1>1. /\ n \in DOMAIN Learn(kind, a).candidates
      /\ s[n] = Score(kind, a, Learn(kind, a), one)
      /\ UsesRegimes(kind) => s[n].figures.fills >= MinFills
  BY DEF Eligible, AllScores
<1>2. EnoughFills(kind, a, one)
  BY <1>1 DEF EnoughFills
<1>3. PICK m \in DOMAIN Learn(kind, b).candidates :
              /\ Rank(kind, RegimesOf(kind, a), n) = Rank(kind, RegimesOf(kind, b), m)
              /\ SameCandidate(kind, a, b, one, Learn(kind, b).candidates[m])
  BY <1>1, <1>2, CandidateMatched
<1> DEFINE other == Learn(kind, b).candidates[m]
<1>4. t[m] = Score(kind, b, Learn(kind, b), other)
  BY DEF AllScores
<1> HIDE DEF one, other, s, t
<1>5. SameCandidate(kind, a, b, one, other)
  BY <1>3 DEF other
<1>6. s[n].figures = t[m].figures /\ s[n].candidate = one /\ t[m].candidate = other
  BY <1>1, <1>4, <1>5, AlikeScores
<1>7. one.threshold = other.threshold
  BY <1>5 DEF SameCandidate
<1>8. KeyOf(kind, s, n) = KeyOf(kind, t, m)
  BY <1>6, <1>7 DEF KeyOf
<1>9. DOMAIN t = DOMAIN Learn(kind, b).candidates
  BY DEF t, AllScores
<1>10. m \in Eligible(kind, t)
  BY <1>1, <1>6, <1>9 DEF Eligible
<1>11. RanksOf(kind, a)[n] = RanksOf(kind, b)[m]
  BY <1>1, <1>3 DEF RanksOf
<1> QED
  BY <1>5, <1>8, <1>10, <1>11 DEF ScoreMatched, one, other, s, t

LEMMA RanksIncrease ==
    ASSUME NEW kind \in Programs, NEW input
    PROVE  /\ Eligible(kind, AllScores(kind, input)) \subseteq Nat
           /\ Eligible(kind, AllScores(kind, input)) \subseteq DOMAIN Learn(kind, input).candidates
           /\ \A i, j \in Eligible(kind, AllScores(kind, input)) :
                 i < j => RanksOf(kind, input)[i] < RanksOf(kind, input)[j]
           /\ \A i \in Eligible(kind, AllScores(kind, input)) : RanksOf(kind, input)[i] \in Int
<1> DEFINE list == Learn(kind, input).candidates
<1> DEFINE regimes == RegimesOf(kind, input)
<1> DEFINE order == GateOrder(kind, regimes)
<1>1. list = Candidates(kind, regimes)
  BY DEF Learn, LearnFrom, RegimesOf
<1>2. DOMAIN list = 1 .. Len(list) /\ Len(list) \in Nat
  BY <1>1, CandidatesListed
<1>3. Eligible(kind, AllScores(kind, input)) \subseteq DOMAIN list
  BY DEF Eligible, AllScores
<1>4. \A i \in DOMAIN list : RanksOf(kind, input)[i] = Rank(kind, regimes, i)
  BY DEF RanksOf
<1>5. \A i, j \in DOMAIN list : i < j => Rank(kind, regimes, i) < Rank(kind, regimes, j)
  <2> HIDE DEF list, regimes
  <2> QED
    BY <1>1, RanksInOrder
<1>6. ASSUME NEW i \in DOMAIN list PROVE Rank(kind, regimes, i) \in Int
  <2>1. order \in Seq(1 .. 14) /\ GateOf(kind, i) \in 1 .. Len(order)
        /\ ThresholdOf(kind, i) \in 1 .. Len(ThresholdGrid(kind))
    BY <1>1, OrderOfGates, CandidatesListed
  <2> HIDE DEF order, list
  <2>2. order[GateOf(kind, i)] \in 1 .. 14 /\ ThresholdOf(kind, i) \in Int
    BY <2>1
  <2> QED
    BY <2>2 DEF Rank, order
<1> HIDE DEF list, regimes
<1>7. DOMAIN list \subseteq Nat
  BY <1>2
<1> QED
  BY <1>3, <1>4, <1>5, <1>6, <1>7 DEF list

(* SelectionIgnoresHoldout for any model, any files whose rows and samples are    *)
(* in order, and any replay and simulation that read nothing past the rows that   *)
(* they are given and the samples: whichever of the five programs runs, what     *)
(* comes after the first day of the holdout changes neither temperature nor gate   *)
(* nor threshold, nor what is written for a sample that both inputs have.         *)
THEOREM ChoiceIgnoresHoldout ==
    FilesInOrder /\ SamplesJoined /\ SimulationLooksBack /\ HoldingFillsNothing
      /\ CalibrationSpec => []SelectionIgnoresHoldout
<1> DEFINE Given == FilesInOrder /\ SamplesJoined /\ SimulationLooksBack /\ HoldingFillsNothing
<1>1. CalibrationInv /\ [CalibrationNext]_calibrationVars => CalibrationInv'
  BY StepKeepsSelected, StepKeepsResults DEF CalibrationInv
<1>2. Given /\ CalibrationInv /\ ScoredInv => SelectionIgnoresHoldout
  <2> SUFFICES ASSUME Given, CalibrationInv, ScoredInv, phase = "evaluate",
                      NEW other \in Files, Development(other) = Development(file)
               PROVE
      LET model == Learn(program, other)
          choices == ChosenOn(program, other, model)
          alike(i) == /\ file.samples[i] = other.samples[i]
                      /\ \A n \in 1 .. file.samples[i].sequence : file.rows[n] = other.rows[n]
          common == {i \in (DOMAIN file.samples) \cap (DOMAIN other.samples) : alike(i)}
      IN  /\ model.temperature = learned.temperature
          /\ {<<choice.candidate.name, choice.candidate.threshold>> : choice \in choices}
               = {<<selected.candidate.name, selected.candidate.threshold>>}
          /\ \A choice \in choices, i \in common :
                LineOf(program, other, model, choice.candidate, i)
                  = LineOf(program, file, learned, selected.candidate, i)
    BY Zenon DEF SelectionIgnoresHoldout
  <2> DEFINE kind == program
  <2> DEFINE model == Learn(kind, other)
  <2> DEFINE t == AllScores(kind, other)
  <2> DEFINE choices == ChosenOn(kind, other, model)
  <2> DEFINE common == {i \in (DOMAIN file.samples) \cap (DOMAIN other.samples) :
                          /\ file.samples[i] = other.samples[i]
                          /\ \A n \in 1 .. file.samples[i].sequence : file.rows[n] = other.rows[n]}
  <2>1. Twins(file, other) /\ Twins(other, file)
    BY DEF Twins, ScoredInv
  <2>2. kind \in Programs
    BY DEF CalibrationInv, SelectedInv
  <2>3. learned = Learn(kind, file) /\ Len(scored) = Len(learned.candidates)
        /\ \A n \in DOMAIN scored : scored[n] = Score(kind, file, learned, learned.candidates[n])
    BY DEF ScoredInv
  <2>4. scored = AllScores(kind, file)
    <3>1. scored \in Seq(Scores)
      BY DEF CalibrationInv, SelectedInv
    <3>2. DOMAIN scored = 1 .. Len(scored) /\ scored = [n \in DOMAIN scored |-> scored[n]]
      BY <3>1
    <3>3. learned.candidates = Candidates(kind, RegimesOf(kind, file))
      BY <2>3 DEF Learn, LearnFrom, RegimesOf
    <3>4. DOMAIN learned.candidates = 1 .. Len(learned.candidates)
      BY <2>2, <3>3, CandidatesListed
    <3> QED
      BY <2>3, <3>2, <3>4 DEF AllScores
  <2>5. PICK i \in Eligible(kind, AllScores(kind, file)) :
            IsFirstOfLargest(kind, AllScores(kind, file), i) /\ selected = AllScores(kind, file)[i]
    BY <2>4 DEF ScoredInv
  <2>6. PICK j \in Eligible(kind, t) : ScoreMatched(kind, file, other, i, j)
    BY <2>1, <2>2, ScoresMatch
  <2>7. IsFirstOfLargest(kind, t, j)
    <3>1. ASSUME NEW n \in Eligible(kind, t)
          PROVE  \E m \in Eligible(kind, AllScores(kind, file)) :
                    /\ RanksOf(kind, other)[n] = RanksOf(kind, file)[m]
                    /\ KeyOf(kind, t, n) = KeyOf(kind, AllScores(kind, file), m)
      <4>1. \E m \in Eligible(kind, AllScores(kind, file)) : ScoreMatched(kind, other, file, n, m)
        BY <2>1, <2>2, <3>1, ScoresMatch
      <4> QED
        BY <4>1 DEF ScoreMatched
    <3>2. /\ RanksOf(kind, other)[j] = RanksOf(kind, file)[i]
          /\ KeyOf(kind, t, j) = KeyOf(kind, AllScores(kind, file), i)
      BY <2>6 DEF ScoreMatched
    <3> DEFINE s == AllScores(kind, file)
    <3> DEFINE p == RanksOf(kind, file)
    <3> DEFINE q == RanksOf(kind, other)
    <3>3. /\ Eligible(kind, s) \subseteq Nat /\ Eligible(kind, t) \subseteq Nat
          /\ \A m, n \in Eligible(kind, s) : m < n => p[m] < p[n]
          /\ \A m, n \in Eligible(kind, t) : m < n => q[m] < q[n]
          /\ \A m \in Eligible(kind, s) : p[m] \in Int
          /\ \A m \in Eligible(kind, t) : q[m] \in Int
      BY <2>2, RanksIncrease
    <3> HIDE DEF s, t, p, q, kind
    <3>4. i \in Eligible(kind, s) /\ IsFirstOfLargest(kind, s, i)
      BY <2>5 DEF s
    <3>5. q[j] = p[i] /\ KeyOf(kind, t, j) = KeyOf(kind, s, i)
      BY <3>2 DEF s, p, q
    <3>6. \A n \in Eligible(kind, t) : \E m \in Eligible(kind, s) :
              q[n] = p[m] /\ KeyOf(kind, t, n) = KeyOf(kind, s, m)
      BY <3>1 DEF s, p, q
    <3> QED
      BY <3>3, <3>4, <3>5, <3>6, FirstIsMatched
  <2>8. choices = {t[j]}
    <3>1. choices = {t[m] : m \in {n \in Eligible(kind, t) : IsFirstOfLargest(kind, t, n)}}
      BY DEF ChosenOn, AllScores
    <3>2. Eligible(kind, t) \subseteq Nat
      BY <2>2, RanksIncrease
    <3> HIDE DEF t, kind, choices
    <3>3. \A n \in Eligible(kind, t) : IsFirstOfLargest(kind, t, n) => n = j
      BY <2>7, <3>2, FirstIsUnique
    <3> QED
      BY <2>7, <3>1, <3>3
  <2>9. /\ j \in DOMAIN model.candidates /\ i \in DOMAIN learned.candidates
        /\ t[j].candidate = model.candidates[j]
        /\ selected.candidate = learned.candidates[i]
    <3>1. j \in DOMAIN model.candidates /\ i \in DOMAIN learned.candidates
      BY <2>2, <2>3, RanksIncrease
    <3>2. t[j] = Score(kind, other, model, model.candidates[j])
      BY <3>1 DEF AllScores
    <3>3. selected = Score(kind, file, learned, learned.candidates[i])
      BY <2>3, <2>5, <3>1 DEF AllScores
    <3> QED
      BY <3>1, <3>2, <3>3 DEF Score, ScoreOf
  <2>10. SameCandidate(kind, file, other, selected.candidate, t[j].candidate)
    BY <2>3, <2>6, <2>9 DEF ScoreMatched
  <2>11. model.temperature = learned.temperature
    BY <2>1, <2>2, <2>3, TwinModels
  <2>12. ASSUME NEW k \in common
         PROVE  LineOf(kind, other, model, t[j].candidate, k)
                  = LineOf(kind, file, learned, selected.candidate, k)
    <3>1. SampleAlike(file, other, k)
      BY DEF SampleAlike
    <3> QED
      BY <2>1, <2>2, <2>3, <2>10, <3>1, AlikeLines
  <2>13. {<<choice.candidate.name, choice.candidate.threshold>> : choice \in choices}
           = {<<selected.candidate.name, selected.candidate.threshold>>}
    <3> HIDE DEF choices, t
    <3> QED
      BY <2>8, <2>10 DEF SameCandidate
  <2>14. \A choice \in choices, k \in common :
            LineOf(kind, other, model, choice.candidate, k)
              = LineOf(kind, file, learned, selected.candidate, k)
    <3> HIDE DEF choices, t, model, common
    <3> QED
      BY <2>8, <2>12
  <2> QED
    BY <2>11, <2>13, <2>14, Zenon
<1>3. Given => Given'
  BY DEF FilesInOrder, SamplesJoined, SimulationLooksBack, HoldingFillsNothing, ListInOrder,
         AllAlike, SampleAlike, Simulated, RunCpp
<1> QED
  BY <1>1, <1>2, <1>3, InitCalibrationInv, InitScored, StepKeepsScored, PTL DEF CalibrationSpec

-----------------------------------------------------------------------------
(* The report program: samples and the simulated account. *)

Quotes == [time : Int, bid : Int, ask : Int, bid_quantity : Int, ask_quantity : Int]

(* What write_stream writes are whole numbers in the order of time, which       *)
(* OrderedRows shows of any directory in order.                             *)
RowsInOrder ==
    \A input \in Directories :
        LET written == ReplayRows(input)
        IN  /\ written \in Seq(Quotes)
            /\ \A i, j \in DOMAIN written : i <= j => written[i].time <= written[j].time

(* The samples that may be cut from the rows. *)
SamplesOfRows ==
    {[index |-> i, period |-> name, features |-> Features(rows, i), label |-> Label(rows, i)] :
        i \in Warmup + 1 .. Len(rows), name \in DOMAIN Periods}

SamplesInv ==
    /\ rows \in Seq(Quotes)
    /\ \A i, j \in DOMAIN rows : i <= j => rows[i].time <= rows[j].time
    /\ index \in Nat /\ index > Warmup
    /\ samples \in Seq(SamplesOfRows)

Accounts == [cash : Int, position : {-TargetSize, 0, TargetSize}, entry : Int, fills : Nat,
             fees : Int, gross_profit : Int, gross_loss : Int]

AccountInv ==
    /\ step \in Nat
    /\ pending \in {-1, 0, 1}
    /\ stage = "simulation" => costs \in Nat \X Nat
    /\ account \in Accounts
    /\ SimulationReconciles

-----------------------------------------------------------------------------
(* Features of a row are computed from the rows up to it. *)
LEMMA FeaturesOfPast ==
    ASSUME NEW f, NEW g, NEW at \in Nat, at > Warmup, \A i \in 1 .. at : f[i] = g[i]
    PROVE  Features(f, at) = Features(g, at)
<1>1. Warmup \in Nat \ {0} /\ Lookbacks \subseteq 1 .. Warmup
  BY ReportAssumption
<1>2. \A to, back \in Nat : to <= at /\ back < to => Return(f, to, back) = Return(g, to, back)
  BY DEF Return, Mid
<1>3. \A lookback \in Lookbacks : Return(f, at, lookback) = Return(g, at, lookback)
  BY <1>1, <1>2
<1>4. Window(f, at) = Window(g, at)
  <2>1. \A offset \in 0 .. Warmup - 1 : Return(f, at - offset, 1) = Return(g, at - offset, 1)
    <3> TAKE offset \in 0 .. Warmup - 1
    <3>1. at - offset \in Nat /\ at - offset <= at /\ 1 \in Nat /\ 1 < at - offset
      BY <1>1
    <3> QED
      BY <1>2, <3>1
  <2> QED
    BY <2>1 DEF Window
<1>5. f[at] = g[at]
  BY <1>1
<1> QED
  BY <1>3, <1>4, <1>5 DEF Features

LEMMA DirectionalFeaturesOfPast ==
    ASSUME NEW f, NEW g, NEW at \in Nat, \A i \in 1 .. at : f[i] = g[i]
    PROVE  DirectionalFeatures(f, at) = DirectionalFeatures(g, at)
<1>1. TrendLookbacks \subseteq Nat \ {0} /\ EfficiencyLookbacks \subseteq Nat \ {0}
  BY TickAssumption
<1>2. \A to, back \in Nat : to <= at /\ back < to => Return(f, to, back) = Return(g, to, back)
  BY DEF Return, Mid
<1> DEFINE since(h, lookback) == IF at > lookback THEN Return(h, at, lookback) ELSE <<>>
<1> DEFINE path(h, lookback) ==
              IF at > lookback THEN [offset \in 0 .. lookback - 1 |-> Return(h, at - offset, 1)]
              ELSE <<>>
<1>3. \A lookback \in Nat \ {0} : since(f, lookback) = since(g, lookback)
  BY <1>2
<1>4. \A lookback \in Nat \ {0} : path(f, lookback) = path(g, lookback)
  <2> TAKE lookback \in Nat \ {0}
  <2>1. ASSUME at > lookback, NEW offset \in 0 .. lookback - 1
        PROVE  Return(f, at - offset, 1) = Return(g, at - offset, 1)
    <3>1. at - offset \in Nat /\ at - offset <= at /\ 1 \in Nat /\ 1 < at - offset
      BY <2>1
    <3> QED
      BY <1>2, <3>1
  <2> QED
    BY <2>1
<1>5. \A h : DirectionalFeatures(h, at)
               = [returns |-> [lookback \in TrendLookbacks |-> since(h, lookback)],
                  efficiency |-> [lookback \in EfficiencyLookbacks |->
                                     <<since(h, lookback), path(h, lookback)>>]]
  BY DEF DirectionalFeatures, RowOfSequence
<1> HIDE DEF since, path
<1> QED
  BY <1>1, <1>3, <1>4, <1>5

LEMMA InitSamples == RowsInOrder /\ ResearchInit => SamplesInv
<1> SUFFICES ASSUME RowsInOrder, ResearchInit PROVE SamplesInv
  OBVIOUS
<1>1. rows \in Seq(Quotes) /\ \A i, j \in DOMAIN rows : i <= j => rows[i].time <= rows[j].time
  BY DEF RowsInOrder, ResearchInit, ReportInit
<1>2. index = Warmup + 1 /\ samples = <<>>
  BY DEF ResearchInit, ReportInit
<1>3. Warmup \in Nat
  BY ReportAssumption
<1> QED
  BY <1>1, <1>2, <1>3 DEF SamplesInv

LEMMA StepKeepsSamples == SamplesInv /\ [ResearchNext]_researchVars => SamplesInv'
<1> SUFFICES ASSUME SamplesInv, [ResearchNext]_researchVars PROVE SamplesInv'
  OBVIOUS
<1>1. {Warmup, Stride, Horizon} \subseteq Nat \ {0}
  BY ReportAssumption
<1>2. UNCHANGED rows
  BY DEF ResearchNext, ReportNext, BuildSample, SkipRow, StartSimulation, SimulateRow,
         researchVars, reportVars
<1>3. SamplesOfRows' = SamplesOfRows
  BY <1>2 DEF SamplesOfRows, Features, Label, Window, Return, Mid
<1>4. ASSUME UNCHANGED samples, index' \in {index, index + Stride} PROVE SamplesInv'
  BY <1>1, <1>2, <1>3, <1>4 DEF SamplesInv
<1>5. CASE BuildSample
  <2>1. PICK name \in PeriodsOf(rows[index].time) :
           samples' = Append(samples, [index |-> index, period |-> name,
                                       features |-> Features(rows, index),
                                       label |-> Label(rows, index)])
    BY <1>5 DEF BuildSample
  <2>2. name \in DOMAIN Periods
    BY DEF PeriodsOf
  <2>3. index \in Warmup + 1 .. Len(rows)
    BY <1>1, <1>5 DEF BuildSample, InRange, SamplesInv
  <2>4. [index |-> index, period |-> name, features |-> Features(rows, index),
         label |-> Label(rows, index)] \in SamplesOfRows
    BY <2>2, <2>3 DEF SamplesOfRows
  <2>5. index' = index + Stride
    BY <1>5 DEF BuildSample
  <2> QED
    BY <1>1, <1>2, <1>3, <2>1, <2>4, <2>5 DEF SamplesInv
<1>6. CASE SkipRow
  BY <1>4, <1>6 DEF SkipRow
<1>7. CASE StartSimulation
  BY <1>4, <1>7 DEF StartSimulation
<1>8. ASSUME NEW action, SimulateRow(action) PROVE SamplesInv'
  BY <1>4, <1>8 DEF SimulateRow
<1>9. CASE UNCHANGED researchVars
  BY <1>4, <1>9 DEF researchVars, reportVars
<1> QED
  BY <1>5, <1>6, <1>7, <1>8, <1>9 DEF ResearchNext, ReportNext

(* FeaturesCausal for any file in order, any lookbacks and any stride: what is   *)
(* computed for a sample by feature_vector and by add_directional_features does   *)
(* not depend on any row that comes after it.                                *)
THEOREM FeaturesSeeNoLaterRow == RowsInOrder /\ ResearchSpec => []FeaturesCausal
<1>1. SamplesInv => FeaturesCausal
  <2> SUFFICES ASSUME SamplesInv, samples # <<>> PROVE FeaturesCausal
    BY DEF FeaturesCausal
  <2> DEFINE sample == samples[Len(samples)]
  <2> DEFINE at == sample.index
  <2>1. sample \in SamplesOfRows
    BY DEF SamplesInv
  <2>2. at \in Warmup + 1 .. Len(rows) /\ sample.features = Features(rows, at)
    BY <2>1 DEF SamplesOfRows
  <2> DEFINE later(time) == time > rows[at].time
  <2>3. ASSUME NEW other \in Repriced(later)
        PROVE  /\ Features(other, at) = sample.features
               /\ DirectionalFeatures(other, at) = DirectionalFeatures(rows, at)
    <3>1. \A i \in DOMAIN rows : ~later(rows[i].time) => other[i] = rows[i]
      BY <2>3 DEF Repriced
    <3>2. at \in Nat /\ at > Warmup /\ Len(rows) \in Nat
      <4>1. Warmup \in Nat
        BY ReportAssumption
      <4>2. Len(rows) \in Nat
        BY DEF SamplesInv
      <4> HIDE DEF at
      <4> QED
        BY <2>2, <4>1, <4>2
    <3>3. \A i \in 1 .. at : other[i] = rows[i]
      <4> TAKE i \in 1 .. at
      <4>1. i \in DOMAIN rows /\ at \in DOMAIN rows /\ i <= at
        BY <2>2, <3>2 DEF SamplesInv
      <4>2. rows[i].time <= rows[at].time
        BY <4>1 DEF SamplesInv
      <4>3. rows[i] \in Quotes /\ rows[at] \in Quotes
        BY <4>1 DEF SamplesInv
      <4>4. rows[i].time \in Int /\ rows[at].time \in Int
        BY <4>3 DEF Quotes
      <4>5. ~later(rows[i].time)
        BY <4>2, <4>4
      <4> QED
        BY <3>1, <4>1, <4>5
    <3> HIDE DEF at, sample
    <3>4. Features(other, at) = Features(rows, at)
      BY <3>2, <3>3, FeaturesOfPast
    <3>5. DirectionalFeatures(other, at) = DirectionalFeatures(rows, at)
      BY <3>2, <3>3, DirectionalFeaturesOfPast
    <3> QED
      BY <2>2, <3>4, <3>5, Zenon
  <2> QED
    BY <2>3 DEF FeaturesCausal
<1>2. RowsInOrder => RowsInOrder'
  BY DEF RowsInOrder
<1> QED
  BY <1>1, <1>2, InitSamples, StepKeepsSamples, PTL DEF ResearchSpec

-----------------------------------------------------------------------------
(* The simulated account. *)

LEMMA FillPriceIsInt ==
    ASSUME NEW price \in Int, NEW side \in Int, NEW slippage \in Int
    PROVE  FillPrice(price, side, slippage) \in Int
<1> DEFINE p == price * slippage
<1>1. CostParts \in Nat \ {0} /\ p \in Int
  BY ReportAssumption
<1> HIDE DEF p
<1>2. (p + CostParts - 1) \div CostParts \in Int /\ p \div CostParts \in Int
  BY <1>1
<1> QED
  BY <1>2 DEF FillPrice, p

(* What rounding down leaves. *)
LEMMA Truncated ==
    ASSUME NEW value \in Int
    PROVE  /\ value \div SizeScale \in Int
           /\ 0 <= value - SizeScale * (value \div SizeScale)
           /\ value - SizeScale * (value \div SizeScale) < SizeScale
BY ReportAssumption

LEMMA ClosingOfOneSize ==
    ASSUME account.position \in {-TargetSize, 0, TargetSize},
           NEW target \in {-TargetSize, 0, TargetSize}, target # account.position
    PROVE  Closing(target - account.position) = IF account.position = 0 THEN 0 ELSE TargetSize
<1> DEFINE held == account.position
<1> DEFINE delta == target - held
<1>1. TargetSize \in Nat \ {0}
  BY ReportAssumption
<1>2. TargetSize * TargetSize > 0
  BY <1>1
<1>3. held * delta >= 0 <=> held = 0
  <2>1. CASE held = 0
    BY <1>1, <2>1
  <2>2. CASE held = TargetSize
    <3>1. delta = -TargetSize \/ delta = -(2 * TargetSize)
      BY <1>1, <2>2
    <3> QED
      BY <1>1, <1>2, <2>2, <3>1
  <2>3. CASE held = -TargetSize
    <3>1. delta = TargetSize \/ delta = 2 * TargetSize
      BY <1>1, <2>3
    <3> QED
      BY <1>1, <1>2, <2>3, <3>1
  <2> QED
    BY <2>1, <2>2, <2>3
<1>4. held # 0 => LET size == IF held > 0 THEN held ELSE -held
                      quantity == IF delta > 0 THEN delta ELSE -delta
                  IN  (IF size < quantity THEN size ELSE quantity) = TargetSize
  BY <1>1
<1> QED
  BY <1>3, <1>4 DEF Closing

(* The gap of SimulationReconciles. *)
Gap(books) == SizeScale * (books.cash - StartCash - books.gross_profit
                             + books.gross_loss + books.fees)
                + books.position * books.entry

LEMMA GapOfFill ==
    ASSUME account \in Accounts, NEW target \in {-TargetSize, 0, TargetSize},
           NEW row \in Quotes, costs \in Nat \X Nat, target # account.position
    PROVE  LET next == Executed(target, row)
           IN  /\ next \in Accounts
               /\ next.fills = account.fills + 1
               /\ -2 * SizeScale <= Gap(next) - Gap(account)
               /\ Gap(next) - Gap(account) <= 2 * SizeScale
<1> DEFINE held == account.position
<1> DEFINE delta == target - held
<1> DEFINE side == IF delta > 0 THEN 1 ELSE -1
<1> DEFINE quantity == side * delta
<1> DEFINE price == FillPrice(IF side > 0 THEN row.ask ELSE row.bid, side, costs[2])
<1> DEFINE value == price * quantity
<1> DEFINE notional == value \div SizeScale
<1> DEFINE fee == (notional * costs[1] + CostParts - 1) \div CostParts
<1> DEFINE closing == Closing(delta)
<1> DEFINE gain == (IF held > 0 THEN price - account.entry ELSE account.entry - price) * closing
<1> DEFINE pnl == gain \div SizeScale
<1> DEFINE after == EntryAfter(target, price, quantity - closing)
<1> DEFINE next == [cash |-> account.cash - side * notional - fee,
                    position |-> target,
                    entry |-> after,
                    fills |-> account.fills + 1,
                    fees |-> account.fees + fee,
                    gross_profit |-> account.gross_profit + (IF pnl > 0 THEN pnl ELSE 0),
                    gross_loss |-> account.gross_loss + (IF pnl < 0 THEN -pnl ELSE 0)]
<1>1. TargetSize \in Nat \ {0} /\ SizeScale \in Nat \ {0} /\ CostParts \in Nat \ {0}
      /\ StartCash \in Int
  BY ReportAssumption
<1>2. /\ account.cash \in Int /\ account.entry \in Int /\ account.fills \in Nat
      /\ account.fees \in Int /\ account.gross_profit \in Int /\ account.gross_loss \in Int
      /\ held \in {-TargetSize, 0, TargetSize}
  BY DEF Accounts
<1>3. Executed(target, row) = next
  <2>1. delta # 0
    BY <1>1, <1>2
  <2> QED
    BY <2>1 DEF Executed
<1>4. delta \in Int /\ held \in Int /\ target \in Int /\ side \in {-1, 1} /\ quantity \in Int
      /\ quantity > 0 /\ delta # 0
  BY <1>1, <1>2
<1>5. price \in Int
  <2>1. row.ask \in Int /\ row.bid \in Int
    BY DEF Quotes
  <2>2. costs[2] \in Int
    OBVIOUS
  <2>3. (IF side > 0 THEN row.ask ELSE row.bid) \in Int /\ side \in Int
    BY <1>4, <2>1
  <2> HIDE DEF side
  <2> QED
    BY <2>2, <2>3, FillPriceIsInt
<1>6. closing = IF held = 0 THEN 0 ELSE TargetSize
  BY <1>2, ClosingOfOneSize
<1>7. after = IF target = 0 THEN 0 ELSE price
  <2>1. target # 0 => quantity - closing > 0
    <3> HIDE DEF closing
    <3> QED
      BY <1>1, <1>2, <1>6
  <2>2. target = 0 => ~(quantity - closing > 0 /\ target # 0)
    OBVIOUS
  <2> HIDE DEF quantity, closing, price
  <2> QED
    BY <2>1, <2>2 DEF EntryAfter
<1>8. closing \in Int /\ after \in Int
  <2> HIDE DEF closing, after, price
  <2> QED
    BY <1>1, <1>5, <1>6, <1>7
<1>9. target * after - held * account.entry = price * delta + gain
  <2> DEFINE entry == account.entry
  <2> HIDE DEF closing, after, price, side, quantity, delta
  <2>1. /\ held \in {-TargetSize, 0, TargetSize} /\ target # held
        /\ entry \in Int
    BY <1>2
  <2> HIDE DEF entry, held
  <2> DEFINE exact == price * (target - held)
                        + (IF held > 0 THEN price - entry ELSE entry - price) * closing
  <2>2. held = 0 => target * after - held * entry = exact
    BY <1>1, <1>5, <1>6, <1>7, <1>8, <2>1
  <2>3. held = TargetSize => target * after - held * entry = exact
    BY <1>1, <1>5, <1>6, <1>7, <1>8, <2>1
  <2>4. held = -TargetSize => target * after - held * entry = exact
    BY <1>1, <1>5, <1>6, <1>7, <1>8, <2>1
  <2>5. target * after - held * entry = exact
    BY <2>1, <2>2, <2>3, <2>4
  <2> QED
    BY <2>5 DEF entry, held, delta
<1>10. price * delta = side * value /\ value \in Int /\ gain \in Int
  <2> HIDE DEF closing, price
  <2>1. CASE side = 1
    <3> HIDE DEF side
    <3> QED
      BY <1>2, <1>4, <1>5, <1>8, <2>1
  <2>2. CASE side = -1
    <3> HIDE DEF side
    <3> QED
      BY <1>2, <1>4, <1>5, <1>8, <2>2
  <2> QED
    BY <1>4, <2>1, <2>2
<1> DEFINE left == value - SizeScale * notional
<1> DEFINE lost == gain - SizeScale * pnl
<1>11. /\ notional \in Int /\ 0 <= left /\ left < SizeScale
       /\ pnl \in Int /\ 0 <= lost /\ lost < SizeScale
  <2> HIDE DEF value, gain
  <2> QED
    BY <1>10, Truncated
<1>12. fee \in Int
  <2> DEFINE charge == notional * costs[1]
  <2>1. costs[1] \in Int
    OBVIOUS
  <2>2. charge \in Int
    <3> HIDE DEF notional
    <3> QED
      BY <1>11, <2>1
  <2> HIDE DEF charge
  <2>3. (charge + CostParts - 1) \div CostParts \in Int
    BY <1>1, <2>2
  <2> QED
    BY <2>3 DEF charge
<1>13. next \in Accounts /\ next.fills = account.fills + 1
  <2> HIDE DEF pnl, fee, notional, after, side
  <2>1. side * notional \in Int
    BY <1>4, <1>11
  <2> QED
    BY <1>1, <1>2, <1>8, <1>11, <1>12, <2>1 DEF Accounts
<1>14. Gap(next) - Gap(account) = side * left + lost
  <2> HIDE DEF pnl, fee, notional, after, value, gain, side
  <2>1. next.gross_profit - next.gross_loss = account.gross_profit - account.gross_loss + pnl
    BY <1>2, <1>11
  <2>2. next.cash + next.fees = account.cash + account.fees - side * notional
    BY <1>2, <1>4, <1>11, <1>12
  <2> DEFINE before == account.cash - StartCash - account.gross_profit
                         + account.gross_loss + account.fees
  <2> DEFINE then == next.cash - StartCash - next.gross_profit + next.gross_loss + next.fees
  <2>3. then = before - side * notional - pnl /\ before \in Int /\ then \in Int
    <3> HIDE DEF next
    <3>1. /\ next.cash \in Int /\ next.gross_profit \in Int /\ next.gross_loss \in Int
          /\ next.fees \in Int
      BY <1>13 DEF Accounts
    <3> DEFINE paid == side * notional
    <3>2. paid \in Int
      BY <1>4, <1>11
    <3> HIDE DEF paid
    <3>3. then = before - paid - pnl
      <4>1. next.cash + next.fees = account.cash + account.fees - paid
        BY <2>2 DEF paid
      <4>2. pnl \in Int
        BY <1>11
      <4> QED
        BY <1>1, <1>2, <2>1, <3>1, <3>2, <4>1, <4>2
    <3>4. before \in Int /\ then \in Int
      BY <1>1, <1>2, <3>1
    <3> QED
      BY <3>3, <3>4 DEF paid
  <2>4. Gap(next) = SizeScale * then + target * after
    BY DEF Gap
  <2>5. Gap(account) = SizeScale * before + held * account.entry
    BY DEF Gap
  <2> HIDE DEF then, before, next
  <2>6. SizeScale * then = SizeScale * before - side * (SizeScale * notional) - SizeScale * pnl
    BY <1>1, <1>4, <1>11, <2>3
  <2>7. side * left = side * value - side * (SizeScale * notional)
    BY <1>1, <1>4, <1>10, <1>11
  <2> DEFINE scaled == SizeScale * notional
  <2> DEFINE entryBefore == held * account.entry
  <2> DEFINE entryAfter == target * after
  <2> DEFINE sb == SizeScale * before
  <2> DEFINE sp == SizeScale * pnl
  <2>8. /\ scaled \in Int /\ entryBefore \in Int /\ entryAfter \in Int /\ sb \in Int /\ sp \in Int
        /\ side * scaled \in Int /\ side * value \in Int
    BY <1>1, <1>2, <1>4, <1>8, <1>10, <1>11, <2>3
  <2>9. entryAfter - entryBefore = side * value + gain
    BY <1>9, <1>10
  <2>10. Gap(next) - Gap(account) = (sb - side * scaled - sp + entryAfter) - (sb + entryBefore)
    BY <2>4, <2>5, <2>6
  <2>11. side * left + lost = side * value - side * scaled + gain - sp
    BY <1>10, <2>7, <2>8
  <2> HIDE DEF scaled, entryBefore, entryAfter, sb, sp, left, lost
  <2> QED
    BY <1>10, <2>8, <2>9, <2>10, <2>11
<1> HIDE DEF left, lost, side
<1>15. left \in Int /\ lost \in Int
  <2> HIDE DEF notional, pnl, value, gain
  <2> QED
    BY <1>1, <1>10, <1>11 DEF left, lost
<1>16. -2 * SizeScale <= side * left + lost /\ side * left + lost <= 2 * SizeScale
  BY <1>1, <1>4, <1>11, <1>15
<1> HIDE DEF next
<1> QED
  BY <1>3, <1>13, <1>14, <1>16

LEMMA SamplesOfPeriod ==
    ASSUME SamplesInv, NEW name, NEW n \in Nat \ {0}, n <= Len(SamplesOf(name))
    PROVE  rows[SamplesOf(name)[n].index] \in Quotes
<1> DEFINE chosen == {i \in DOMAIN samples : samples[i].period = name}
<1> DEFINE places == Places(Len(samples), chosen)
<1>1. Len(samples) \in Nat
  BY DEF SamplesInv
<1>2. places \in Seq(chosen \cap (1 .. Len(samples)))
  <2> HIDE DEF chosen
  <2> QED
    BY <1>1, PlacesChosen
<1>3. SamplesOf(name) = [k \in DOMAIN places |-> samples[places[k]]]
  BY DEF SamplesOf, Chosen
<1> HIDE DEF chosen, places
<1>4. n \in DOMAIN places
  BY <1>2, <1>3
<1>5. places[n] \in 1 .. Len(samples)
  BY <1>2, <1>4
<1>6. samples[places[n]] \in SamplesOfRows
  BY <1>5 DEF SamplesInv
<1>7. samples[places[n]].index \in Warmup + 1 .. Len(rows)
  <2> DEFINE sample == samples[places[n]]
  <2> HIDE DEF sample
  <2>1. sample \in SamplesOfRows
    BY <1>6 DEF sample
  <2>2. sample.index \in Warmup + 1 .. Len(rows)
    BY <2>1 DEF SamplesOfRows
  <2> QED
    BY <2>2 DEF sample
<1>8. samples[places[n]].index \in DOMAIN rows
  <2>1. Warmup \in Nat /\ DOMAIN rows = 1 .. Len(rows) /\ Len(rows) \in Nat
    BY ReportAssumption DEF SamplesInv
  <2> DEFINE at == samples[places[n]].index
  <2>2. at \in Warmup + 1 .. Len(rows)
    BY <1>7
  <2> HIDE DEF at
  <2>3. at \in 1 .. Len(rows)
    BY <2>1, <2>2
  <2> QED
    BY <2>1, <2>3 DEF at
<1> QED
  BY <1>3, <1>4, <1>8 DEF SamplesInv

LEMMA InitAccount == ResearchInit => AccountInv
<1> SUFFICES ASSUME ResearchInit PROVE AccountInv
  OBVIOUS
<1>1. /\ account = NewAccount /\ step = 0 /\ pending = 0 /\ stage = "samples"
      /\ StartCash \in Nat /\ SizeScale \in Nat
  BY ReportAssumption DEF ResearchInit, ReportInit
<1>2. account \in Accounts
  BY <1>1 DEF Accounts, NewAccount
<1>3. SimulationReconciles
  BY <1>1 DEF SimulationReconciles, NewAccount
<1> QED
  BY <1>1, <1>2, <1>3 DEF AccountInv

LEMMA ExecutedReconciles ==
    ASSUME account \in Accounts, SimulationReconciles, costs \in Nat \X Nat,
           NEW target \in {-TargetSize, 0, TargetSize}, NEW row \in Quotes,
           account' = Executed(target, row)
    PROVE  account' \in Accounts /\ SimulationReconciles'
<1>1. CASE target = account.position
  <2>1. account' = account
    <3>1. target - account.position = 0
      BY <1>1, ReportAssumption
    <3> QED
      BY <3>1 DEF Executed
  <2> QED
    BY <2>1 DEF SimulationReconciles
<1>2. CASE target # account.position
  <2>1. /\ account' \in Accounts
        /\ account'.fills = account.fills + 1
        /\ -2 * SizeScale <= Gap(account') - Gap(account)
        /\ Gap(account') - Gap(account) <= 2 * SizeScale
    BY <1>2, GapOfFill
  <2>2. /\ -2 * SizeScale * account.fills <= Gap(account)
        /\ Gap(account) <= 2 * SizeScale * account.fills
    BY DEF SimulationReconciles, Gap
  <2>3. \A books \in Accounts : Gap(books) \in Int /\ books.fills \in Nat
    <3> TAKE books \in Accounts
    <3>1. /\ books.cash \in Int /\ books.gross_profit \in Int /\ books.gross_loss \in Int
          /\ books.fees \in Int /\ books.entry \in Int /\ books.position \in Int
          /\ books.fills \in Nat /\ StartCash \in Int /\ SizeScale \in Int
      BY ReportAssumption DEF Accounts
    <3> DEFINE money == books.cash - StartCash - books.gross_profit
                          + books.gross_loss + books.fees
    <3>2. money \in Int
      BY <3>1
    <3> HIDE DEF money
    <3>3. SizeScale * money + books.position * books.entry \in Int
      BY <3>1, <3>2
    <3> QED
      BY <3>1, <3>3 DEF Gap, money
  <2> DEFINE before == Gap(account)
  <2> DEFINE then == Gap(account')
  <2> DEFINE fills == account.fills
  <2> DEFINE all == SizeScale * fills
  <2>4. before \in Int /\ then \in Int /\ fills \in Int /\ SizeScale \in Int /\ all \in Int
    BY <2>1, <2>3, ReportAssumption
  <2> HIDE DEF before, then, fills
  <2>5. /\ -2 * SizeScale * fills = -2 * all
        /\ 2 * SizeScale * fills = 2 * all
        /\ -2 * SizeScale * (fills + 1) = -2 * all - 2 * SizeScale
        /\ 2 * SizeScale * (fills + 1) = 2 * all + 2 * SizeScale
    BY <2>4
  <2> HIDE DEF all
  <2>6. /\ -2 * SizeScale <= then - before /\ then - before <= 2 * SizeScale
        /\ -2 * SizeScale * fills <= before /\ before <= 2 * SizeScale * fills
    BY <2>1, <2>2 DEF before, then, fills
  <2>7. -2 * all - 2 * SizeScale <= then /\ then <= 2 * all + 2 * SizeScale
    BY <2>4, <2>5, <2>6
  <2>8. /\ -2 * SizeScale * account'.fills <= Gap(account')
        /\ Gap(account') <= 2 * SizeScale * account'.fills
    BY <2>1, <2>5, <2>7 DEF then, fills
  <2> QED
    BY <2>1, <2>8 DEF SimulationReconciles, Gap
<1> QED
  BY <1>1, <1>2

LEMMA StepKeepsAccount ==
    SamplesInv /\ AccountInv /\ [ResearchNext]_researchVars => AccountInv'
<1> SUFFICES ASSUME SamplesInv, AccountInv, [ResearchNext]_researchVars PROVE AccountInv'
  OBVIOUS
<1>1. ASSUME UNCHANGED <<account, step, pending>>,
             stage' = "simulation" => costs' \in Nat \X Nat
      PROVE  AccountInv'
  BY <1>1 DEF AccountInv, SimulationReconciles
<1>2. CASE BuildSample
  BY <1>1, <1>2 DEF BuildSample, AccountInv
<1>3. CASE SkipRow
  BY <1>1, <1>3 DEF SkipRow, AccountInv
<1>4. CASE StartSimulation
  <2>1. costs' \in Nat \X Nat
    BY <1>4, ReportAssumption DEF StartSimulation
  <2> QED
    BY <1>1, <1>4, <2>1 DEF StartSimulation
<1>5. ASSUME NEW action \in {-1, 0, 1}, SimulateRow(action) PROVE AccountInv'
  <2>1. /\ stage = "simulation" /\ stage' = stage /\ costs' = costs
        /\ step \in Nat /\ step' = step + 1 /\ pending' = action
        /\ costs \in Nat \X Nat
    BY <1>5 DEF SimulateRow, AccountInv
  <2>2. account' \in Accounts /\ SimulationReconciles'
    <3>1. CASE step = 0
      BY <1>5, <3>1 DEF SimulateRow, AccountInv, SimulationReconciles
    <3>2. CASE step # 0
      <4> DEFINE target == pending * TargetSize
      <4> DEFINE row == rows[SamplesOf(period)[step + 1].index]
      <4>1. account' = Executed(target, row)
        BY <1>5, <3>2 DEF SimulateRow
      <4>2. target \in {-TargetSize, 0, TargetSize}
        BY ReportAssumption DEF AccountInv
      <4>3. row \in Quotes
        <5>1. step + 1 \in Nat \ {0} /\ step + 1 <= Len(SamplesOf(period))
          BY <1>5, <2>1 DEF SimulateRow
        <5> QED
          BY <5>1, SamplesOfPeriod
      <4> HIDE DEF target, row
      <4> QED
        BY <2>1, <4>1, <4>2, <4>3, ExecutedReconciles DEF AccountInv
    <3> QED
      BY <3>1, <3>2
  <2> QED
    BY <1>5, <2>1, <2>2 DEF AccountInv
<1>6. CASE UNCHANGED researchVars
  BY <1>1, <1>6 DEF researchVars, reportVars, AccountInv
<1> QED
  BY <1>2, <1>3, <1>4, <1>5, <1>6 DEF ResearchNext, ReportNext

(* SimulationReconciles for any file, actions and costs: cash, entry price,     *)
(* gross profit and loss and fees of simulate account for each other, but for    *)
(* what rounding takes at each fill.                                         *)
THEOREM SimulatedAccountReconciles == RowsInOrder /\ ResearchSpec => []SimulationReconciles
<1>1. AccountInv => SimulationReconciles
  BY DEF AccountInv
<1>2. RowsInOrder => RowsInOrder'
  BY DEF RowsInOrder
<1> QED
  BY <1>1, <1>2, InitSamples, InitAccount, StepKeepsSamples, StepKeepsAccount, PTL
     DEF ResearchSpec

-----------------------------------------------------------------------------
(* Sums over finite sets, whatever the order of the terms. *)

LEMMA RestIsSmaller ==
    ASSUME NEW s, IsFiniteSet(s), NEW n \in Nat, Cardinality(s) = n + 1, NEW x \in s
    PROVE  Cardinality(s \ {x}) = n
BY FS_RemoveElement, FS_CardinalityType

(* g sums f over every subset of S, taking out one element after the other. *)
IsSum(f, S, g) ==
    g = [s \in SUBSET S |->
           IF s = {} THEN 0
           ELSE f[CHOOSE x \in s : TRUE] + g[s \ {CHOOSE x \in s : TRUE}]]

(* One element is taken out at a time. *)
LEMMA SumTaken ==
    ASSUME NEW f, NEW S, NEW g, IsSum(f, S, g)
    PROVE  /\ g[{}] = 0
           /\ \A s \in SUBSET S : s # {} =>
                 \E x \in s : g[s] = f[x] + g[s \ {x}]
<1>1. g[{}] = 0
  BY DEF IsSum
<1>2. ASSUME NEW s \in SUBSET S, s # {} PROVE \E x \in s : g[s] = f[x] + g[s \ {x}]
  <2> DEFINE c == CHOOSE x \in s : TRUE
  <2>1. c \in s
    BY <1>2
  <2>2. g[s] = f[c] + g[s \ {c}]
    BY <1>2 DEF IsSum
  <2> QED
    BY <2>1, <2>2
<1> QED
  BY <1>1, <1>2

LEMMA SumExists ==
    ASSUME NEW f, NEW S, IsFiniteSet(S)
    PROVE  \E g : IsSum(f, S, g)
<1> DEFINE Taken(g, s) ==
             IF s = {} THEN 0
             ELSE f[CHOOSE x \in s : TRUE] + g[s \ {CHOOSE x \in s : TRUE}]
           UpTo(n, g) ==
             /\ DOMAIN g = SUBSET S /\ g = [s \in SUBSET S |-> g[s]]
             /\ \A s \in SUBSET S : Cardinality(s) <= n => g[s] = Taken(g, s)
           P == {n \in Nat : \E g : UpTo(n, g)}
<1>1. \A s \in SUBSET S : IsFiniteSet(s) /\ Cardinality(s) \in Nat
  BY FS_Subset, FS_CardinalityType
<1>2. 0 \in P
  <2> DEFINE g == [s \in SUBSET S |-> 0]
  <2>1. ASSUME NEW s \in SUBSET S, Cardinality(s) <= 0 PROVE g[s] = Taken(g, s)
    <3>1. s = {}
      BY <1>1, <2>1, FS_EmptySet
    <3> QED
      BY <3>1
  <2>2. UpTo(0, g)
    BY <2>1
  <2> QED
    BY <2>2
<1>3. ASSUME NEW n \in Nat, n \in P PROVE n + 1 \in P
  <2>1. PICK h : UpTo(n, h)
    BY <1>3
  <2> DEFINE g == [s \in SUBSET S |-> IF Cardinality(s) = n + 1 THEN Taken(h, s) ELSE h[s]]
  <2>2. ASSUME NEW s \in SUBSET S, Cardinality(s) <= n + 1 PROVE g[s] = Taken(g, s)
    <3> DEFINE c == CHOOSE x \in s : TRUE
               rest == s \ {c}
    <3>1. CASE s = {}
      <4>1. Cardinality(s) = 0
        BY <3>1, FS_EmptySet
      <4>2. g[s] = h[s]
        BY <4>1
      <4>3. h[s] = 0
        <5>1. h[s] = Taken(h, s)
          <6>1. Cardinality(s) <= n
            BY <4>1
          <6> HIDE DEF Taken
          <6> QED
            BY <2>1, <6>1
        <5> QED
          BY <3>1, <5>1
      <4> HIDE DEF g
      <4> QED
        BY <3>1, <4>2, <4>3
    <3>2. CASE s # {}
      <4>1. c \in s
        BY <3>2
      <4>2. rest \in SUBSET S /\ Cardinality(rest) = Cardinality(s) - 1
        BY <1>1, <4>1, FS_RemoveElement
      <4>3. g[rest] = h[rest]
        BY <1>1, <2>2, <4>2
      <4>4. g[s] = Taken(h, s)
        <5>1. CASE Cardinality(s) = n + 1
          BY <5>1
        <5>2. CASE Cardinality(s) # n + 1
          <6>1. Cardinality(s) <= n
            BY <1>1, <2>2, <5>2
          <6>2. g[s] = h[s]
            BY <5>2
          <6> HIDE DEF g, Taken
          <6> QED
            BY <2>1, <6>1, <6>2
        <5> HIDE DEF g, Taken
        <5> QED
          BY <5>1, <5>2
      <4>5. Taken(h, s) = f[c] + h[rest]
        BY <3>2
      <4>6. Taken(g, s) = f[c] + g[rest]
        <5> HIDE DEF g
        <5> QED
          BY <3>2
      <4> HIDE DEF g, Taken, rest, c
      <4> QED
        BY <4>3, <4>4, <4>5, <4>6
    <3> QED
      BY <3>1, <3>2
  <2>3. UpTo(n + 1, g)
    <3>1. DOMAIN g = SUBSET S /\ g = [s \in SUBSET S |-> g[s]]
      OBVIOUS
    <3> HIDE DEF g, Taken
    <3> QED
      BY <2>2, <3>1
  <2> QED
    <3> HIDE DEF UpTo, g
    <3> QED
      BY <2>3
<1>4. Cardinality(S) \in P
  <2> HIDE DEF P
  <2> QED
    BY <1>1, <1>2, <1>3, Induction
<1>5. PICK g : UpTo(Cardinality(S), g)
  BY <1>4
<1>6. \A s \in SUBSET S : g[s] = Taken(g, s)
  <2>1. \A s \in SUBSET S : Cardinality(s) <= Cardinality(S)
    BY FS_Subset
  <2> HIDE DEF Taken
  <2> QED
    BY <1>5, <2>1
<1>7. g = [s \in SUBSET S |-> Taken(g, s)]
  <2> HIDE DEF Taken
  <2> QED
    BY <1>5, <1>6
<1> QED
  BY <1>7 DEF IsSum

LEMMA SumsAgree ==
    ASSUME NEW f, NEW S, IsFiniteSet(S), NEW g, IsSum(f, S, g),
           NEW h, NEW T, NEW k, IsSum(h, T, k)
    PROVE  \A s \in SUBSET S : s \subseteq T /\ (\A x \in s : f[x] = h[x]) => g[s] = k[s]
<1> DEFINE P == {n \in Nat : \A s \in SUBSET S :
                    /\ Cardinality(s) = n /\ s \subseteq T
                    /\ \A x \in s : f[x] = h[x]
                    => g[s] = k[s]}
<1>1. \A s \in SUBSET S : IsFiniteSet(s) /\ Cardinality(s) \in Nat
  BY FS_Subset, FS_CardinalityType
<1>2. 0 \in P
  <2>1. \A s \in SUBSET S : Cardinality(s) = 0 => s = {}
    BY <1>1, FS_EmptySet
  <2>2. g[{}] = 0 /\ k[{}] = 0
    BY SumTaken
  <2> QED
    BY <2>1, <2>2
<1>3. ASSUME NEW n \in Nat, n \in P PROVE n + 1 \in P
  <2>1. ASSUME NEW s \in SUBSET S, Cardinality(s) = n + 1, s \subseteq T,
               \A x \in s : f[x] = h[x]
        PROVE  g[s] = k[s]
    <3> DEFINE c == CHOOSE x \in s : TRUE
               rest == s \ {c}
    <3>1. s # {}
      BY <2>1, FS_EmptySet
    <3>2. c \in s
      BY <3>1
    <3>3. rest \in SUBSET S /\ Cardinality(rest) = n
      BY <1>1, <2>1, <3>2, RestIsSmaller
    <3>4. g[rest] = k[rest]
      BY <1>3, <2>1, <3>3
    <3>5. g[s] = f[c] + g[rest] /\ k[s] = h[c] + k[rest]
      BY <2>1, <3>1 DEF IsSum
    <3> HIDE DEF c, rest
    <3> QED
      BY <2>1, <3>2, <3>4, <3>5
  <2> QED
    BY <2>1
<1>4. Nat \subseteq P
  <2> HIDE DEF P
  <2> QED
    BY <1>2, <1>3, Induction
<1> QED
  BY <1>1, <1>4

LEMMA SumIsInt ==
    ASSUME NEW f, NEW S, IsFiniteSet(S), NEW g, IsSum(f, S, g), \A x \in S : f[x] \in Int
    PROVE  \A s \in SUBSET S : g[s] \in Int
<1> DEFINE P == {n \in Nat : \A s \in SUBSET S : Cardinality(s) = n => g[s] \in Int}
<1>1. \A s \in SUBSET S : IsFiniteSet(s) /\ Cardinality(s) \in Nat
  BY FS_Subset, FS_CardinalityType
<1>2. 0 \in P
  <2>1. \A s \in SUBSET S : Cardinality(s) = 0 => s = {}
    BY <1>1, FS_EmptySet
  <2>2. g[{}] = 0
    BY SumTaken
  <2> QED
    BY <2>1, <2>2
<1>3. ASSUME NEW n \in Nat, n \in P PROVE n + 1 \in P
  <2>1. ASSUME NEW s \in SUBSET S, Cardinality(s) = n + 1 PROVE g[s] \in Int
    <3>1. s # {}
      BY <2>1, FS_EmptySet
    <3>2. PICK x \in s : g[s] = f[x] + g[s \ {x}]
      BY <3>1, SumTaken
    <3>3. s \ {x} \in SUBSET S /\ Cardinality(s \ {x}) = n
      BY <1>1, <2>1, RestIsSmaller
    <3> QED
      BY <1>3, <3>2, <3>3
  <2> QED
    BY <2>1
<1>4. Nat \subseteq P
  <2> HIDE DEF P
  <2> QED
    BY <1>2, <1>3, Induction
<1> QED
  BY <1>1, <1>4

(* The order in which the elements are taken out does not matter. *)
LEMMA SumAnyOrder ==
    ASSUME NEW f, NEW S, IsFiniteSet(S), NEW g, IsSum(f, S, g), \A x \in S : f[x] \in Int
    PROVE  \A s \in SUBSET S : \A y \in s : g[s] = f[y] + g[s \ {y}]
<1> DEFINE P == {n \in Nat : \A s \in SUBSET S : Cardinality(s) = n =>
                    \A y \in s : g[s] = f[y] + g[s \ {y}]}
<1>1. \A s \in SUBSET S : IsFiniteSet(s) /\ Cardinality(s) \in Nat /\ g[s] \in Int
  BY FS_Subset, FS_CardinalityType, SumIsInt
<1>2. 0 \in P
  <2>1. \A s \in SUBSET S : Cardinality(s) = 0 => s = {}
    BY <1>1, FS_EmptySet
  <2> QED
    BY <2>1
<1>3. ASSUME NEW n \in Nat, n \in P PROVE n + 1 \in P
  <2>1. ASSUME NEW s \in SUBSET S, Cardinality(s) = n + 1, NEW y \in s
        PROVE  g[s] = f[y] + g[s \ {y}]
    <3>1. PICK x \in s : g[s] = f[x] + g[s \ {x}]
      BY SumTaken
    <3>2. CASE x # y
      <4> DEFINE rest == s \ {x, y}
      <4>1. /\ s \ {x} \in SUBSET S /\ Cardinality(s \ {x}) = n
            /\ s \ {y} \in SUBSET S /\ Cardinality(s \ {y}) = n
        BY <1>1, <2>1, RestIsSmaller
      <4>2. /\ (s \ {x}) \ {y} = rest /\ (s \ {y}) \ {x} = rest /\ rest \in SUBSET S
            /\ y \in s \ {x} /\ x \in s \ {y}
        BY <3>2
      <4>3. g[s \ {x}] = f[y] + g[rest]
        BY <1>3, <4>1, <4>2
      <4>4. g[s \ {y}] = f[x] + g[rest]
        BY <1>3, <4>1, <4>2
      <4>5. f[x] \in Int /\ f[y] \in Int /\ g[rest] \in Int
        BY <1>1, <4>2
      <4> HIDE DEF rest
      <4> QED
        BY <3>1, <4>3, <4>4, <4>5
    <3> QED
      BY <3>1, <3>2
  <2> QED
    BY <2>1
<1>4. Nat \subseteq P
  <2> HIDE DEF P
  <2> QED
    BY <1>2, <1>3, Induction
<1> QED
  BY <1>1, <1>4

LEMMA SumIsSum ==
    ASSUME NEW f, NEW S, IsFiniteSet(S)
    PROVE  \E g : IsSum(f, S, g) /\ SumFunctionOnSet(f, S) = g[S]
<1> DEFINE g == CHOOSE g : IsSum(f, S, g)
<1>1. IsSum(f, S, g)
  <2> HIDE DEF IsSum
  <2> QED
    BY SumExists
<1>2. SumFunctionOnSet(f, S) = g[S]
  BY DEF SumFunctionOnSet, FoldFunctionOnSet, MapThenFoldSet, IsSum
<1> QED
  <2> HIDE DEF g
  <2> QED
    BY <1>1, <1>2

LEMMA SumOfNothing ==
    ASSUME NEW f
    PROVE  SumFunctionOnSet(f, {}) = 0
<1>1. PICK g : IsSum(f, {}, g) /\ SumFunctionOnSet(f, {}) = g[{}]
  BY SumIsSum, FS_EmptySet
<1> QED
  BY <1>1, SumTaken

(* A sum reads a function only where it sums. *)
LEMMA SumReads ==
    ASSUME NEW f, NEW h, NEW S, IsFiniteSet(S), \A x \in S : f[x] = h[x]
    PROVE  SumFunctionOnSet(f, S) = SumFunctionOnSet(h, S)
<1>1. PICK g : IsSum(f, S, g) /\ SumFunctionOnSet(f, S) = g[S]
  BY SumIsSum
<1>2. PICK k : IsSum(h, S, k) /\ SumFunctionOnSet(h, S) = k[S]
  BY SumIsSum
<1>3. g[S] = k[S]
  BY <1>1, <1>2, SumsAgree
<1> QED
  BY <1>1, <1>2, <1>3

LEMMA SumAdds ==
    ASSUME NEW f, NEW S, IsFiniteSet(S), NEW x, x \notin S, \A y \in S \cup {x} : f[y] \in Int
    PROVE  /\ SumFunctionOnSet(f, S) \in Int
           /\ SumFunctionOnSet(f, S \cup {x}) = SumFunctionOnSet(f, S) + f[x]
<1> DEFINE T == S \cup {x}
<1>1. IsFiniteSet(T) /\ S \in SUBSET T /\ S \in SUBSET S /\ T \ {x} = S
  BY FS_AddElement
<1> HIDE DEF T
<1>2. PICK g : IsSum(f, S, g) /\ SumFunctionOnSet(f, S) = g[S]
  BY SumIsSum
<1>3. PICK k : IsSum(f, T, k) /\ SumFunctionOnSet(f, T) = k[T]
  BY <1>1, SumIsSum
<1>4. g[S] = k[S]
  BY <1>1, <1>2, <1>3, SumsAgree
<1>5. \A y \in T : f[y] \in Int
  BY DEF T
<1>6. k[T] = f[x] + k[S]
  BY <1>1, <1>3, <1>5, SumAnyOrder DEF T
<1>7. k[S] \in Int /\ f[x] \in Int
  BY <1>1, <1>3, <1>5, SumIsInt DEF T
<1> QED
  BY <1>2, <1>3, <1>4, <1>6, <1>7 DEF T

(* Induction over the subsets of a finite set, one element after the other. *)
LEMMA SetInduction ==
    ASSUME NEW S, IsFiniteSet(S), NEW P, {} \in P,
           \A T \in SUBSET S : \A x \in S \ T : T \in P => T \cup {x} \in P
    PROVE  S \in P
<1> DEFINE Q == {n \in Nat : \A T \in SUBSET S : Cardinality(T) = n => T \in P}
<1>1. \A T \in SUBSET S : IsFiniteSet(T) /\ Cardinality(T) \in Nat
  BY FS_Subset, FS_CardinalityType
<1>2. 0 \in Q
  BY <1>1, FS_EmptySet
<1>3. ASSUME NEW n \in Nat, n \in Q PROVE n + 1 \in Q
  <2> SUFFICES ASSUME NEW T \in SUBSET S, Cardinality(T) = n + 1 PROVE T \in P
    OBVIOUS
  <2>1. T # {}
    <3>1. Cardinality({}) = 0 /\ Cardinality(T) # 0
      BY FS_EmptySet
    <3> QED
      BY <3>1
  <2>2. PICK x \in T : TRUE
    BY <2>1
  <2>3. Cardinality(T \ {x}) = n
    BY <1>1, RestIsSmaller
  <2>4. T \ {x} \in P /\ T \ {x} \in SUBSET S /\ x \in S \ (T \ {x})
    BY <1>3, <2>3
  <2>5. (T \ {x}) \cup {x} = T
    OBVIOUS
  <2> QED
    BY <2>4, <2>5
<1> HIDE DEF Q
<1>4. Nat \subseteq Q
  BY <1>2, <1>3, Induction
<1> QED
  BY <1>1, <1>4 DEF Q

LEMMA SumTyped ==
    ASSUME NEW f, NEW S, IsFiniteSet(S), \A x \in S : f[x] \in Int
    PROVE  SumFunctionOnSet(f, S) \in Int
<1>1. PICK g : IsSum(f, S, g) /\ SumFunctionOnSet(f, S) = g[S]
  BY SumIsSum
<1>2. g[S] \in Int
  BY <1>1, SumIsInt
<1> QED
  BY <1>1, <1>2

LEMMA SumOfUnion ==
    ASSUME NEW f, NEW S, NEW T, IsFiniteSet(S), IsFiniteSet(T), S \cap T = {},
           \A x \in S \cup T : f[x] \in Int
    PROVE  SumFunctionOnSet(f, S \cup T) = SumFunctionOnSet(f, S) + SumFunctionOnSet(f, T)
<1> DEFINE P == {U \in SUBSET T : SumFunctionOnSet(f, S \cup U)
                                    = SumFunctionOnSet(f, S) + SumFunctionOnSet(f, U)}
<1>1. {} \in P
  <2>1. SumFunctionOnSet(f, S) \in Int
    BY SumTyped
  <2>2. S \cup {} = S
    OBVIOUS
  <2> QED
    BY <2>1, <2>2, SumOfNothing
<1>2. ASSUME NEW U \in SUBSET T, NEW x \in T \ U, U \in P PROVE U \cup {x} \in P
  <2>1. IsFiniteSet(U) /\ IsFiniteSet(S \cup U)
    BY FS_Subset, FS_Union
  <2>2. x \notin U /\ \A y \in U \cup {x} : f[y] \in Int
    OBVIOUS
  <2>3. x \notin S \cup U /\ \A y \in (S \cup U) \cup {x} : f[y] \in Int
    OBVIOUS
  <2>4. /\ SumFunctionOnSet(f, U) \in Int
        /\ SumFunctionOnSet(f, U \cup {x}) = SumFunctionOnSet(f, U) + f[x]
    BY <2>1, <2>2, SumAdds, Zenon
  <2>5. SumFunctionOnSet(f, (S \cup U) \cup {x}) = SumFunctionOnSet(f, S \cup U) + f[x]
    BY <2>1, <2>3, SumAdds, Zenon
  <2>6. (S \cup U) \cup {x} = S \cup (U \cup {x}) /\ U \cup {x} \in SUBSET T /\ f[x] \in Int
    OBVIOUS
  <2>7. SumFunctionOnSet(f, S) \in Int
    BY SumTyped
  <2>8. SumFunctionOnSet(f, S \cup U) = SumFunctionOnSet(f, S) + SumFunctionOnSet(f, U)
    BY <1>2
  <2>9. SumFunctionOnSet(f, S \cup (U \cup {x}))
          = SumFunctionOnSet(f, S) + SumFunctionOnSet(f, U \cup {x})
    <3>1. SumFunctionOnSet(f, S \cup (U \cup {x})) = SumFunctionOnSet(f, S \cup U) + f[x]
      BY <2>5, <2>6
    <3> QED
      BY <2>4, <2>6, <2>7, <2>8, <3>1
  <2> QED
    BY <2>6, <2>9
<1> HIDE DEF P
<1>3. T \in P
  BY <1>1, <1>2, SetInduction
<1> QED
  BY <1>3 DEF P

ImageOf(h, T) == {h[x] : x \in T}

(* A sum does not depend on what its terms are named. *)
LEMMA SumRenamed ==
    ASSUME NEW f, NEW g, NEW h, NEW S, IsFiniteSet(S),
           \A x \in S : f[x] \in Int /\ g[h[x]] = f[x],
           \A x, y \in S : h[x] = h[y] => x = y
    PROVE  /\ IsFiniteSet(ImageOf(h, S))
           /\ SumFunctionOnSet(g, ImageOf(h, S)) = SumFunctionOnSet(f, S)
<1> DEFINE P == {T \in SUBSET S : /\ IsFiniteSet(ImageOf(h, T))
                                  /\ SumFunctionOnSet(g, ImageOf(h, T)) = SumFunctionOnSet(f, T)}
<1>1. {} \in P
  <2>1. ImageOf(h, {}) = {}
    BY DEF ImageOf
  <2> QED
    BY <2>1, SumOfNothing, FS_EmptySet
<1>2. ASSUME NEW T \in SUBSET S, NEW x \in S \ T, T \in P PROVE T \cup {x} \in P
  <2>1. ImageOf(h, T \cup {x}) = ImageOf(h, T) \cup {h[x]}
    BY DEF ImageOf
  <2>2. IsFiniteSet(T) /\ IsFiniteSet(ImageOf(h, T))
    BY <1>2, FS_Subset
  <2>3. IsFiniteSet(ImageOf(h, T) \cup {h[x]})
    BY <2>2, FS_AddElement
  <2>4. x \notin T /\ \A y \in T \cup {x} : f[y] \in Int
    OBVIOUS
  <2>5. h[x] \notin ImageOf(h, T) /\ \A z \in ImageOf(h, T) \cup {h[x]} : g[z] \in Int
    BY DEF ImageOf
  <2>6. SumFunctionOnSet(f, T \cup {x}) = SumFunctionOnSet(f, T) + f[x]
    BY <2>2, <2>4, SumAdds, Zenon
  <2> DEFINE image == ImageOf(h, T)
  <2> DEFINE name == h[x]
  <2>7. SumFunctionOnSet(g, image \cup {name}) = SumFunctionOnSet(g, image) + g[name]
    <3>1. IsFiniteSet(image) /\ name \notin image /\ \A z \in image \cup {name} : g[z] \in Int
      BY <2>2, <2>5
    <3> HIDE DEF image, name
    <3> QED
      BY <3>1, SumAdds, Zenon
  <2>8. g[h[x]] = f[x]
    OBVIOUS
  <2> QED
    BY <1>2, <2>1, <2>3, <2>6, <2>7, <2>8
<1> HIDE DEF P
<1>3. S \in P
  BY <1>1, <1>2, SetInduction
<1> QED
  BY <1>3 DEF P

-----------------------------------------------------------------------------
(* The folds of the community modules, step by step. *)

(* The largest of some numbers. *)
LEMMA LargestExists ==
    ASSUME NEW n \in Nat, NEW S \in SUBSET (1 .. n), S # {}
    PROVE  Max(S) \in S /\ \A y \in S : y <= Max(S)
<1> DEFINE P == {k \in Nat : \A T \in SUBSET (1 .. k) : T # {} => \E x \in T : \A y \in T : x >= y}
<1>1. 0 \in P
  <2>1. \A T \in SUBSET (1 .. 0) : T = {}
    OBVIOUS
  <2> QED
    BY <2>1
<1>2. ASSUME NEW k \in Nat, k \in P PROVE k + 1 \in P
  <2> SUFFICES ASSUME NEW T \in SUBSET (1 .. k + 1), T # {}
               PROVE  \E x \in T : \A y \in T : x >= y
    OBVIOUS
  <2>1. CASE k + 1 \in T
    BY <2>1
  <2>2. CASE k + 1 \notin T
    <3>1. T \in SUBSET (1 .. k)
      BY <2>2
    <3> QED
      BY <1>2, <3>1
  <2> QED
    BY <2>1, <2>2
<1> HIDE DEF P
<1>3. Nat \subseteq P
  BY <1>1, <1>2, Induction
<1>4. \E x \in S : \A y \in S : x >= y
  BY <1>3 DEF P
<1> QED
  BY <1>4 DEF Max

Folded(list, g, s) == IF s = {} THEN <<>> ELSE Merged(g[s \ {Max(s)}], list[Max(s)])

IsFold(list, length, g) == g = [s \in SUBSET (1 .. length) |-> Folded(list, g, s)]

LEMMA FoldExists ==
    ASSUME NEW list, NEW length \in Nat
    PROVE  \E g : IsFold(list, length, g)
<1> DEFINE P == {n \in Nat : \E g : IsFold(list, n, g)}
<1>1. 0 \in P
  <2>1. IsFold(list, 0, [s \in SUBSET (1 .. 0) |-> <<>>])
    BY DEF IsFold, Folded
  <2> QED
    BY <2>1
<1>2. ASSUME NEW n \in Nat, n \in P PROVE n + 1 \in P
  <2>1. PICK f : IsFold(list, n, f)
    BY <1>2
  <2> DEFINE g == [s \in SUBSET (1 .. n + 1) |->
                     IF n + 1 \in s THEN Merged(f[s \ {n + 1}], list[n + 1]) ELSE f[s]]
  <2>2. \A s \in SUBSET (1 .. n) : f[s] = Folded(list, f, s)
    BY <2>1 DEF IsFold
  <2>3. \A s \in SUBSET (1 .. n) : g[s] = f[s]
    OBVIOUS
  <2>4. ASSUME NEW s \in SUBSET (1 .. n + 1) PROVE g[s] = Folded(list, g, s)
    <3>1. CASE n + 1 \in s
      <4>1. Max(s) = n + 1
        <5>1. n + 1 \in Nat /\ s # {}
          BY <3>1
        <5>2. Max(s) \in s /\ \A y \in s : y <= Max(s)
          BY <5>1, LargestExists
        <5>3. Max(s) \in 1 .. n + 1 /\ n + 1 <= Max(s)
          BY <3>1, <5>2
        <5> QED
          BY <5>3
      <4>2. s \ {n + 1} \in SUBSET (1 .. n) /\ s # {}
        BY <3>1
      <4>3. g[s] = Merged(f[s \ {n + 1}], list[n + 1])
        BY <3>1
      <4>4. g[s \ {n + 1}] = f[s \ {n + 1}]
        BY <2>3, <4>2
      <4> HIDE DEF g
      <4> QED
        BY <4>1, <4>2, <4>3, <4>4 DEF Folded
    <3>2. CASE s \in SUBSET (1 .. n) /\ s # {}
      <4>1. Max(s) \in s
        BY <3>2, LargestExists
      <4>2. s \ {Max(s)} \in SUBSET (1 .. n)
        BY <3>2
      <4>3. g[s] = f[s] /\ g[s \ {Max(s)}] = f[s \ {Max(s)}]
        BY <2>3, <3>2, <4>2
      <4>4. f[s] = Folded(list, f, s)
        BY <2>2, <3>2
      <4> HIDE DEF g
      <4> QED
        BY <4>3, <4>4 DEF Folded
    <3>3. CASE s = {}
      <4>1. g[s] = f[s] /\ f[s] = <<>>
        BY <2>2, <2>3, <3>3 DEF Folded
      <4> HIDE DEF g
      <4> QED
        BY <3>3, <4>1 DEF Folded
    <3>4. n + 1 \notin s => s \in SUBSET (1 .. n)
      OBVIOUS
    <3> QED
      BY <3>1, <3>2, <3>3, <3>4
  <2>5. g = [s \in SUBSET (1 .. n + 1) |-> g[s]]
    OBVIOUS
  <2>6. IsFold(list, n + 1, g)
    <3> HIDE DEF g
    <3> QED
      BY <2>4, <2>5 DEF IsFold
  <2> QED
    BY <2>6
<1> HIDE DEF P
<1>3. length \in P
  BY <1>1, <1>2, Induction
<1> QED
  BY <1>3 DEF P

(* One record is merged after the other. *)
IsMerging(list, run) ==
    /\ run[0] = <<>>
    /\ \A n \in 1 .. Len(list) : run[n] = Merged(run[n - 1], list[n])
    /\ FoldLeft(Merged, <<>>, list) = run[Len(list)]

LEMMA MergingExists ==
    ASSUME NEW A, NEW list \in Seq(A)
    PROVE  \E run : IsMerging(list, run)
<1> DEFINE g == CHOOSE h : IsFold(list, Len(list), h)
<1>1. Len(list) \in Nat /\ DOMAIN list = 1 .. Len(list)
  OBVIOUS
<1>2. IsFold(list, Len(list), g)
  BY <1>1, FoldExists
<1>3. FoldLeft(Merged, <<>>, list) = g[DOMAIN list]
  BY <1>1 DEF FoldLeft, MapThenFoldSet, IsFold, Folded
<1> HIDE DEF g
<1> DEFINE run == [n \in 0 .. Len(list) |-> g[1 .. n]]
<1>4. \A s \in SUBSET (1 .. Len(list)) : g[s] = Folded(list, g, s)
  BY <1>2 DEF IsFold
<1>5. run[0] = <<>>
  <2>1. run[0] = g[{}] /\ {} \in SUBSET (1 .. Len(list))
    BY <1>1
  <2> QED
    BY <1>4, <2>1 DEF Folded
<1>6. ASSUME NEW n \in 1 .. Len(list) PROVE run[n] = Merged(run[n - 1], list[n])
  <2>0. n \in Nat /\ n <= Len(list) /\ n \in 1 .. n
    BY <1>1
  <2>1. 1 .. n \in SUBSET (1 .. Len(list)) /\ 1 .. n # {} /\ n \in 1 .. n /\ n \in Nat
    <3>1. \A i \in 1 .. n : i \in 1 .. Len(list)
      BY <1>1, <2>0
    <3> QED
      BY <2>0, <3>1
  <2>2. Max(1 .. n) = n
    <3>1. Max(1 .. n) \in 1 .. n /\ n <= Max(1 .. n)
      BY <2>1, LargestExists
    <3> QED
      BY <2>1, <3>1
  <2>3. (1 .. n) \ {n} = 1 .. (n - 1)
    BY <2>1
  <2>4. g[1 .. n] = Merged(g[1 .. (n - 1)], list[n])
    BY <1>4, <2>1, <2>2, <2>3 DEF Folded
  <2>5. run[n] = g[1 .. n] /\ run[n - 1] = g[1 .. (n - 1)]
    BY <1>1
  <2> QED
    BY <2>4, <2>5
<1>7. run[Len(list)] = g[DOMAIN list]
  BY <1>1
<1> HIDE DEF run
<1>8. IsMerging(list, run)
  BY <1>3, <1>5, <1>6, <1>7 DEF IsMerging
<1> QED
  BY <1>8

(* FlattenSeq *)
JoinedTo(lists, g, i) == IF i = 1 THEN lists[i] ELSE g[i - 1] \o lists[i]

IsJoined(lists, length, g) == g = [i \in 1 .. length |-> JoinedTo(lists, g, i)]

LEMMA JoinedExists ==
    ASSUME NEW lists, NEW length \in Nat
    PROVE  \E g : IsJoined(lists, length, g)
<1> DEFINE P == {n \in Nat : \E g : IsJoined(lists, n, g)}
<1>1. 0 \in P
  <2>1. IsJoined(lists, 0, [i \in 1 .. 0 |-> <<>>])
    BY DEF IsJoined
  <2> QED
    BY <2>1
<1>2. ASSUME NEW n \in Nat, n \in P PROVE n + 1 \in P
  <2>1. PICK f : IsJoined(lists, n, f)
    BY <1>2
  <2> DEFINE last == IF n = 0 THEN lists[n + 1] ELSE f[n] \o lists[n + 1]
  <2> DEFINE g == [i \in 1 .. n + 1 |-> IF i = n + 1 THEN last ELSE f[i]]
  <2>2. \A i \in 1 .. n : f[i] = JoinedTo(lists, f, i)
    BY <2>1 DEF IsJoined
  <2>3. ASSUME NEW i \in 1 .. n + 1 PROVE g[i] = JoinedTo(lists, g, i)
    <3>1. CASE i = n + 1 /\ n # 0
      <4>1. g[n + 1] = last /\ last = f[n] \o lists[n + 1]
        BY <3>1
      <4>2. n \in 1 .. n + 1 /\ n # n + 1 /\ i - 1 = n /\ i # 1
        BY <3>1
      <4>3. g[n] = f[n]
        BY <4>2
      <4> HIDE DEF g
      <4> QED
        BY <3>1, <4>1, <4>2, <4>3 DEF JoinedTo
    <3>2. CASE i = 1
      <4>1. g[1] = lists[1]
        <5>1. n # 0 => f[1] = lists[1]
          BY <2>2 DEF JoinedTo
        <5> QED
          BY <5>1
      <4> HIDE DEF g
      <4> QED
        BY <3>2, <4>1 DEF JoinedTo
    <3>3. CASE i \in 2 .. n
      <4>1. g[i] = f[i] /\ g[i - 1] = f[i - 1] /\ f[i] = JoinedTo(lists, f, i)
        BY <2>2, <3>3
      <4>2. i # 1
        BY <3>3
      <4> HIDE DEF g
      <4> QED
        BY <4>1, <4>2 DEF JoinedTo
    <3>4. i = 1 \/ (i = n + 1 /\ n # 0) \/ i \in 2 .. n
      OBVIOUS
    <3> HIDE DEF g
    <3> QED
      BY <3>1, <3>2, <3>3, <3>4
  <2>4. g = [i \in 1 .. n + 1 |-> g[i]]
    OBVIOUS
  <2>5. IsJoined(lists, n + 1, g)
    <3> HIDE DEF g
    <3> QED
      BY <2>3, <2>4 DEF IsJoined
  <2> QED
    BY <2>5
<1> HIDE DEF P
<1>3. length \in P
  BY <1>1, <1>2, Induction
<1> QED
  BY <1>3 DEF P

(* One list is joined to the other. *)
IsJoining(lists, run) ==
    /\ run[0] = <<>>
    /\ \A n \in 1 .. Len(lists) : run[n] = run[n - 1] \o lists[n]
    /\ FlattenSeq(lists) = run[Len(lists)]

LEMMA JoiningExists ==
    ASSUME NEW A, NEW lists \in Seq(Seq(A))
    PROVE  \E run : IsJoining(lists, run)
<1> DEFINE g == CHOOSE h : IsJoined(lists, Len(lists), h)
<1>1. Len(lists) \in Nat /\ DOMAIN lists = 1 .. Len(lists)
  OBVIOUS
<1>2. IsJoined(lists, Len(lists), g)
  BY <1>1, JoinedExists
<1>3. Len(lists) # 0 => FlattenSeq(lists) = g[Len(lists)]
  BY <1>1 DEF FlattenSeq, IsJoined, JoinedTo
<1>4. Len(lists) = 0 => FlattenSeq(lists) = <<>>
  BY <1>1 DEF FlattenSeq
<1> HIDE DEF g
<1> DEFINE run == [n \in 0 .. Len(lists) |-> IF n = 0 THEN <<>> ELSE g[n]]
<1>5. \A i \in 1 .. Len(lists) : g[i] = JoinedTo(lists, g, i)
  BY <1>2 DEF IsJoined
<1>6. ASSUME NEW n \in 1 .. Len(lists) PROVE run[n] = run[n - 1] \o lists[n]
  <2>1. run[n] = g[n]
    BY <1>1
  <2>2. CASE n = 1
    <3>1. run[n - 1] = <<>> /\ g[n] = lists[n] /\ lists[n] \in Seq(A)
      BY <1>1, <1>5, <2>2 DEF JoinedTo
    <3>2. <<>> \o lists[n] = lists[n]
      BY <3>1
    <3> HIDE DEF run
    <3> QED
      BY <2>1, <3>1, <3>2
  <2>3. CASE n # 1
    <3>1. n - 1 \in 0 .. Len(lists) /\ n - 1 # 0
      BY <1>1, <2>3
    <3>2. run[n - 1] = g[n - 1]
      BY <3>1
    <3>3. g[n] = g[n - 1] \o lists[n]
      BY <1>5, <2>3 DEF JoinedTo
    <3> HIDE DEF run
    <3> QED
      BY <2>1, <3>2, <3>3
  <2> QED
    BY <2>2, <2>3
<1>7. run[0] = <<>> /\ FlattenSeq(lists) = run[Len(lists)]
  BY <1>1, <1>3, <1>4
<1> HIDE DEF run
<1>8. IsJoining(lists, run)
  BY <1>6, <1>7 DEF IsJoining
<1> QED
  BY <1>8

-----------------------------------------------------------------------------
(* What a list of records sums up to, and what it ends with, at some times. *)

MinuteRecords == [time : Int, close : Int, high : Int, low : Int, trades : Int, buy : Int,
                  sell : Int]

Prefix(list, n) == [i \in 1 .. n |-> list[i]]

LEMMA PrefixGrows ==
    ASSUME NEW A, NEW list \in Seq(A)
    PROVE  /\ Prefix(list, 0) = <<>>
           /\ Prefix(list, Len(list)) = list
           /\ \A n \in 0 .. Len(list) - 1 :
                 /\ Prefix(list, n) \in Seq(A) /\ list[n + 1] \in A
                 /\ Prefix(list, n + 1) = Append(Prefix(list, n), list[n + 1])
<1>1. Len(list) \in Nat /\ DOMAIN list = 1 .. Len(list) /\ list = [i \in 1 .. Len(list) |-> list[i]]
      /\ \A i \in 1 .. Len(list) : list[i] \in A
  OBVIOUS
<1>2. Prefix(list, 0) = <<>>
  BY DEF Prefix
<1>3. Prefix(list, Len(list)) = list
  BY <1>1 DEF Prefix
<1>4. ASSUME NEW n \in 0 .. Len(list) - 1
      PROVE  /\ Prefix(list, n) \in Seq(A) /\ list[n + 1] \in A
             /\ Prefix(list, n + 1) = Append(Prefix(list, n), list[n + 1])
  <2>1. n \in Nat /\ n + 1 \in 1 .. Len(list)
    BY <1>1
  <2>2. Prefix(list, n) \in Seq(A) /\ Len(Prefix(list, n)) = n
    <3>1. Prefix(list, n) \in [1 .. n -> A]
      BY <1>1, <2>1 DEF Prefix
    <3> QED
      BY <2>1, <3>1
  <2>3. Append(Prefix(list, n), list[n + 1]) = [i \in 1 .. n + 1 |-> IF i = n + 1 THEN list[n + 1] ELSE Prefix(list, n)[i]]
    BY <1>1, <2>1, <2>2
  <2>4. \A i \in 1 .. n + 1 : Prefix(list, n + 1)[i] = IF i = n + 1 THEN list[n + 1] ELSE Prefix(list, n)[i]
    BY <2>1 DEF Prefix
  <2>5. Prefix(list, n + 1) = [i \in 1 .. n + 1 |-> Prefix(list, n + 1)[i]]
    BY DEF Prefix
  <2> QED
    BY <1>1, <2>1, <2>2, <2>3, <2>4, <2>5
<1> QED
  BY <1>2, <1>3, <1>4

(* What buyers or sellers took of a record, or both. *)
Amount(record, kind) ==
    IF kind = "buy" THEN record.buy
    ELSE IF kind = "sell" THEN record.sell ELSE record.buy + record.sell

Amounts(list, kind) == [i \in DOMAIN list |-> Amount(list[i], kind)]

At(list, S) == {i \in DOMAIN list : list[i].time \in S}

Flow(list, S, kind) == SumFunctionOnSet(Amounts(list, kind), At(list, S))

(* The closing price of the last record of these times. *)
Closes(list, S, price) ==
    \E n \in DOMAIN list :
        /\ list[n].time \in S /\ list[n].close = price
        /\ \A m \in DOMAIN list : m > n => list[m].time \notin S

LEMMA AmountIsInt ==
    ASSUME NEW record \in MinuteRecords, NEW kind
    PROVE  Amount(record, kind) \in Int
BY DEF Amount, MinuteRecords

LEMMA FlowAppend ==
    ASSUME NEW list \in Seq(MinuteRecords), NEW record \in MinuteRecords, NEW S, NEW kind
    PROVE  /\ Flow(list, S, kind) \in Int
           /\ Flow(Append(list, record), S, kind)
                = IF record.time \in S THEN Flow(list, S, kind) + Amount(record, kind)
                  ELSE Flow(list, S, kind)
<1> DEFINE n == Len(list)
<1> DEFINE longer == Append(list, record)
<1> DEFINE f == Amounts(list, kind)
<1> DEFINE g == Amounts(longer, kind)
<1> DEFINE A == At(list, S)
<1>1. /\ n \in Nat /\ DOMAIN list = 1 .. n /\ DOMAIN longer = 1 .. n + 1
      /\ longer[n + 1] = record /\ \A i \in 1 .. n : longer[i] = list[i] /\ list[i] \in MinuteRecords
  OBVIOUS
<1> HIDE DEF longer, n
<1>2. /\ A \subseteq 1 .. n /\ IsFiniteSet(A)
  <2>1. IsFiniteSet(1 .. n)
    BY <1>1, FS_Interval
  <2>2. A \subseteq 1 .. n
    BY <1>1 DEF At
  <2> HIDE DEF A
  <2> QED
    BY <2>1, <2>2, FS_Subset
<1>3. \A i \in A : g[i] = f[i] /\ f[i] \in Int
  <2> TAKE i \in A
  <2>1. i \in 1 .. n /\ i \in 1 .. n + 1
    BY <1>1, <1>2
  <2>2. f[i] = Amount(list[i], kind) /\ g[i] = Amount(longer[i], kind)
    BY <1>1, <2>1 DEF Amounts
  <2> QED
    BY <1>1, <2>1, <2>2, AmountIsInt
<1>4. g[n + 1] = Amount(record, kind) /\ Amount(record, kind) \in Int
  BY <1>1, AmountIsInt DEF Amounts
<1>5. At(longer, S) = IF record.time \in S THEN A \cup {n + 1} ELSE A
  <2>1. 1 .. n + 1 = (1 .. n) \cup {n + 1}
    BY <1>1
  <2> QED
    BY <1>1, <2>1 DEF At
<1>6. n + 1 \notin A
  BY <1>1, <1>2
<1> HIDE DEF f, g, A
<1>7. SumFunctionOnSet(f, A) \in Int /\ SumFunctionOnSet(f, A) = SumFunctionOnSet(g, A)
  <2>1. SumFunctionOnSet(f, A) \in Int
    BY <1>2, <1>3, SumTyped
  <2>2. SumFunctionOnSet(f, A) = SumFunctionOnSet(g, A)
    BY <1>2, <1>3, SumReads
  <2> QED
    BY <2>1, <2>2
<1>8. SumFunctionOnSet(g, A \cup {n + 1}) = SumFunctionOnSet(g, A) + g[n + 1]
  <2> DEFINE x == n + 1
  <2>1. IsFiniteSet(A) /\ x \notin A /\ \A y \in A \cup {x} : g[y] \in Int
    BY <1>2, <1>3, <1>4, <1>6
  <2> HIDE DEF x
  <2>2. SumFunctionOnSet(g, A \cup {x}) = SumFunctionOnSet(g, A) + g[x]
    BY <2>1, SumAdds, Zenon
  <2> QED
    BY <2>2 DEF x
<1>9. Flow(list, S, kind) = SumFunctionOnSet(f, A) /\ Flow(longer, S, kind) = SumFunctionOnSet(g, At(longer, S))
  BY DEF Flow, f, g, A
<1> QED
  BY <1>4, <1>5, <1>7, <1>8, <1>9 DEF longer

LEMMA FlowOfNothing ==
    ASSUME NEW S, NEW kind
    PROVE  Flow(<<>>, S, kind) = 0
<1>1. At(<<>>, S) = {}
  BY DEF At
<1> QED
  BY <1>1, SumOfNothing DEF Flow

LEMMA FlowIsInt ==
    ASSUME NEW list \in Seq(MinuteRecords), NEW S, NEW kind
    PROVE  Flow(list, S, kind) \in Int
<1>1. CASE list = <<>>
  BY <1>1, FlowOfNothing
<1>2. CASE list # <<>>
  <2>1. list[1] \in MinuteRecords
    BY <1>2
  <2> QED
    BY <2>1, FlowAppend
<1> QED
  BY <1>1, <1>2

LEMMA ClosesAppend ==
    ASSUME NEW list \in Seq(MinuteRecords), NEW record \in MinuteRecords, NEW S, NEW price
    PROVE  Closes(Append(list, record), S, price) <=>
              IF record.time \in S THEN price = record.close ELSE Closes(list, S, price)
<1> DEFINE n == Len(list)
<1> DEFINE longer == Append(list, record)
<1>1. /\ n \in Nat /\ DOMAIN list = 1 .. n /\ DOMAIN longer = 1 .. n + 1
      /\ longer[n + 1] = record /\ \A i \in 1 .. n : longer[i] = list[i]
  OBVIOUS
<1> HIDE DEF longer, n
<1>2. CASE record.time \in S
  <2>1. ASSUME Closes(longer, S, price) PROVE price = record.close
    <3>1. PICK i \in 1 .. n + 1 : /\ longer[i].close = price
                                  /\ \A m \in 1 .. n + 1 : m > i => longer[m].time \notin S
      BY <1>1, <2>1 DEF Closes
    <3>2. ~(n + 1 > i)
      BY <1>1, <1>2, <3>1
    <3>3. i = n + 1
      BY <1>1, <3>2
    <3> QED
      BY <1>1, <3>1, <3>3
  <2>2. ASSUME price = record.close PROVE Closes(longer, S, price)
    <3>1. n + 1 \in DOMAIN longer /\ \A m \in DOMAIN longer : ~(m > n + 1)
      BY <1>1
    <3> QED
      BY <1>1, <1>2, <2>2, <3>1 DEF Closes
  <2> QED
    BY <1>2, <2>1, <2>2 DEF longer
<1>3. CASE record.time \notin S
  <2>1. ASSUME Closes(longer, S, price) PROVE Closes(list, S, price)
    <3>1. PICK i \in 1 .. n + 1 : /\ longer[i].time \in S /\ longer[i].close = price
                                  /\ \A m \in 1 .. n + 1 : m > i => longer[m].time \notin S
      BY <1>1, <2>1 DEF Closes
    <3>2. i \in 1 .. n /\ \A m \in 1 .. n : m \in 1 .. n + 1
      BY <1>1, <1>3, <3>1
    <3> QED
      BY <1>1, <3>1, <3>2 DEF Closes
  <2>2. ASSUME Closes(list, S, price) PROVE Closes(longer, S, price)
    <3>1. PICK i \in 1 .. n : /\ list[i].time \in S /\ list[i].close = price
                              /\ \A m \in 1 .. n : m > i => list[m].time \notin S
      BY <1>1, <2>2 DEF Closes
    <3>2. \A m \in 1 .. n + 1 : m > i => longer[m].time \notin S
      BY <1>1, <1>3, <3>1
    <3>3. i \in 1 .. n + 1
      BY <1>1
    <3> QED
      BY <1>1, <3>1, <3>2, <3>3 DEF Closes
  <2> QED
    BY <1>3, <2>1, <2>2 DEF longer
<1> QED
  BY <1>2, <1>3

(* A record is merged with the last one or appended. *)
Combined(open, bar, both) ==
    /\ open.time = bar.time /\ both.time = bar.time /\ both.close = bar.close
    /\ both.buy = bar.buy + open.buy /\ both.sell = bar.sell + open.sell

LEMMA MergedOrAppended ==
    ASSUME NEW bars \in Seq(MinuteRecords), NEW bar \in MinuteRecords
    PROVE  \/ /\ Merged(bars, bar) = Append(bars, bar)
              /\ bars # <<>> => bars[Len(bars)].time # bar.time
           \/ \E front \in Seq(MinuteRecords), open, both \in MinuteRecords :
                 /\ Combined(open, bar, both)
                 /\ bars = Append(front, open) /\ Merged(bars, bar) = Append(front, both)
<1>1. CASE bars # <<>> /\ bars[Len(bars)].time = bar.time
  <2> DEFINE n == Len(bars)
  <2> DEFINE open == bars[n]
  <2> DEFINE both == [bar EXCEPT !.buy = @ + open.buy, !.sell = @ + open.sell,
                                 !.trades = @ + open.trades,
                                 !.high = IF @ > open.high THEN @ ELSE open.high,
                                 !.low = IF @ < open.low THEN @ ELSE open.low]
  <2> DEFINE front == Prefix(bars, n - 1)
  <2>1. n \in Nat \ {0} /\ DOMAIN bars = 1 .. n /\ open \in MinuteRecords
    <3>1. Len(bars) \in Nat /\ Len(bars) # 0 /\ DOMAIN bars = 1 .. Len(bars)
      BY <1>1
    <3>2. \A i \in 1 .. Len(bars) : bars[i] \in MinuteRecords
      OBVIOUS
    <3>3. Len(bars) \in 1 .. Len(bars)
      BY <3>1
    <3> QED
      BY <3>1, <3>2, <3>3
  <2>2. front \in Seq(MinuteRecords) /\ bars = Append(front, open)
    <3>1. n - 1 \in 0 .. Len(bars) - 1 /\ (n - 1) + 1 = n
      BY <2>1
    <3>2. /\ Prefix(bars, n - 1) \in Seq(MinuteRecords)
          /\ Prefix(bars, (n - 1) + 1) = Append(Prefix(bars, n - 1), bars[(n - 1) + 1])
          /\ Prefix(bars, n) = bars
      BY <3>1, PrefixGrows, Zenon
    <3> QED
      BY <3>1, <3>2, Zenon
  <2>3. both \in MinuteRecords /\ Combined(open, bar, both)
    <3>1. open.time = bar.time /\ open \in MinuteRecords
      BY <1>1, <2>1
    <3> HIDE DEF open
    <3> DEFINE high == IF bar.high > open.high THEN bar.high ELSE open.high
    <3> DEFINE low == IF bar.low < open.low THEN bar.low ELSE open.low
    <3>2. /\ bar.buy + open.buy \in Int /\ bar.sell + open.sell \in Int
          /\ bar.trades + open.trades \in Int /\ high \in Int /\ low \in Int
      <4>1. \A record \in MinuteRecords :
               /\ record.buy \in Int /\ record.sell \in Int /\ record.trades \in Int
               /\ record.high \in Int /\ record.low \in Int
        BY DEF MinuteRecords
      <4> QED
        BY <3>1, <4>1
    <3>3. both = [bar EXCEPT !.buy = @ + open.buy, !.sell = @ + open.sell,
                             !.trades = @ + open.trades, !.high = high, !.low = low]
      OBVIOUS
    <3> HIDE DEF both, high, low
    <3>4. both = [time |-> bar.time, close |-> bar.close, high |-> high, low |-> low,
                  trades |-> bar.trades + open.trades, buy |-> bar.buy + open.buy,
                  sell |-> bar.sell + open.sell]
      BY <3>3 DEF MinuteRecords
    <3>5. both \in MinuteRecords
      BY <3>2, <3>4 DEF MinuteRecords
    <3> QED
      BY <3>1, <3>4, <3>5 DEF Combined
  <2>4. Merged(bars, bar) = [bars EXCEPT ![n] = both]
    BY <1>1 DEF Merged, Last
  <2> HIDE DEF both, open
  <2>5. Len(front) = n - 1
    <3>1. DOMAIN front = 1 .. n - 1 /\ n - 1 \in Nat
      BY <2>1 DEF Prefix
    <3> HIDE DEF front
    <3> QED
      BY <2>2, <3>1
  <2>6. \A i \in 1 .. n : [bars EXCEPT ![n] = both][i] = Append(front, both)[i]
    <3> TAKE i \in 1 .. n
    <3>1. CASE i = n
      BY <2>1, <2>2, <2>5, <3>1
    <3>2. CASE i # n
      <4>1. i \in 1 .. n - 1 /\ front[i] = bars[i]
        <5>1. i \in 1 .. n - 1
          <6> HIDE DEF n
          <6> QED
            BY <2>1, <3>2
        <5> QED
          BY <5>1 DEF Prefix
      <4> HIDE DEF front
      <4>2. Append(front, both)[i] = front[i]
        BY <2>1, <2>2, <2>5, <4>1
      <4> QED
        BY <2>1, <3>2, <4>1, <4>2
    <3> QED
      BY <3>1, <3>2
  <2> HIDE DEF front
  <2>7. /\ DOMAIN Append(front, both) = 1 .. n /\ DOMAIN [bars EXCEPT ![n] = both] = 1 .. n
        /\ Append(front, both) = [i \in 1 .. n |-> Append(front, both)[i]]
    <3>1. Append(front, both) \in Seq(MinuteRecords) /\ Len(Append(front, both)) = n
      BY <2>1, <2>2, <2>3, <2>5
    <3>2. DOMAIN [bars EXCEPT ![n] = both] = 1 .. n
      BY <2>1
    <3> DEFINE merged == Append(front, both)
    <3> HIDE DEF merged, n
    <3>3. merged \in Seq(MinuteRecords) /\ Len(merged) = n
      BY <3>1 DEF merged
    <3>4. DOMAIN merged = 1 .. n /\ merged = [i \in 1 .. n |-> merged[i]]
      BY <3>3
    <3> QED
      BY <3>2, <3>4 DEF merged
  <2>8. [bars EXCEPT ![n] = both] = Append(front, both)
    <3>1. [bars EXCEPT ![n] = both] = [i \in 1 .. n |-> [bars EXCEPT ![n] = both][i]]
      BY <2>1
    <3> HIDE DEF n
    <3> QED
      BY <2>6, <2>7, <3>1
  <2> QED
    BY <2>1, <2>2, <2>3, <2>4, <2>8
<1>2. CASE bars = <<>> \/ bars[Len(bars)].time # bar.time
  BY <1>2 DEF Merged, Last
<1> QED
  BY <1>1, <1>2

LEMMA CombinedAmount ==
    ASSUME NEW open \in MinuteRecords, NEW bar \in MinuteRecords, NEW both \in MinuteRecords,
           Combined(open, bar, both), NEW kind
    PROVE  Amount(both, kind) = Amount(open, kind) + Amount(bar, kind)
BY DEF Combined, Amount, MinuteRecords

(* Merging keeps flows and closing prices. *)
LEMMA MergedKeeps ==
    ASSUME NEW bars \in Seq(MinuteRecords), NEW bar \in MinuteRecords
    PROVE  /\ Merged(bars, bar) \in Seq(MinuteRecords)
           /\ \A S, kind : Flow(Merged(bars, bar), S, kind) = Flow(Append(bars, bar), S, kind)
           /\ \A S, price :
                 Closes(Append(bars, bar), S, price) => Closes(Merged(bars, bar), S, price)
<1>1. CASE Merged(bars, bar) = Append(bars, bar)
  BY <1>1
<1>2. ASSUME NEW front \in Seq(MinuteRecords),
             NEW open \in MinuteRecords, NEW both \in MinuteRecords,
             Combined(open, bar, both),
             bars = Append(front, open), Merged(bars, bar) = Append(front, both)
      PROVE  /\ Merged(bars, bar) \in Seq(MinuteRecords)
             /\ \A S, kind : Flow(Merged(bars, bar), S, kind) = Flow(Append(bars, bar), S, kind)
             /\ \A S, price :
                   Closes(Append(bars, bar), S, price) => Closes(Merged(bars, bar), S, price)
  <2>1. open.time = bar.time /\ both.time = bar.time /\ both.close = bar.close
    BY <1>2 DEF Combined
  <2>2. ASSUME NEW S, NEW kind
        PROVE  Flow(Merged(bars, bar), S, kind) = Flow(Append(bars, bar), S, kind)
    <3>1. /\ Flow(front, S, kind) \in Int
          /\ Flow(Append(front, both), S, kind)
               = IF bar.time \in S THEN Flow(front, S, kind) + Amount(both, kind)
                 ELSE Flow(front, S, kind)
      BY <2>1, FlowAppend
    <3>2. Flow(bars, S, kind) = IF bar.time \in S THEN Flow(front, S, kind) + Amount(open, kind)
                                ELSE Flow(front, S, kind)
      BY <1>2, <2>1, FlowAppend
    <3>3. Flow(Append(bars, bar), S, kind)
            = IF bar.time \in S THEN Flow(bars, S, kind) + Amount(bar, kind)
              ELSE Flow(bars, S, kind)
      BY FlowAppend
    <3>4. Amount(both, kind) = Amount(open, kind) + Amount(bar, kind)
          /\ Amount(open, kind) \in Int /\ Amount(bar, kind) \in Int
      BY <1>2, CombinedAmount, AmountIsInt
    <3> QED
      BY <1>2, <3>1, <3>2, <3>3, <3>4
  <2>3. ASSUME NEW S, NEW price, Closes(Append(bars, bar), S, price)
        PROVE  Closes(Merged(bars, bar), S, price)
    <3>1. CASE bar.time \in S
      <4>1. price = bar.close
        BY <2>3, <3>1, ClosesAppend
      <4> QED
        BY <1>2, <2>1, <3>1, <4>1, ClosesAppend
    <3>2. CASE bar.time \notin S
      <4>1. Closes(bars, S, price)
        BY <2>3, <3>2, ClosesAppend
      <4>2. Closes(front, S, price)
        BY <1>2, <2>1, <3>2, <4>1, ClosesAppend
      <4> QED
        BY <1>2, <2>1, <3>2, <4>2, ClosesAppend
    <3> QED
      BY <3>1, <3>2
  <2> QED
    BY <1>2, <2>2, <2>3
<1> QED
  BY <1>1, <1>2, MergedOrAppended

-----------------------------------------------------------------------------
(* Merging consecutive records of one time. *)

TimesOf(list) == {list[i].time : i \in DOMAIN list}

(* Times are at least so far apart. *)
Sorted(list, gap) ==
    \A i, j \in DOMAIN list : i < j => list[i].time + gap <= list[j].time

LEMMA TimesAppend ==
    ASSUME NEW A, NEW list \in Seq(A), NEW record
    PROVE  TimesOf(Append(list, record)) = TimesOf(list) \cup {record.time}
<1> DEFINE n == Len(list)
<1> DEFINE longer == Append(list, record)
<1>1. /\ n \in Nat /\ DOMAIN list = 1 .. n /\ DOMAIN longer = 1 .. n + 1
      /\ longer[n + 1] = record /\ \A i \in 1 .. n : longer[i] = list[i]
  OBVIOUS
<1>2. 1 .. n + 1 = (1 .. n) \cup {n + 1}
  BY <1>1
<1> HIDE DEF longer, n
<1> QED
  BY <1>1, <1>2 DEF TimesOf, longer

LEMMA SortedAppend ==
    ASSUME NEW A, \A a \in A : a.time \in Int, NEW list \in Seq(A), NEW record \in A,
           NEW gap \in Nat, Sorted(list, gap),
           list # <<>> => list[Len(list)].time + gap <= record.time
    PROVE  Sorted(Append(list, record), gap)
<1> DEFINE n == Len(list)
<1> DEFINE longer == Append(list, record)
<1>1. /\ n \in Nat /\ DOMAIN list = 1 .. n /\ DOMAIN longer = 1 .. n + 1
      /\ longer[n + 1] = record /\ \A i \in 1 .. n : longer[i] = list[i] /\ list[i] \in A
  OBVIOUS
<1>2. \A i \in 1 .. n : list[i].time \in Int
  BY <1>1
<1>3. \A i \in 1 .. n : list[i].time <= list[n].time
  <2> TAKE i \in 1 .. n
  <2>1. n \in 1 .. n /\ (i = n \/ i < n)
    <3>1. n \in Nat
      BY <1>1, Zenon
    <3> HIDE DEF n
    <3> QED
      BY <3>1
  <2>2. i < n => list[i].time + gap <= list[n].time
    BY <1>1, <2>1 DEF Sorted
  <2> QED
    BY <1>2, <2>1, <2>2
<1>4. n # 0 => list[n].time + gap <= record.time
  <2>1. n # 0 => list # <<>>
    BY <1>1
  <2> QED
    BY <2>1
<1> HIDE DEF longer, n
<1>5. ASSUME NEW i \in 1 .. n + 1, NEW j \in 1 .. n + 1, i < j
      PROVE  longer[i].time + gap <= longer[j].time
  <2>1. i \in 1 .. n
    BY <1>1, <1>5
  <2>2. CASE j = n + 1
    <3>1. n # 0 /\ n \in 1 .. n
      BY <1>1, <2>1
    <3>2. list[i].time \in Int /\ list[n].time \in Int /\ record.time \in Int
      BY <1>2, <2>1, <3>1
    <3>3. longer[j].time = record.time /\ longer[i].time = list[i].time
      BY <1>1, <2>1, <2>2
    <3>4. list[i].time <= list[n].time /\ list[n].time + gap <= record.time
      BY <1>3, <1>4, <2>1, <3>1
    <3>5. list[i].time + gap <= record.time
      <4> DEFINE x == list[i].time
      <4> DEFINE y == list[n].time
      <4> DEFINE z == record.time
      <4>1. x \in Int /\ y \in Int /\ z \in Int /\ x <= y /\ y + gap <= z
        BY <3>2, <3>4
      <4> HIDE DEF x, y, z
      <4>2. x + gap <= z
        BY <4>1
      <4> QED
        BY <4>2 DEF x, z
    <3> QED
      BY <3>3, <3>5
  <2>3. CASE j \in 1 .. n
    BY <1>1, <1>5, <2>1, <2>3 DEF Sorted
  <2> QED
    BY <1>1, <2>2, <2>3
<1> QED
  BY <1>1, <1>5 DEF Sorted, longer

(* The order is one of times alone. *)
LEMMA SortedAlike ==
    ASSUME NEW A, NEW list \in Seq(A), NEW one \in A, NEW other \in A, one.time = other.time,
           NEW gap, Sorted(Append(list, one), gap)
    PROVE  Sorted(Append(list, other), gap)
<1> DEFINE n == Len(list)
<1> DEFINE a == Append(list, one)
<1> DEFINE b == Append(list, other)
<1>1. /\ n \in Nat /\ DOMAIN a = 1 .. n + 1 /\ DOMAIN b = 1 .. n + 1
      /\ a[n + 1] = one /\ b[n + 1] = other /\ \A i \in 1 .. n : a[i] = b[i]
  OBVIOUS
<1> HIDE DEF a, b, n
<1>2. \A i \in 1 .. n + 1 : a[i].time = b[i].time
  <2> TAKE i \in 1 .. n + 1
  <2>1. i = n + 1 \/ i \in 1 .. n
    BY <1>1
  <2> QED
    BY <1>1, <2>1
<1> QED
  BY <1>1, <1>2 DEF Sorted, a, b

(* Grouping records of consecutive times keeps flows, closing prices and times. *)
LEMMA GroupsKeep ==
    ASSUME NEW records \in Seq(MinuteRecords)
    PROVE  LET groups == FoldLeft(Merged, <<>>, records)
           IN  /\ groups \in Seq(MinuteRecords)
               /\ \A S, kind : Flow(groups, S, kind) = Flow(records, S, kind)
               /\ \A S, price : Closes(records, S, price) => Closes(groups, S, price)
               /\ TimesOf(groups) = TimesOf(records)
<1>1. PICK run : IsMerging(records, run)
  BY MergingExists
<1>2. /\ run[0] = <<>> /\ FoldLeft(Merged, <<>>, records) = run[Len(records)]
      /\ \A n \in 1 .. Len(records) : run[n] = Merged(run[n - 1], records[n])
  BY <1>1 DEF IsMerging
<1> DEFINE Kept(groups, list) ==
             /\ groups \in Seq(MinuteRecords)
             /\ \A S, kind : Flow(groups, S, kind) = Flow(list, S, kind)
             /\ \A S, price : Closes(list, S, price) => Closes(groups, S, price)
             /\ TimesOf(groups) = TimesOf(list)
<1> DEFINE P == {n \in Nat : n <= Len(records) => Kept(run[n], Prefix(records, n))}
<1>3. 0 \in P
  <2>1. run[0] = Prefix(records, 0) /\ run[0] \in Seq(MinuteRecords)
    BY <1>2, PrefixGrows
  <2> QED
    BY <2>1
<1>4. ASSUME NEW n \in Nat, n \in P PROVE n + 1 \in P
  <2> SUFFICES ASSUME n + 1 <= Len(records) PROVE Kept(run[n + 1], Prefix(records, n + 1))
    OBVIOUS
  <2> DEFINE bars == run[n]
  <2> DEFINE before == Prefix(records, n)
  <2> DEFINE record == records[n + 1]
  <2>1. Len(records) \in Nat /\ n \in 0 .. Len(records) - 1
    OBVIOUS
  <2>2. /\ before \in Seq(MinuteRecords) /\ record \in MinuteRecords
        /\ Prefix(records, n + 1) = Append(before, record)
    BY <2>1, PrefixGrows
  <2>3. run[n + 1] = Merged(bars, record)
    <3>1. n + 1 \in 1 .. Len(records) /\ (n + 1) - 1 = n
      BY <2>1
    <3> QED
      BY <1>2, <3>1
  <2>4. Kept(bars, before)
    BY <1>4, <2>1
  <2> HIDE DEF before, bars, record
  <2>5. /\ Merged(bars, record) \in Seq(MinuteRecords)
        /\ \A S, kind : Flow(Merged(bars, record), S, kind) = Flow(Append(bars, record), S, kind)
        /\ \A S, price :
              Closes(Append(bars, record), S, price) => Closes(Merged(bars, record), S, price)
    BY <2>2, <2>4, MergedKeeps
  <2>6. ASSUME NEW S, NEW kind
        PROVE  Flow(Append(bars, record), S, kind) = Flow(Append(before, record), S, kind)
    <3>1. Flow(Append(bars, record), S, kind)
            = IF record.time \in S THEN Flow(bars, S, kind) + Amount(record, kind)
              ELSE Flow(bars, S, kind)
      BY <2>2, <2>4, FlowAppend
    <3>2. Flow(Append(before, record), S, kind)
            = IF record.time \in S THEN Flow(before, S, kind) + Amount(record, kind)
              ELSE Flow(before, S, kind)
      BY <2>2, FlowAppend
    <3>3. Flow(bars, S, kind) = Flow(before, S, kind)
      BY <2>4
    <3> QED
      BY <3>1, <3>2, <3>3
  <2>7. ASSUME NEW S, NEW price, Closes(Append(before, record), S, price)
        PROVE  Closes(Append(bars, record), S, price)
    <3>1. IF record.time \in S THEN price = record.close ELSE Closes(before, S, price)
      BY <2>2, <2>7, ClosesAppend
    <3>2. Closes(before, S, price) => Closes(bars, S, price)
      BY <2>4
    <3> QED
      BY <2>2, <2>4, <3>1, <3>2, ClosesAppend
  <2>8. TimesOf(Merged(bars, record)) = TimesOf(Append(before, record))
    <3>1. /\ TimesOf(Append(before, record)) = TimesOf(before) \cup {record.time}
          /\ TimesOf(Append(bars, record)) = TimesOf(bars) \cup {record.time}
      BY <2>2, <2>4, TimesAppend
    <3>2. TimesOf(bars) = TimesOf(before)
      BY <2>4
    <3>3. CASE Merged(bars, record) = Append(bars, record)
      BY <3>1, <3>2, <3>3
    <3>4. CASE Merged(bars, record) # Append(bars, record)
      <4>0. PICK front \in Seq(MinuteRecords), open \in MinuteRecords, both \in MinuteRecords :
               /\ Combined(open, record, both)
               /\ bars = Append(front, open) /\ Merged(bars, record) = Append(front, both)
        <5>1. bars \in Seq(MinuteRecords) /\ record \in MinuteRecords
          BY <2>2, <2>4
        <5> QED
          BY <3>4, <5>1, MergedOrAppended, Zenon
      <4>1. /\ TimesOf(Append(front, open)) = TimesOf(front) \cup {open.time}
            /\ TimesOf(Append(front, both)) = TimesOf(front) \cup {both.time}
        BY TimesAppend
      <4>2. open.time = record.time /\ both.time = record.time
        BY <4>0 DEF Combined
      <4> QED
        BY <3>1, <3>2, <4>0, <4>1, <4>2
    <3> QED
      BY <3>3, <3>4
  <2>9. Kept(Merged(bars, record), Append(before, record))
    BY <2>5, <2>6, <2>7, <2>8
  <2> HIDE DEF Kept
  <2> QED
    BY <2>2, <2>3, <2>9
<1> HIDE DEF P
<1>5. Len(records) \in P
  BY <1>3, <1>4, Induction
<1>6. Kept(run[Len(records)], Prefix(records, Len(records)))
  BY <1>5 DEF P
<1>7. Prefix(records, Len(records)) = records
  BY PrefixGrows
<1> QED
  BY <1>2, <1>6, <1>7

(* Groups of records in the order of time have times of their own. *)
LEMMA GroupsSorted ==
    ASSUME NEW records \in Seq(MinuteRecords), Sorted(records, 0)
    PROVE  Sorted(FoldLeft(Merged, <<>>, records), 1)
<1>1. PICK run : IsMerging(records, run)
  BY MergingExists
<1>2. /\ run[0] = <<>> /\ FoldLeft(Merged, <<>>, records) = run[Len(records)]
      /\ \A n \in 1 .. Len(records) : run[n] = Merged(run[n - 1], records[n])
  BY <1>1 DEF IsMerging
<1> DEFINE Good(n) == /\ run[n] \in Seq(MinuteRecords) /\ Sorted(run[n], 1)
                      /\ n = 0 => run[n] = <<>>
                      /\ n # 0 => run[n] # <<>> /\ run[n][Len(run[n])].time = records[n].time
<1> DEFINE P == {n \in Nat : n <= Len(records) => Good(n)}
<1>3. 0 \in P
  <2>1. <<>> \in Seq(MinuteRecords) /\ Sorted(<<>>, 1)
    BY DEF Sorted
  <2> QED
    BY <1>2, <2>1
<1>4. ASSUME NEW n \in Nat, n \in P PROVE n + 1 \in P
  <2> SUFFICES ASSUME n + 1 <= Len(records) PROVE Good(n + 1)
    OBVIOUS
  <2> DEFINE bars == run[n]
  <2> DEFINE record == records[n + 1]
  <2>1. /\ Len(records) \in Nat /\ n + 1 \in 1 .. Len(records) /\ (n + 1) - 1 = n
        /\ record \in MinuteRecords
    OBVIOUS
  <2>2. run[n + 1] = Merged(bars, record)
    BY <1>2, <2>1
  <2>3. Good(n)
    BY <1>4, <2>1
  <2>4. bars # <<>> => /\ bars[Len(bars)] \in MinuteRecords
                       /\ bars[Len(bars)].time <= record.time
    <3> SUFFICES ASSUME bars # <<>> PROVE /\ bars[Len(bars)] \in MinuteRecords
                                          /\ bars[Len(bars)].time <= record.time
      OBVIOUS
    <3>1. n # 0
      BY <2>3
    <3>2. n \in DOMAIN records /\ n + 1 \in DOMAIN records /\ n < n + 1
      BY <2>1, <3>1
    <3>3. records[n].time + 0 <= record.time /\ records[n] \in MinuteRecords
      BY <3>2 DEF Sorted
    <3>4. bars[Len(bars)].time = records[n].time
      BY <2>3, <3>1
    <3>5. bars[Len(bars)] \in MinuteRecords
      BY <2>3
    <3>6. records[n].time \in Int
      BY <3>3 DEF MinuteRecords
    <3>7. records[n].time <= record.time
      BY <3>3, <3>6
    <3> HIDE DEF bars, record
    <3> QED
      BY <3>4, <3>5, <3>7
  <2>5. bars \in Seq(MinuteRecords) /\ Sorted(bars, 1)
    BY <2>3
  <2> DEFINE merged == Merged(bars, record)
  <2> SUFFICES /\ merged \in Seq(MinuteRecords) /\ Sorted(merged, 1)
               /\ merged # <<>> /\ merged[Len(merged)].time = record.time
    BY <2>2
  <2> HIDE DEF bars, record
  <2>6. CASE /\ Merged(bars, record) = Append(bars, record)
             /\ bars # <<>> => bars[Len(bars)].time # record.time
    <3>1. bars # <<>> => bars[Len(bars)].time + 1 <= record.time
      <4>1. \A a, b \in MinuteRecords : a.time <= b.time /\ a.time # b.time => a.time + 1 <= b.time
        <5> TAKE a, b \in MinuteRecords
        <5>1. a.time \in Int /\ b.time \in Int
          BY DEF MinuteRecords
        <5> QED
          BY <5>1
      <4> QED
        BY <2>1, <2>4, <2>6, <4>1
    <3>2. \A a \in MinuteRecords : a.time \in Int
      BY DEF MinuteRecords
    <3>3. Sorted(Append(bars, record), 1)
      BY <2>1, <2>5, <3>1, <3>2, SortedAppend
    <3> QED
      BY <2>1, <2>5, <2>6, <3>3
  <2>7. CASE ~(/\ Merged(bars, record) = Append(bars, record)
               /\ bars # <<>> => bars[Len(bars)].time # record.time)
    <3>0. PICK front \in Seq(MinuteRecords), open \in MinuteRecords, both \in MinuteRecords :
             /\ Combined(open, record, both)
             /\ bars = Append(front, open) /\ Merged(bars, record) = Append(front, both)
      BY <2>1, <2>5, <2>7, MergedOrAppended, Zenon
    <3>1. open.time = record.time /\ both.time = record.time
      BY <3>0 DEF Combined
    <3>2. Sorted(Append(front, both), 1)
      BY <2>5, <3>0, <3>1, SortedAlike
    <3> QED
      BY <3>0, <3>1, <3>2
  <2> QED
    BY <2>6, <2>7
<1> HIDE DEF P
<1>5. Len(records) \in P
  BY <1>3, <1>4, Induction
<1> QED
  BY <1>2, <1>5 DEF P

-----------------------------------------------------------------------------
(* Lists that are joined. *)

LEMMA ElementOfBoth ==
    ASSUME NEW A, NEW s \in Seq(A), NEW t \in Seq(A)
    PROVE  /\ s \o t \in Seq(A)
           /\ Len(s) \in Nat /\ Len(t) \in Nat /\ DOMAIN s = 1 .. Len(s) /\ DOMAIN t = 1 .. Len(t)
           /\ DOMAIN (s \o t) = 1 .. Len(s) + Len(t)
           /\ \A i \in 1 .. Len(s) : (s \o t)[i] = s[i]
           /\ \A i \in 1 .. Len(t) : (s \o t)[Len(s) + i] = t[i]
OBVIOUS

LEMMA PlaceInBoth ==
    ASSUME NEW m \in Nat, NEW n \in Nat, NEW i \in 1 .. m + n
    PROVE  \/ i \in 1 .. m
           \/ i > m /\ i - m \in 1 .. n /\ i = m + (i - m)
OBVIOUS

LEMMA SetOfBoth ==
    ASSUME NEW A, NEW s \in Seq(A), NEW t \in Seq(A)
    PROVE  ToSet(s \o t) = ToSet(s) \cup ToSet(t)
<1> DEFINE both == s \o t
<1> DEFINE m == Len(s)
<1> DEFINE n == Len(t)
<1>1. /\ m \in Nat /\ n \in Nat /\ DOMAIN s = 1 .. m /\ DOMAIN t = 1 .. n
      /\ DOMAIN both = 1 .. m + n
      /\ \A i \in 1 .. m : both[i] = s[i]
      /\ \A i \in 1 .. n : both[m + i] = t[i]
  BY ElementOfBoth
<1> HIDE DEF both, m, n
<1>2. ASSUME NEW i \in DOMAIN both PROVE both[i] \in ToSet(s) \cup ToSet(t)
  <2>1. CASE i \in 1 .. m
    BY <1>1, <2>1 DEF ToSet
  <2>2. CASE i - m \in 1 .. n /\ i = m + (i - m)
    <3>1. both[i] = t[i - m]
      BY <1>1, <2>2
    <3> QED
      BY <1>1, <2>2, <3>1 DEF ToSet
  <2> QED
    BY <1>1, <2>1, <2>2, PlaceInBoth
<1>3. ASSUME NEW i \in DOMAIN s PROVE s[i] \in ToSet(both)
  <2>1. i \in 1 .. m + n /\ both[i] = s[i]
    BY <1>1
  <2> QED
    BY <1>1, <2>1 DEF ToSet
<1>4. ASSUME NEW i \in DOMAIN t PROVE t[i] \in ToSet(both)
  <2>1. m + i \in 1 .. m + n /\ both[m + i] = t[i]
    BY <1>1
  <2> QED
    BY <1>1, <2>1 DEF ToSet
<1> QED
  BY <1>2, <1>3, <1>4 DEF ToSet, both

LEMMA SortedBoth ==
    ASSUME NEW A, NEW s \in Seq(A), NEW t \in Seq(A), NEW gap,
           Sorted(s, gap), Sorted(t, gap),
           \A a \in ToSet(s), b \in ToSet(t) : a.time + gap <= b.time
    PROVE  Sorted(s \o t, gap)
<1> DEFINE both == s \o t
<1> DEFINE m == Len(s)
<1> DEFINE n == Len(t)
<1>1. /\ m \in Nat /\ n \in Nat /\ DOMAIN s = 1 .. m /\ DOMAIN t = 1 .. n
      /\ DOMAIN both = 1 .. m + n
      /\ \A i \in 1 .. m : both[i] = s[i]
      /\ \A i \in 1 .. n : both[m + i] = t[i]
  BY ElementOfBoth
<1> HIDE DEF both, m, n
<1>2. ASSUME NEW i \in 1 .. m + n, NEW j \in 1 .. m + n, i < j
      PROVE  both[i].time + gap <= both[j].time
  <2>1. CASE i \in 1 .. m /\ j \in 1 .. m
    BY <1>1, <1>2, <2>1 DEF Sorted
  <2>2. CASE i > m /\ i - m \in 1 .. n /\ i = m + (i - m)
    <3>1. j - m \in 1 .. n /\ j = m + (j - m) /\ i - m < j - m
      BY <1>1, <1>2, <2>2
    <3>2. both[i] = t[i - m] /\ both[j] = t[j - m]
      BY <1>1, <2>2, <3>1
    <3>3. t[i - m].time + gap <= t[j - m].time
      BY <1>1, <2>2, <3>1 DEF Sorted
    <3> QED
      BY <3>2, <3>3
  <2>3. CASE i \in 1 .. m /\ j - m \in 1 .. n /\ j = m + (j - m)
    <3>1. both[i] = s[i] /\ both[j] = t[j - m]
      BY <1>1, <2>3
    <3>2. s[i] \in ToSet(s) /\ t[j - m] \in ToSet(t)
      BY <1>1, <2>3 DEF ToSet
    <3> QED
      BY <3>1, <3>2
  <2> QED
    BY <1>1, <2>1, <2>2, <2>3, PlaceInBoth
<1> QED
  BY <1>1, <1>2 DEF Sorted, both

LEMMA FlowOfBoth ==
    ASSUME NEW s \in Seq(MinuteRecords), NEW t \in Seq(MinuteRecords), NEW S, NEW kind
    PROVE  Flow(s \o t, S, kind) = Flow(s, S, kind) + Flow(t, S, kind)
<1> DEFINE P == {n \in Nat : n <= Len(t) =>
                   Flow(s \o Prefix(t, n), S, kind) = Flow(s, S, kind) + Flow(Prefix(t, n), S, kind)}
<1>1. Len(t) \in Nat /\ Flow(s, S, kind) \in Int
  BY FlowIsInt
<1>2. 0 \in P
  <2>1. s \o <<>> = s
    OBVIOUS
  <2>2. Prefix(t, 0) = <<>>
    BY PrefixGrows
  <2>3. Flow(s \o Prefix(t, 0), S, kind) = Flow(s, S, kind)
    BY <2>1, <2>2
  <2>4. Flow(Prefix(t, 0), S, kind) = 0
    BY <2>2, FlowOfNothing
  <2>5. Flow(s, S, kind) = Flow(s, S, kind) + 0
    BY <1>1
  <2> QED
    BY <2>3, <2>4, <2>5
<1>3. ASSUME NEW n \in Nat, n \in P PROVE n + 1 \in P
  <2> SUFFICES ASSUME n + 1 <= Len(t)
               PROVE  Flow(s \o Prefix(t, n + 1), S, kind)
                        = Flow(s, S, kind) + Flow(Prefix(t, n + 1), S, kind)
    OBVIOUS
  <2> DEFINE before == Prefix(t, n)
  <2> DEFINE record == t[n + 1]
  <2>1. n \in 0 .. Len(t) - 1
    BY <1>1
  <2>2. /\ before \in Seq(MinuteRecords) /\ record \in MinuteRecords
        /\ Prefix(t, n + 1) = Append(before, record)
    BY <2>1, PrefixGrows
  <2>3. Flow(s \o before, S, kind) = Flow(s, S, kind) + Flow(before, S, kind)
    BY <1>1, <1>3, <2>1
  <2> HIDE DEF before, record
  <2> DEFINE both == s \o before
  <2> DEFINE one == Flow(s, S, kind)
  <2> DEFINE other == Flow(before, S, kind)
  <2> DEFINE more == Amount(record, kind)
  <2>4. s \o Append(before, record) = Append(both, record) /\ both \in Seq(MinuteRecords)
    BY <2>2
  <2>5. one \in Int /\ other \in Int /\ more \in Int
    BY <1>1, <2>2, FlowIsInt, AmountIsInt
  <2>6. Flow(both, S, kind) = one + other
    BY <2>3
  <2> HIDE DEF both
  <2>7. Flow(Append(both, record), S, kind)
          = IF record.time \in S THEN Flow(both, S, kind) + more ELSE Flow(both, S, kind)
    BY <2>2, <2>4, FlowAppend
  <2>8. Flow(Append(before, record), S, kind)
          = IF record.time \in S THEN other + more ELSE other
    BY <2>2, FlowAppend
  <2> HIDE DEF one, other, more
  <2>9. Flow(Append(both, record), S, kind) = one + Flow(Append(before, record), S, kind)
    BY <2>5, <2>6, <2>7, <2>8
  <2> QED
    BY <2>2, <2>4, <2>9 DEF one
<1> HIDE DEF P
<1>4. Len(t) \in P
  BY <1>1, <1>2, <1>3, Induction
<1>5. Prefix(t, Len(t)) = t
  BY PrefixGrows
<1> QED
  BY <1>1, <1>4, <1>5 DEF P

LEMMA ClosesBoth ==
    ASSUME NEW A, NEW s \in Seq(A), NEW t \in Seq(A), NEW S, NEW price
    PROVE  /\ Closes(t, S, price) => Closes(s \o t, S, price)
           /\ Closes(s, S, price) /\ (\A b \in ToSet(t) : b.time \notin S) => Closes(s \o t, S, price)
<1> DEFINE both == s \o t
<1> DEFINE m == Len(s)
<1> DEFINE n == Len(t)
<1>1. /\ m \in Nat /\ n \in Nat /\ DOMAIN s = 1 .. m /\ DOMAIN t = 1 .. n
      /\ DOMAIN both = 1 .. m + n
      /\ \A i \in 1 .. m : both[i] = s[i]
      /\ \A i \in 1 .. n : both[m + i] = t[i]
  BY ElementOfBoth
<1> HIDE DEF both, m, n
<1>2. ASSUME Closes(t, S, price) PROVE Closes(both, S, price)
  <2>1. PICK i \in 1 .. n : /\ t[i].time \in S /\ t[i].close = price
                            /\ \A k \in 1 .. n : k > i => t[k].time \notin S
    BY <1>1, <1>2 DEF Closes
  <2>2. m + i \in 1 .. m + n /\ both[m + i] = t[i]
    BY <1>1
  <2>3. ASSUME NEW j \in 1 .. m + n, j > m + i PROVE both[j].time \notin S
    <3>1. j - m \in 1 .. n /\ j - m > i /\ m + (j - m) = j
      BY <1>1, <2>3
    <3>2. both[j] = t[j - m]
      BY <1>1, <3>1
    <3> QED
      BY <2>1, <3>1, <3>2
  <2> QED
    BY <1>1, <2>1, <2>2, <2>3 DEF Closes
<1>3. ASSUME Closes(s, S, price), \A b \in ToSet(t) : b.time \notin S PROVE Closes(both, S, price)
  <2>1. PICK i \in 1 .. m : /\ s[i].time \in S /\ s[i].close = price
                            /\ \A k \in 1 .. m : k > i => s[k].time \notin S
    BY <1>1, <1>3 DEF Closes
  <2>2. i \in 1 .. m + n /\ both[i] = s[i]
    BY <1>1
  <2>3. ASSUME NEW j \in 1 .. m + n, j > i PROVE both[j].time \notin S
    <3>1. CASE j \in 1 .. m
      BY <1>1, <2>1, <2>3, <3>1
    <3>2. CASE j - m \in 1 .. n /\ j = m + (j - m)
      <4>1. both[j] = t[j - m] /\ t[j - m] \in ToSet(t)
        BY <1>1, <3>2 DEF ToSet
      <4> QED
        BY <1>3, <4>1
    <3> QED
      BY <1>1, <3>1, <3>2, PlaceInBoth
  <2> QED
    BY <1>1, <2>1, <2>2, <2>3 DEF Closes
<1> QED
  BY <1>2, <1>3 DEF both

UpToList(lists, n) == UNION {ToSet(lists[i]) : i \in 1 .. n}

(* What is joined so far. *)
LEMMA JoiningSet ==
    ASSUME NEW A, NEW lists \in Seq(Seq(A)), NEW run, IsJoining(lists, run)
    PROVE  \A n \in 0 .. Len(lists) : run[n] \in Seq(A) /\ ToSet(run[n]) = UpToList(lists, n)
<1> DEFINE P == {n \in Nat : n <= Len(lists) => run[n] \in Seq(A) /\ ToSet(run[n]) = UpToList(lists, n)}
<1>1. 0 \in P
  <2>1. run[0] = <<>> /\ <<>> \in Seq(A)
    BY DEF IsJoining
  <2>2. ToSet(<<>>) = {} /\ UpToList(lists, 0) = {}
    BY DEF ToSet, UpToList
  <2> QED
    BY <2>1, <2>2
<1>2. ASSUME NEW n \in Nat, n \in P PROVE n + 1 \in P
  <2> SUFFICES ASSUME n + 1 <= Len(lists)
               PROVE  run[n + 1] \in Seq(A) /\ ToSet(run[n + 1]) = UpToList(lists, n + 1)
    OBVIOUS
  <2>1. n + 1 \in 1 .. Len(lists) /\ (n + 1) - 1 = n /\ lists[n + 1] \in Seq(A)
    OBVIOUS
  <2>2. run[n + 1] = run[n] \o lists[n + 1]
    BY <2>1 DEF IsJoining
  <2>3. run[n] \in Seq(A) /\ ToSet(run[n]) = UpToList(lists, n)
    BY <1>2
  <2>4. ToSet(run[n] \o lists[n + 1]) = ToSet(run[n]) \cup ToSet(lists[n + 1])
    BY <2>1, <2>3, SetOfBoth
  <2>5. 1 .. n + 1 = (1 .. n) \cup {n + 1}
    OBVIOUS
  <2>6. UpToList(lists, n + 1) = UpToList(lists, n) \cup ToSet(lists[n + 1])
    BY <2>5 DEF UpToList
  <2>7. run[n] \o lists[n + 1] \in Seq(A)
    BY <2>1, <2>3
  <2> QED
    BY <2>2, <2>3, <2>4, <2>6, <2>7
<1> HIDE DEF P
<1>3. Nat \subseteq P
  BY <1>1, <1>2, Induction
<1> QED
  BY <1>3 DEF P

LEMMA JoinedSet ==
    ASSUME NEW A, NEW lists \in Seq(Seq(A))
    PROVE  /\ FlattenSeq(lists) \in Seq(A)
           /\ ToSet(FlattenSeq(lists)) = UNION {ToSet(lists[i]) : i \in DOMAIN lists}
<1>1. PICK run : IsJoining(lists, run)
  BY JoiningExists
<1>2. Len(lists) \in 0 .. Len(lists) /\ DOMAIN lists = 1 .. Len(lists)
  OBVIOUS
<1>3. FlattenSeq(lists) = run[Len(lists)]
  BY <1>1 DEF IsJoining
<1>4. run[Len(lists)] \in Seq(A) /\ ToSet(run[Len(lists)]) = UpToList(lists, Len(lists))
  BY <1>1, <1>2, JoiningSet
<1> QED
  BY <1>2, <1>3, <1>4 DEF UpToList

ListsSorted(lists, gap) ==
    /\ \A i \in DOMAIN lists : Sorted(lists[i], gap)
    /\ \A i, j \in DOMAIN lists : i < j =>
          \A a \in ToSet(lists[i]), b \in ToSet(lists[j]) : a.time + gap <= b.time

LEMMA JoinedSorted ==
    ASSUME NEW A, NEW lists \in Seq(Seq(A)), NEW gap, ListsSorted(lists, gap)
    PROVE  Sorted(FlattenSeq(lists), gap)
<1>1. PICK run : IsJoining(lists, run)
  BY JoiningExists
<1>2. \A n \in 0 .. Len(lists) : run[n] \in Seq(A) /\ ToSet(run[n]) = UpToList(lists, n)
  BY <1>1, JoiningSet
<1>3. Len(lists) \in Nat /\ DOMAIN lists = 1 .. Len(lists)
  OBVIOUS
<1> DEFINE P == {n \in Nat : n <= Len(lists) => Sorted(run[n], gap)}
<1>4. 0 \in P
  BY <1>1 DEF IsJoining, Sorted
<1>5. ASSUME NEW n \in Nat, n \in P PROVE n + 1 \in P
  <2> SUFFICES ASSUME n + 1 <= Len(lists) PROVE Sorted(run[n + 1], gap)
    OBVIOUS
  <2>1. /\ n + 1 \in 1 .. Len(lists) /\ (n + 1) - 1 = n /\ lists[n + 1] \in Seq(A)
        /\ n \in 0 .. Len(lists)
    BY <1>3
  <2>2. run[n + 1] = run[n] \o lists[n + 1]
    BY <1>1, <2>1 DEF IsJoining
  <2>3. ASSUME NEW a \in ToSet(run[n]), NEW b \in ToSet(lists[n + 1]) PROVE a.time + gap <= b.time
    <3>1. a \in UpToList(lists, n)
      BY <1>2, <2>1
    <3>2. PICK i \in 1 .. n : a \in ToSet(lists[i])
      BY <3>1 DEF UpToList
    <3>3. i \in DOMAIN lists /\ n + 1 \in DOMAIN lists /\ i < n + 1
      BY <1>3, <2>1
    <3> QED
      BY <3>2, <3>3 DEF ListsSorted
  <2>4. Sorted(run[n], gap) /\ Sorted(lists[n + 1], gap)
    BY <1>3, <1>5, <2>1 DEF ListsSorted
  <2>5. run[n] \in Seq(A)
    BY <1>2, <2>1
  <2> QED
    BY <2>1, <2>2, <2>3, <2>4, <2>5, SortedBoth
<1> HIDE DEF P
<1>6. Nat \subseteq P
  BY <1>4, <1>5, Induction
<1> QED
  BY <1>1, <1>3, <1>6 DEF P, IsJoining

(* Only one of the lists has records of these times. *)
OnlyIn(lists, k, S) ==
    \A i \in DOMAIN lists : i # k => \A a \in ToSet(lists[i]) : a.time \notin S

LEMMA FlowOfNone ==
    ASSUME NEW list, NEW S, NEW kind, \A a \in ToSet(list) : a.time \notin S
    PROVE  Flow(list, S, kind) = 0
<1>1. At(list, S) = {}
  BY DEF At, ToSet
<1> QED
  BY <1>1, SumOfNothing DEF Flow

LEMMA JoinedOnly ==
    ASSUME NEW lists \in Seq(Seq(MinuteRecords)), NEW k \in DOMAIN lists, NEW S, OnlyIn(lists, k, S)
    PROVE  /\ \A kind : Flow(FlattenSeq(lists), S, kind) = Flow(lists[k], S, kind)
           /\ \A price : Closes(lists[k], S, price) => Closes(FlattenSeq(lists), S, price)
<1>1. PICK run : IsJoining(lists, run)
  BY JoiningExists
<1>2. \A n \in 0 .. Len(lists) : run[n] \in Seq(MinuteRecords) /\ ToSet(run[n]) = UpToList(lists, n)
  BY <1>1, JoiningSet
<1>3. Len(lists) \in Nat /\ DOMAIN lists = 1 .. Len(lists) /\ lists[k] \in Seq(MinuteRecords)
  OBVIOUS
<1> DEFINE Done(n) == /\ \A kind : Flow(run[n], S, kind) = Flow(lists[k], S, kind)
                      /\ \A price : Closes(lists[k], S, price) => Closes(run[n], S, price)
<1> DEFINE P == {n \in Nat : n <= Len(lists) /\ n >= k => Done(n)}
<1>4. 0 \in P
  BY <1>3
<1>5. ASSUME NEW n \in Nat, n \in P PROVE n + 1 \in P
  <2> SUFFICES ASSUME n + 1 <= Len(lists), n + 1 >= k PROVE Done(n + 1)
    OBVIOUS
  <2> DEFINE list == lists[n + 1]
  <2> DEFINE before == run[n]
  <2>1. /\ n + 1 \in 1 .. Len(lists) /\ (n + 1) - 1 = n /\ list \in Seq(MinuteRecords)
        /\ n \in 0 .. Len(lists)
    BY <1>3
  <2>2. run[n + 1] = before \o list
    BY <1>1, <2>1 DEF IsJoining
  <2>3. before \in Seq(MinuteRecords) /\ ToSet(before) = UpToList(lists, n)
    BY <1>2, <2>1
  <2>4. CASE n + 1 = k
    <3>1. \A a \in ToSet(before) : a.time \notin S
      <4> TAKE a \in ToSet(before)
      <4>1. PICK i \in 1 .. n : a \in ToSet(lists[i])
        BY <2>3 DEF UpToList
      <4>2. i \in DOMAIN lists /\ i # k
        BY <1>3, <2>1, <2>4
      <4> QED
        BY <4>1, <4>2 DEF OnlyIn
    <3> HIDE DEF before
    <3>2. ASSUME NEW kind PROVE Flow(before \o list, S, kind) = Flow(lists[k], S, kind)
      <4>1. Flow(before, S, kind) = 0
        BY <3>1, FlowOfNone
      <4>2. Flow(before \o list, S, kind) = Flow(before, S, kind) + Flow(list, S, kind)
        BY <2>1, <2>3, FlowOfBoth
      <4>3. Flow(list, S, kind) \in Int
        BY <2>1, FlowIsInt
      <4> QED
        BY <2>4, <4>1, <4>2, <4>3
    <3>3. ASSUME NEW price, Closes(lists[k], S, price) PROVE Closes(before \o list, S, price)
      BY <2>1, <2>3, <2>4, <3>3, ClosesBoth
    <3> QED
      BY <2>2, <3>2, <3>3
  <2>5. CASE n >= k
    <3>1. \A a \in ToSet(list) : a.time \notin S
      <4>1. n + 1 \in DOMAIN lists /\ n + 1 # k
        BY <1>3, <2>1, <2>5
      <4> QED
        BY <4>1 DEF OnlyIn
    <3>2. Done(n)
      BY <1>3, <1>5, <2>1, <2>5
    <3>3. ASSUME NEW kind PROVE Flow(before \o list, S, kind) = Flow(lists[k], S, kind)
      <4>1. Flow(list, S, kind) = 0
        BY <3>1, FlowOfNone
      <4>2. Flow(before \o list, S, kind) = Flow(before, S, kind) + Flow(list, S, kind)
        BY <2>1, <2>3, FlowOfBoth
      <4>3. Flow(before, S, kind) \in Int
        BY <2>3, FlowIsInt
      <4>4. Flow(before, S, kind) = Flow(lists[k], S, kind)
        BY <3>2
      <4> QED
        BY <4>1, <4>2, <4>3, <4>4
    <3>4. ASSUME NEW price, Closes(lists[k], S, price) PROVE Closes(before \o list, S, price)
      <4>1. Closes(before, S, price)
        BY <3>2, <3>4
      <4> HIDE DEF before, list
      <4> QED
        BY <2>1, <2>3, <3>1, <4>1, ClosesBoth
    <3> QED
      BY <2>2, <3>3, <3>4
  <2> QED
    BY <1>3, <2>1, <2>4, <2>5
<1> HIDE DEF P
<1>6. Len(lists) \in P
  BY <1>3, <1>4, <1>5, Induction
<1>7. Done(Len(lists)) /\ FlattenSeq(lists) = run[Len(lists)]
  BY <1>1, <1>3, <1>6 DEF P, IsJoining
<1> QED
  BY <1>7

-----------------------------------------------------------------------------
(* Lists that are chosen from. *)

(* What is chosen from a list. *)
LEMMA ChosenPlaces ==
    ASSUME NEW A, NEW list \in Seq(A), NEW c \in SUBSET (DOMAIN list)
    PROVE  \E places \in Seq(c) :
              /\ InOrder(places, c)
              /\ Chosen(list, c) = [n \in DOMAIN places |-> list[places[n]]]
              /\ Chosen(list, c) \in Seq(A) /\ Len(Chosen(list, c)) = Len(places)
<1> DEFINE places == Places(Len(list), c)
<1>1. Len(list) \in Nat /\ DOMAIN list = 1 .. Len(list) /\ c \cap (1 .. Len(list)) = c
  OBVIOUS
<1>2. places \in Seq(c) /\ InOrder(places, c)
  BY <1>1, PlacesInOrder
<1>3. Chosen(list, c) = [n \in DOMAIN places |-> list[places[n]]]
  BY DEF Chosen
<1> HIDE DEF places
<1>4. Len(places) \in Nat /\ DOMAIN places = 1 .. Len(places) /\ \A n \in DOMAIN places : places[n] \in c
  BY <1>2
<1>5. \A i \in c : list[i] \in A
  BY <1>1
<1>6. Chosen(list, c) \in [1 .. Len(places) -> A]
  BY <1>3, <1>4, <1>5
<1>7. Chosen(list, c) \in Seq(A) /\ Len(Chosen(list, c)) = Len(places)
  BY <1>4, <1>6
<1> QED
  BY <1>2, <1>3, <1>7

LEMMA ChosenSet ==
    ASSUME NEW A, NEW list \in Seq(A), NEW c \in SUBSET (DOMAIN list)
    PROVE  Chosen(list, c) \in Seq(A) /\ ToSet(Chosen(list, c)) = {list[i] : i \in c}
<1>1. PICK places \in Seq(c) :
         /\ InOrder(places, c)
         /\ Chosen(list, c) = [n \in DOMAIN places |-> list[places[n]]]
         /\ Chosen(list, c) \in Seq(A)
  BY ChosenPlaces
<1>2. \A n \in DOMAIN places : places[n] \in c
  OBVIOUS
<1>3. \A i \in c : \E n \in DOMAIN places : places[n] = i
  BY <1>1 DEF InOrder
<1> DEFINE list2 == Chosen(list, c)
<1>4. DOMAIN list2 = DOMAIN places /\ \A n \in DOMAIN places : list2[n] = list[places[n]]
  BY <1>1
<1> HIDE DEF list2
<1>5. ToSet(list2) = {list[i] : i \in c}
  BY <1>2, <1>3, <1>4 DEF ToSet
<1> QED
  BY <1>1, <1>5 DEF list2

(* The last of those that are chosen. *)
LEMMA ChosenLast ==
    ASSUME NEW A, NEW list \in Seq(A), NEW c \in SUBSET (DOMAIN list), c # {}
    PROVE  \E i \in c : Last(Chosen(list, c)) = list[i] /\ \A k \in c : k <= i
<1>1. PICK places \in Seq(c) :
         /\ InOrder(places, c)
         /\ Chosen(list, c) = [n \in DOMAIN places |-> list[places[n]]]
         /\ Chosen(list, c) \in Seq(A) /\ Len(Chosen(list, c)) = Len(places)
  BY ChosenPlaces
<1>2. /\ Len(places) \in Nat /\ DOMAIN places = 1 .. Len(places)
      /\ \A n \in DOMAIN places : places[n] \in c
      /\ \A i \in c : i \in Nat
  OBVIOUS
<1>3. PICK k \in c : TRUE
  OBVIOUS
<1>4. PICK n \in DOMAIN places : places[n] = k
  BY <1>1 DEF InOrder
<1>5. Len(places) \in DOMAIN places
  BY <1>2, <1>4
<1>6. Last(Chosen(list, c)) = list[places[Len(places)]]
  BY <1>1, <1>5 DEF Last
<1>7. ASSUME NEW j \in c PROVE j <= places[Len(places)]
  <2>1. PICK m \in DOMAIN places : places[m] = j
    BY <1>1 DEF InOrder
  <2>2. m = Len(places) \/ m < Len(places)
    BY <1>2, <2>1
  <2>3. m < Len(places) => places[m] < places[Len(places)]
    BY <1>1, <1>5 DEF InOrder
  <2>4. places[m] \in Nat /\ places[Len(places)] \in Nat
    BY <1>2, <1>5
  <2> QED
    BY <2>1, <2>2, <2>3, <2>4
<1> QED
  BY <1>2, <1>5, <1>6, <1>7

LEMMA FinitePart ==
    ASSUME NEW A, NEW list \in Seq(A), NEW c \in SUBSET (DOMAIN list)
    PROVE  IsFiniteSet(c)
<1>1. IsFiniteSet(1 .. Len(list))
  BY FS_Interval
<1> QED
  BY <1>1, FS_Subset

LEMMA ValueIsInt ==
    ASSUME NEW trade \in Trades, NEW buyer
    PROVE  Value(trade, buyer) \in Int
<1>1. trade.price \in Int /\ trade.quantity \in Int
  BY DEF Trades
<1>2. trade.price * trade.quantity \in Int
  BY <1>1
<1> QED
  BY <1>2 DEF Value

Values(list, buyer) == [i \in DOMAIN list |-> Value(list[i], buyer)]

(* A sum over trades that are chosen is a sum over their places. *)
LEMMA ChosenNotional ==
    ASSUME NEW list \in Seq(Trades), NEW c \in SUBSET (DOMAIN list), NEW buyer
    PROVE  Notional(Chosen(list, c), buyer) = SumFunctionOnSet(Values(list, buyer), c)
<1>1. PICK places \in Seq(c) :
         /\ InOrder(places, c)
         /\ Chosen(list, c) = [n \in DOMAIN places |-> list[places[n]]]
  BY ChosenPlaces
<1> DEFINE part == Chosen(list, c)
<1> DEFINE S == DOMAIN places
<1>2. /\ DOMAIN part = S /\ \A n \in S : part[n] = list[places[n]]
      /\ \A n \in S : places[n] \in c
  BY <1>1
<1>3. S = 1 .. Len(places) /\ Len(places) \in Nat /\ DOMAIN list = 1 .. Len(list)
      /\ \A i \in DOMAIN list : list[i] \in Trades
  OBVIOUS
<1>4. IsFiniteSet(S)
  BY <1>3, FS_Interval
<1> HIDE DEF part
<1>5. \A n \in S : /\ Values(part, buyer)[n] \in Int
                   /\ Values(list, buyer)[places[n]] = Values(part, buyer)[n]
  BY <1>2, <1>3, ValueIsInt DEF Values
<1>6. \A m, n \in S : places[m] = places[n] => m = n
  <2> TAKE m, n \in S
  <2>1. m = n \/ m < n \/ n < m
    BY <1>3
  <2>2. /\ m < n => places[m] < places[n]
        /\ n < m => places[n] < places[m]
    BY <1>1 DEF InOrder
  <2>3. places[m] \in Int /\ places[n] \in Int
    BY <1>2, <1>3
  <2> QED
    BY <2>1, <2>2, <2>3
<1>7. ImageOf(places, S) = c
  BY <1>1, <1>2 DEF ImageOf, InOrder
<1>8. SumFunctionOnSet(Values(list, buyer), ImageOf(places, S))
        = SumFunctionOnSet(Values(part, buyer), S)
  <2> DEFINE f == Values(part, buyer)
  <2> DEFINE g == Values(list, buyer)
  <2>1. \A n \in S : f[n] \in Int /\ g[places[n]] = f[n]
    BY <1>5
  <2> HIDE DEF S, f, g
  <2>2. SumFunctionOnSet(g, ImageOf(places, S)) = SumFunctionOnSet(f, S)
    BY <1>4, <1>6, <2>1, SumRenamed
  <2> QED
    BY <2>2 DEF f, g
<1>9. Notional(part, buyer) = SumFunctionOnSet(Values(part, buyer), S)
  BY <1>2 DEF Notional, SumFunction, Values
<1> QED
  BY <1>7, <1>8, <1>9 DEF part

-----------------------------------------------------------------------------
(* Whole division. *)

LEMMA DividedBetween ==
    ASSUME NEW t \in Int, NEW n \in Nat \ {0}
    PROVE  t \div n \in Int /\ n * (t \div n) <= t /\ t < n * (t \div n) + n
OBVIOUS

LEMMA MultiplesApart ==
    ASSUME NEW n \in Nat \ {0}, NEW a \in Int, NEW b \in Int, a < b
    PROVE  n * a + n <= n * b
<1>1. a + 1 <= b /\ b - (a + 1) \in Nat
  OBVIOUS
<1> DEFINE d == b - (a + 1)
<1>2. d \in Nat /\ b = a + 1 + d
  BY <1>1
<1> HIDE DEF d
<1>3. n * b = n * a + n + n * d
  BY <1>2
<1>4. n * d \in Nat
  BY <1>2
<1> DEFINE nd == n * d
<1> DEFINE na == n * a
<1>5. nd \in Nat /\ na \in Int /\ n * b = na + n + nd
  BY <1>3, <1>4
<1> HIDE DEF nd, na
<1>6. na + n <= n * b
  BY <1>5
<1> QED
  BY <1>6 DEF na

LEMMA DividedOnce ==
    ASSUME NEW t \in Int, NEW n \in Nat \ {0}, NEW a \in Int, n * a <= t, t < n * a + n
    PROVE  t \div n = a
<1> DEFINE q == t \div n
<1>1. q \in Int /\ n * q <= t /\ t < n * q + n
  BY DividedBetween
<1> HIDE DEF q
<1>2. n * q \in Int /\ n * a \in Int
  BY <1>1
<1>3. ~(q < a)
  <2> SUFFICES ASSUME q < a PROVE FALSE
    OBVIOUS
  <2>1. n * q + n <= n * a
    BY <1>1, MultiplesApart
  <2> QED
    BY <1>1, <1>2, <2>1
<1>4. ~(a < q)
  <2> SUFFICES ASSUME a < q PROVE FALSE
    OBVIOUS
  <2>1. n * a + n <= n * q
    BY <1>1, MultiplesApart
  <2> QED
    BY <1>1, <1>2, <2>1
<1> QED
  BY <1>1, <1>3, <1>4 DEF q

LEMMA MultipleDivided ==
    ASSUME NEW a \in Int, NEW n \in Nat \ {0}
    PROVE  (a * n) \div n = a
<1>1. n * a <= a * n /\ a * n < n * a + n /\ a * n \in Int
  OBVIOUS
<1> QED
  BY <1>1, DividedOnce

LEMMA DividedInOrder ==
    ASSUME NEW t \in Int, NEW u \in Int, NEW n \in Nat \ {0}, t <= u
    PROVE  t \div n <= u \div n
<1> DEFINE q == t \div n
<1> DEFINE r == u \div n
<1>1. q \in Int /\ r \in Int /\ n * q <= t /\ u < n * r + n
  BY DividedBetween
<1> HIDE DEF q, r
<1>2. n * q \in Int /\ n * r \in Int
  BY <1>1
<1>3. ~(r < q)
  <2> SUFFICES ASSUME r < q PROVE FALSE
    OBVIOUS
  <2>1. n * r + n <= n * q
    BY <1>1, MultiplesApart
  <2> QED
    BY <1>1, <1>2, <2>1
<1> QED
  BY <1>1, <1>3 DEF q, r

(* The five seconds of a trade are in its minute. *)
LEMMA BucketInMinute ==
    ASSUME NEW t \in Int
    PROVE  Bucket(t, BarLength) \in Int /\ Bucket(t, BarLength) \div MinuteLength = t \div MinuteLength
<1> DEFINE m == MinuteLength \div BarLength
<1> DEFINE q == t \div MinuteLength
<1> DEFINE b == t \div BarLength
<1>1. MinuteLength \in Nat \ {0} /\ BarLength \in Nat \ {0} /\ MinuteLength % BarLength = 0
  BY DataAssumption
<1>2. m \in Int /\ MinuteLength = BarLength * m
  BY <1>1
<1>3. /\ q \in Int /\ MinuteLength * q <= t /\ t < MinuteLength * q + MinuteLength
      /\ b \in Int /\ BarLength * b <= t /\ t < BarLength * b + BarLength
  BY <1>1, DividedBetween
<1>4. Bucket(t, BarLength) = BarLength * b
  BY <1>1, <1>3 DEF Bucket
<1> HIDE DEF m, q, b
<1>5. MinuteLength * q = BarLength * (m * q) /\ m * q \in Int
  BY <1>1, <1>2, <1>3
<1>6. /\ BarLength * b \in Int /\ BarLength * (m * q) \in Int
  BY <1>1, <1>3, <1>5
<1>7. BarLength * (m * q) <= BarLength * b
  <2>1. CASE b < m * q
    <3>1. BarLength * b + BarLength <= BarLength * (m * q)
      BY <1>1, <1>3, <1>5, <2>1, MultiplesApart
    <3> QED
      BY <1>1, <1>3, <1>5, <1>6, <3>1
  <2>2. CASE b = m * q
    BY <1>6, <2>2
  <2>3. CASE m * q < b
    <3>1. BarLength * (m * q) + BarLength <= BarLength * b
      BY <1>1, <1>3, <1>5, <2>3, MultiplesApart
    <3> QED
      BY <1>1, <1>6, <3>1
  <2> QED
    BY <1>3, <1>5, <2>1, <2>2, <2>3
<1>8. MinuteLength * q <= BarLength * b /\ BarLength * b < MinuteLength * q + MinuteLength
  <2>1. MinuteLength * q \in Int
    BY <1>5, <1>6
  <2> QED
    BY <1>1, <1>3, <1>5, <1>6, <1>7, <2>1
<1>9. (BarLength * b) \div MinuteLength = q
  BY <1>1, <1>3, <1>6, <1>8, DividedOnce
<1> QED
  BY <1>4, <1>6, <1>9 DEF q

-----------------------------------------------------------------------------
(* Trades, bars and rows of a minute. *)

(* The times of a minute. *)
SpanOf(minute) == {t \in Int : Bucket(t, MinuteLength) = minute}

LEMMA SpanOfNumber ==
    ASSUME NEW t \in Int, NEW number \in Int
    PROVE  t \in SpanOf(number * MinuteLength) <=> t \div MinuteLength = number
<1>1. MinuteLength \in Nat \ {0}
  BY DataAssumption
<1>2. t \div MinuteLength \in Int
  BY <1>1, DividedBetween
<1> DEFINE q == t \div MinuteLength
<1>3. (q * MinuteLength) \div MinuteLength = q /\ (number * MinuteLength) \div MinuteLength = number
  BY <1>1, <1>2, MultipleDivided
<1>4. Bucket(t, MinuteLength) = q * MinuteLength
  BY DEF Bucket
<1> HIDE DEF q
<1> QED
  BY <1>3, <1>4 DEF SpanOf, q

LEMMA BarOfTrade ==
    ASSUME NEW trade
    PROVE  /\ BarOf(trade).buy = Value(trade, TRUE) /\ BarOf(trade).sell = Value(trade, FALSE)
           /\ BarOf(trade).close = trade.price /\ BarOf(trade).time = Bucket(trade.time, BarLength)
BY DEF BarOf

LEMMA BarsOfArchive ==
    ASSUME NEW archive \in Archives
    PROVE  /\ BarsOf(archive) \in Seq(MinuteRecords)
           /\ DOMAIN BarsOf(archive) = DOMAIN archive.trades
           /\ archive.trades \in Seq(Trades)
           /\ \A i \in DOMAIN archive.trades :
                 /\ archive.trades[i] \in Trades
                 /\ BarsOf(archive)[i] = BarOf(archive.trades[i])
                 /\ BarsOf(archive)[i].time = Bucket(archive.trades[i].time, BarLength)
                 /\ BarsOf(archive)[i].time \div MinuteLength = archive.trades[i].time \div MinuteLength
<1> DEFINE list == archive.trades
<1>1. list \in Seq(Trades)
  BY DEF Archives
<1> HIDE DEF list
<1>2. Len(list) \in Nat /\ DOMAIN list = 1 .. Len(list) /\ \A i \in DOMAIN list : list[i] \in Trades
  BY <1>1
<1>3. BarsOf(archive) = [i \in DOMAIN list |-> BarOf(list[i])]
  BY DEF BarsOf, list
<1>4. ASSUME NEW trade \in Trades
      PROVE  /\ BarOf(trade) \in MinuteRecords /\ BarOf(trade).time = Bucket(trade.time, BarLength)
             /\ Bucket(trade.time, BarLength) \div MinuteLength = trade.time \div MinuteLength
  <2>1. trade.time \in Int /\ trade.price \in Int
    BY DEF Trades
  <2>2. /\ Bucket(trade.time, BarLength) \in Int
        /\ Bucket(trade.time, BarLength) \div MinuteLength = trade.time \div MinuteLength
    BY <2>1, BucketInMinute
  <2>3. Value(trade, TRUE) \in Int /\ Value(trade, FALSE) \in Int
    BY ValueIsInt
  <2> DEFINE time == Bucket(trade.time, BarLength)
  <2> DEFINE bought == Value(trade, TRUE)
  <2> DEFINE sold == Value(trade, FALSE)
  <2>4. BarOf(trade) = [time |-> time, close |-> trade.price, high |-> trade.price,
                        low |-> trade.price, trades |-> 1, buy |-> bought, sell |-> sold]
    BY DEF BarOf
  <2>5. time \in Int /\ bought \in Int /\ sold \in Int
    BY <2>2, <2>3
  <2> HIDE DEF time, bought, sold
  <2>6. BarOf(trade) \in MinuteRecords
    BY <2>1, <2>4, <2>5 DEF MinuteRecords
  <2> QED
    BY <2>2, <2>6, BarOfTrade
<1>5. BarsOf(archive) \in [1 .. Len(list) -> MinuteRecords]
  BY <1>2, <1>3, <1>4
<1>6. BarsOf(archive) \in Seq(MinuteRecords)
  BY <1>2, <1>5
<1> QED
  BY <1>1, <1>2, <1>3, <1>4, <1>6 DEF list

(* The bars of a minute whose trades are all in the file. *)
LEMMA BarsOfMinute ==
    ASSUME NEW archive \in Archives, NEW number \in Int,
           \A i \in DOMAIN archive.trades :
              archive.trades[i].time \div MinuteLength = number => InFile(archive.trades[i].time)
    PROVE  At(BarsOf(archive), SpanOf(number * MinuteLength)) = TradesOfMinute(archive, number)
<1> DEFINE list == archive.trades
<1> DEFINE bars == BarsOf(archive)
<1>1. /\ DOMAIN bars = DOMAIN list
      /\ \A i \in DOMAIN list : /\ list[i] \in Trades
                                /\ bars[i].time = Bucket(list[i].time, BarLength)
                                /\ bars[i].time \div MinuteLength = list[i].time \div MinuteLength
  BY BarsOfArchive
<1>2. ASSUME NEW i \in DOMAIN list
      PROVE  bars[i].time \in SpanOf(number * MinuteLength)
               <=> InFile(list[i].time) /\ list[i].time \div MinuteLength = number
  <2>1. list[i].time \in Int
    BY <1>1 DEF Trades
  <2>2. bars[i].time \in Int
    BY <1>1, <2>1, BucketInMinute
  <2> QED
    BY <1>1, <2>2, SpanOfNumber
<1>3. TradesOfMinute(archive, number)
        = {i \in DOMAIN list : InFile(list[i].time) /\ list[i].time \div MinuteLength = number}
  BY DEF TradesOfMinute
<1> HIDE DEF list, bars
<1>4. At(bars, SpanOf(number * MinuteLength)) = TradesOfMinute(archive, number)
  BY <1>1, <1>2, <1>3 DEF At
<1> QED
  BY <1>4 DEF bars

LEMMA MinuteOfBars ==
    ASSUME NEW archive \in Archives, NEW number \in Int, TradesOfMinute(archive, number) # {},
           \A i \in DOMAIN archive.trades :
              archive.trades[i].time \div MinuteLength = number => InFile(archive.trades[i].time)
    PROVE  LET minute == MinuteOf(archive, number)
               span == SpanOf(number * MinuteLength)
           IN  /\ minute.buy = Flow(BarsOf(archive), span, "buy")
               /\ minute.sell = Flow(BarsOf(archive), span, "sell")
               /\ Closes(BarsOf(archive), span, minute.close)
<1> DEFINE list == archive.trades
<1> DEFINE bars == BarsOf(archive)
<1> DEFINE c == TradesOfMinute(archive, number)
<1> DEFINE span == SpanOf(number * MinuteLength)
<1>1. /\ DOMAIN bars = DOMAIN list /\ list \in Seq(Trades)
      /\ \A i \in DOMAIN list : list[i] \in Trades /\ bars[i] = BarOf(list[i])
  BY BarsOfArchive
<1>2. At(bars, span) = c
  BY BarsOfMinute
<1>3. c \in SUBSET (DOMAIN list) /\ c # {}
  BY DEF TradesOfMinute
<1>4. /\ MinuteOf(archive, number).buy = Notional(Chosen(list, c), TRUE)
      /\ MinuteOf(archive, number).sell = Notional(Chosen(list, c), FALSE)
      /\ MinuteOf(archive, number).close = Last(Chosen(list, c)).price
  BY DEF MinuteOf
<1> HIDE DEF list, bars, c, span
<1>5. IsFiniteSet(c)
  BY <1>1, <1>3, FinitePart
<1>6. ASSUME NEW kind, NEW buyer \in BOOLEAN, kind = IF buyer THEN "buy" ELSE "sell"
      PROVE  Notional(Chosen(list, c), buyer) = Flow(bars, span, kind)
  <2>1. Notional(Chosen(list, c), buyer) = SumFunctionOnSet(Values(list, buyer), c)
    BY <1>1, <1>3, ChosenNotional
  <2>2. \A i \in c : Values(list, buyer)[i] = Amounts(bars, kind)[i]
    <3> TAKE i \in c
    <3>1. i \in DOMAIN list /\ i \in DOMAIN bars
      BY <1>1, <1>3
    <3>2. bars[i].buy = Value(list[i], TRUE) /\ bars[i].sell = Value(list[i], FALSE)
      BY <1>1, <3>1, BarOfTrade
    <3> QED
      BY <1>6, <3>1, <3>2 DEF Values, Amounts, Amount
  <2> DEFINE f == Values(list, buyer)
  <2> DEFINE g == Amounts(bars, kind)
  <2> HIDE DEF f, g
  <2>3. SumFunctionOnSet(f, c) = SumFunctionOnSet(g, c)
    BY <1>5, <2>2, SumReads DEF f, g
  <2> QED
    BY <1>2, <2>1, <2>3 DEF f, g, Flow
<1>7. PICK i \in c : Last(Chosen(list, c)) = list[i] /\ \A k \in c : k <= i
  BY <1>1, <1>3, ChosenLast
<1>8. Closes(bars, span, Last(Chosen(list, c)).price)
  <2>1. i \in DOMAIN bars /\ bars[i].time \in span
    BY <1>2, <1>7 DEF At
  <2>2. bars[i].close = list[i].price
    BY <1>1, <2>1, BarOfTrade
  <2>3. ASSUME NEW m \in DOMAIN bars, m > i PROVE bars[m].time \notin span
    <3>1. m \notin c
      <4>1. i \in Int /\ m \in Int
        BY <1>1, <2>1
      <4> QED
        BY <1>7, <2>3, <4>1
    <3> QED
      BY <1>2, <3>1 DEF At
  <2> QED
    BY <1>7, <2>1, <2>2, <2>3 DEF Closes
<1>9. /\ Notional(Chosen(list, c), TRUE) = Flow(bars, span, "buy")
      /\ Notional(Chosen(list, c), FALSE) = Flow(bars, span, "sell")
  BY <1>6
<1> QED
  BY <1>4, <1>8, <1>9 DEF bars, span

-----------------------------------------------------------------------------
(* The row of a minute. *)

LEMMA ImbalanceCapped ==
    ASSUME NEW minute, minute.buy \in Int, minute.sell \in Int
    PROVE  Imbalance(minute) \in Int /\ Imbalance(minute) < Unit /\ -Imbalance(minute) < Unit
<1> DEFINE total == minute.buy + minute.sell
<1> DEFINE value == (minute.buy - minute.sell) * Unit
<1> DEFINE exact == IF total > 0 THEN RoundedQuotient(value, total) ELSE 0
<1>1. /\ Unit \in Nat \ {0} /\ ImbalanceCap \in Nat /\ ImbalanceCap < Unit
  BY DataAssumption
<1>2. total \in Int /\ value \in Int
  BY <1>1
<1>3. Imbalance(minute) = IF exact > ImbalanceCap THEN ImbalanceCap
                          ELSE IF exact < -ImbalanceCap THEN -ImbalanceCap ELSE exact
  BY DEF Imbalance
<1> HIDE DEF total, value
<1>4. exact \in Int
  <2> SUFFICES ASSUME total > 0 PROVE RoundedQuotient(value, total) \in Int
    OBVIOUS
  <2>1. 2 * total \in Nat \ {0} /\ 2 * value + total \in Int /\ -2 * value + total \in Int
    BY <1>2
  <2>2. (2 * value + total) \div (2 * total) \in Int /\ (-2 * value + total) \div (2 * total) \in Int
    BY <2>1, DividedBetween
  <2> DEFINE a == (2 * value + total) \div (2 * total)
  <2> DEFINE b == (-2 * value + total) \div (2 * total)
  <2>3. RoundedQuotient(value, total) = IF value >= 0 THEN a ELSE -b
    BY DEF RoundedQuotient
  <2> HIDE DEF a, b
  <2>4. a \in Int /\ b \in Int
    BY <2>2 DEF a, b
  <2> QED
    BY <2>3, <2>4
<1> HIDE DEF exact
<1> QED
  BY <1>1, <1>3, <1>4

LEMMA RowUsable ==
    ASSUME NEW minute, minute.time \in Int, minute.close \in Nat \ {0, 1},
           minute.buy \in Int, minute.sell \in Int
    PROVE  LET row == RowOf(minute)
           IN  /\ row \in Quotes /\ row.time = minute.time
               /\ 0 < row.bid /\ row.bid < row.ask /\ row.bid_quantity > 0 /\ row.ask_quantity > 0
<1> DEFINE close == minute.close
<1> DEFINE part == close \div SpreadParts
<1> DEFINE half == IF part < 1 THEN 1 ELSE part
<1> DEFINE imbalance == Imbalance(minute)
<1>1. SpreadParts \in Nat \ {0, 1} /\ Unit \in Nat
  BY DataAssumption
<1>2. part \in Int /\ SpreadParts * part <= close
  BY <1>1, DividedBetween
<1>3. imbalance \in Int /\ imbalance < Unit /\ -imbalance < Unit
  BY ImbalanceCapped
<1>4. RowOf(minute) = [time |-> minute.time, bid |-> close - half, ask |-> close + half,
                       bid_quantity |-> Unit + imbalance, ask_quantity |-> Unit - imbalance]
  BY DEF RowOf
<1> HIDE DEF part, imbalance
<1>5. part >= 1 => part < close
  <2> SUFFICES ASSUME part >= 1 PROVE part < close
    OBVIOUS
  <2>1. SpreadParts * 1 + SpreadParts <= SpreadParts * part \/ part = 1
    BY <1>1, <1>2, MultiplesApart
  <2>2. SpreadParts * part = part + (SpreadParts - 1) * part
    BY <1>1, <1>2
  <2>3. (SpreadParts - 1) * part > 0
    <3>1. SpreadParts - 1 \in Nat \ {0} /\ part \in Nat \ {0}
      BY <1>1, <1>2
    <3> DEFINE more == SpreadParts - 1
    <3> HIDE DEF more
    <3>2. more \in Nat \ {0} /\ part \in Nat \ {0}
      BY <3>1 DEF more
    <3>3. more * part > 0
      BY <3>2
    <3> QED
      BY <3>3 DEF more
  <2> DEFINE rest == (SpreadParts - 1) * part
  <2> DEFINE all == SpreadParts * part
  <2>4. rest \in Int /\ all \in Int
    BY <1>1, <1>2
  <2>5. all = part + rest /\ rest > 0 /\ all <= close
    BY <1>2, <2>2, <2>3
  <2> HIDE DEF rest, all
  <2> QED
    BY <1>2, <2>4, <2>5
<1>6. half \in Int /\ half >= 1 /\ half < close
  BY <1>2, <1>5
<1> HIDE DEF half
<1>7. /\ close - half \in Int /\ close + half \in Int
      /\ Unit + imbalance \in Int /\ Unit - imbalance \in Int
      /\ 0 < close - half /\ close - half < close + half
      /\ Unit + imbalance > 0 /\ Unit - imbalance > 0
  BY <1>1, <1>3, <1>6
<1> DEFINE bid == close - half
<1> DEFINE ask == close + half
<1> DEFINE buys == Unit + imbalance
<1> DEFINE sells == Unit - imbalance
<1>8. /\ bid \in Int /\ ask \in Int /\ buys \in Int /\ sells \in Int
      /\ 0 < bid /\ bid < ask /\ buys > 0 /\ sells > 0
  BY <1>7
<1>9. RowOf(minute) = [time |-> minute.time, bid |-> bid, ask |-> ask,
                       bid_quantity |-> buys, ask_quantity |-> sells]
  BY <1>4
<1> HIDE DEF bid, ask, buys, sells
<1> QED
  BY <1>8, <1>9 DEF Quotes

-----------------------------------------------------------------------------
(* The rows of an archive. *)

(* The minutes of an archive that the file has. *)
NumbersOf(archive) == {n \in Int : TradesOfMinute(archive, n) # {}}

LEMMA NumberInFile ==
    ASSUME NEW archive \in Archives, NEW n \in NumbersOf(archive)
    PROVE  /\ n \in 1 .. EndTime \div MinuteLength
           /\ StartTime <= n * MinuteLength /\ n * MinuteLength <= EndTime
           /\ n * MinuteLength \in Int
<1>1. PICK i \in DOMAIN archive.trades :
         InFile(archive.trades[i].time) /\ archive.trades[i].time \div MinuteLength = n
  BY DEF NumbersOf, TradesOfMinute
<1> DEFINE t == archive.trades[i].time
<1>2. t \in Int
  <2>1. archive.trades[i] \in Trades
    BY BarsOfArchive
  <2> QED
    BY <2>1 DEF Trades
<1>3. StartTime <= t /\ t <= EndTime /\ t \div MinuteLength = n
  BY <1>1 DEF InFile
<1> HIDE DEF t
<1>4. /\ MinuteLength \in Nat \ {0} /\ StartTime \in Nat \ {0} /\ EndTime \in Nat \ {0}
      /\ StartTime % MinuteLength = 0
  BY DataAssumption
<1>5. n \in Int /\ MinuteLength * n <= t
  BY <1>2, <1>3, <1>4, DividedBetween
<1>6. n <= EndTime \div MinuteLength /\ EndTime \div MinuteLength \in Int
  BY <1>2, <1>3, <1>4, DividedInOrder, DividedBetween
<1> DEFINE s == StartTime \div MinuteLength
<1>7. s \in Int /\ MinuteLength * s = StartTime
  BY <1>4
<1>8. s <= n
  BY <1>2, <1>3, <1>4, DividedInOrder
<1> HIDE DEF s
<1>9. MinuteLength * s <= MinuteLength * n
  <2>1. s = n \/ s < n
    BY <1>5, <1>7, <1>8
  <2>2. s < n => MinuteLength * s + MinuteLength <= MinuteLength * n
    BY <1>4, <1>5, <1>7, MultiplesApart
  <2>3. MinuteLength * s \in Int /\ MinuteLength * n \in Int
    BY <1>4, <1>5, <1>7
  <2> QED
    BY <1>4, <2>1, <2>2, <2>3
<1>10. s >= 1
  <2>1. ~(s < 1)
    <3> SUFFICES ASSUME s < 1 PROVE FALSE
      OBVIOUS
    <3>1. MinuteLength * s + MinuteLength <= MinuteLength * 1
      BY <1>4, <1>7, MultiplesApart
    <3> QED
      BY <1>4, <1>7, <3>1
  <2> QED
    BY <1>7, <2>1
<1>11. n >= 1
  BY <1>5, <1>7, <1>8, <1>10
<1>12. n * MinuteLength = MinuteLength * n /\ n * MinuteLength \in Int
  BY <1>4, <1>5
<1>13. n \in 1 .. EndTime \div MinuteLength
  BY <1>5, <1>6, <1>11
<1> QED
  BY <1>2, <1>3, <1>4, <1>5, <1>7, <1>9, <1>12, <1>13

LEMMA MinuteTyped ==
    ASSUME NEW archive \in Archives, NEW n \in NumbersOf(archive)
    PROVE  LET minute == MinuteOf(archive, n)
           IN  /\ minute.time = n * MinuteLength /\ minute.close \in Nat \ {0, 1}
               /\ minute.buy \in Int /\ minute.sell \in Int
<1> DEFINE list == archive.trades
<1> DEFINE c == TradesOfMinute(archive, n)
<1>1. list \in Seq(Trades) /\ c \in SUBSET (DOMAIN list) /\ c # {}
  BY BarsOfArchive DEF NumbersOf, TradesOfMinute
<1>2. /\ MinuteOf(archive, n).buy = Notional(Chosen(list, c), TRUE)
      /\ MinuteOf(archive, n).sell = Notional(Chosen(list, c), FALSE)
      /\ MinuteOf(archive, n).close = Last(Chosen(list, c)).price
      /\ MinuteOf(archive, n).time = n * MinuteLength
  BY DEF MinuteOf
<1> HIDE DEF list, c
<1>3. IsFiniteSet(c)
  BY <1>1, FinitePart
<1>4. ASSUME NEW buyer PROVE Notional(Chosen(list, c), buyer) \in Int
  <2> DEFINE f == Values(list, buyer)
  <2>1. \A i \in c : f[i] \in Int
    <3>1. \A i \in c : i \in DOMAIN list /\ list[i] \in Trades
      BY <1>1
    <3> QED
      BY <3>1, ValueIsInt DEF Values
  <2>2. Notional(Chosen(list, c), buyer) = SumFunctionOnSet(f, c)
    BY <1>1, ChosenNotional
  <2> HIDE DEF f
  <2>3. SumFunctionOnSet(f, c) \in Int
    BY <1>3, <2>1, SumTyped
  <2> QED
    BY <2>2, <2>3
<1>5. Last(Chosen(list, c)).price \in Nat \ {0, 1}
  <2>1. PICK i \in c : Last(Chosen(list, c)) = list[i]
    BY <1>1, ChosenLast
  <2>2. list[i] \in Trades
    BY <1>1
  <2> QED
    BY <2>1, <2>2 DEF Trades
<1> QED
  BY <1>2, <1>4, <1>5

TwoSided(row) ==
    0 < row.bid /\ row.bid < row.ask /\ row.bid_quantity > 0 /\ row.ask_quantity > 0

RowFor(archive, n) == RowOf(MinuteOf(archive, n))

LEMMA RowForMinute ==
    ASSUME NEW archive \in Archives, NEW n \in NumbersOf(archive)
    PROVE  /\ RowFor(archive, n) \in Quotes /\ TwoSided(RowFor(archive, n))
           /\ RowFor(archive, n).time = n * MinuteLength
<1> DEFINE minute == MinuteOf(archive, n)
<1>1. /\ minute.time = n * MinuteLength /\ minute.time \in Int /\ minute.close \in Nat \ {0, 1}
      /\ minute.buy \in Int /\ minute.sell \in Int
  BY MinuteTyped, NumberInFile
<1> HIDE DEF minute
<1>2. /\ RowOf(minute) \in Quotes /\ RowOf(minute).time = minute.time /\ TwoSided(RowOf(minute))
  BY <1>1, RowUsable DEF TwoSided
<1> QED
  BY <1>1, <1>2 DEF RowFor, minute

LEMMA RowsOfArchive ==
    ASSUME NEW archive \in Archives
    PROVE  /\ RowsOf(archive) \in Seq(Quotes)
           /\ Sorted(RowsOf(archive), MinuteLength)
           /\ ToSet(RowsOf(archive)) = {RowFor(archive, n) : n \in NumbersOf(archive)}
<1> DEFINE K == EndTime \div MinuteLength
<1> DEFINE c == NumbersOf(archive)
<1> DEFINE numbers == Places(K, {n \in 1 .. K : TradesOfMinute(archive, n) # {}})
<1> DEFINE list == RowsOf(archive)
<1>0. MinuteLength \in Nat \ {0} /\ EndTime \in Nat \ {0}
  BY DataAssumption
<1>1. K \in Nat
  BY <1>0
<1>2. {n \in 1 .. K : TradesOfMinute(archive, n) # {}} \cap (1 .. K) = c
  <2>1. \A n \in c : n \in 1 .. K
    BY NumberInFile
  <2> QED
    BY <1>1, <2>1 DEF NumbersOf
<1>3. numbers \in Seq(c) /\ InOrder(numbers, c)
  BY <1>1, <1>2, PlacesInOrder
<1>4. list = [i \in DOMAIN numbers |-> RowFor(archive, numbers[i])]
  BY DEF RowsOf, Minutes, RowFor
<1> HIDE DEF numbers, list, K
<1>5. Len(numbers) \in Nat /\ DOMAIN numbers = 1 .. Len(numbers) /\ \A i \in DOMAIN numbers : numbers[i] \in c
  BY <1>3
<1>6. \A n \in c : /\ RowFor(archive, n) \in Quotes /\ RowFor(archive, n).time = n * MinuteLength
                   /\ n \in Int
  BY RowForMinute DEF NumbersOf
<1> HIDE DEF c
<1>7. list \in [1 .. Len(numbers) -> Quotes]
  BY <1>4, <1>5, <1>6
<1>8. list \in Seq(Quotes)
  BY <1>5, <1>7
<1>9. Sorted(list, MinuteLength)
  <2>1. ASSUME NEW i \in DOMAIN list, NEW j \in DOMAIN list, i < j
        PROVE  list[i].time + MinuteLength <= list[j].time
    <3>1. /\ numbers[i] \in c /\ numbers[j] \in c /\ numbers[i] \in Int /\ numbers[j] \in Int
          /\ numbers[i] < numbers[j]
          /\ list[i].time = numbers[i] * MinuteLength /\ list[j].time = numbers[j] * MinuteLength
      BY <1>3, <1>4, <1>5, <1>6, <2>1 DEF InOrder
    <3>2. MinuteLength * numbers[i] + MinuteLength <= MinuteLength * numbers[j]
      BY <1>0, <3>1, MultiplesApart
    <3> QED
      BY <1>0, <3>1, <3>2
  <2> QED
    BY <2>1 DEF Sorted
<1>10. ToSet(list) = {RowFor(archive, n) : n \in c}
  <2>1. \A n \in c : \E i \in DOMAIN numbers : numbers[i] = n
    BY <1>3 DEF InOrder
  <2>2. DOMAIN list = DOMAIN numbers /\ \A i \in DOMAIN numbers : list[i] = RowFor(archive, numbers[i])
    BY <1>4
  <2> QED
    BY <1>5, <2>1, <2>2 DEF ToSet
<1> QED
  BY <1>8, <1>9, <1>10 DEF list, c

-----------------------------------------------------------------------------
(* The archives of a directory. *)

(* One archive ends with a minute before the other begins. *)
Apart(a, b) ==
    \A s \in ToSet(a.trades), t \in ToSet(b.trades) :
        s.time \div MinuteLength < t.time \div MinuteLength

AllApart(archives) ==
    \A i, j \in DOMAIN archives : i < j => Apart(archives[i], archives[j])

LEMMA ChosenApart ==
    ASSUME NEW list \in Seq(Archives), NEW c \in SUBSET (DOMAIN list),
           \A i, j \in c : i < j => Apart(list[i], list[j])
    PROVE  AllApart(Chosen(list, c))
<1>1. PICK places \in Seq(c) :
         /\ InOrder(places, c)
         /\ Chosen(list, c) = [n \in DOMAIN places |-> list[places[n]]]
  BY ChosenPlaces
<1> DEFINE part == Chosen(list, c)
<1>2. /\ DOMAIN part = DOMAIN places /\ \A n \in DOMAIN places : part[n] = list[places[n]]
      /\ \A n \in DOMAIN places : places[n] \in c
  BY <1>1
<1> HIDE DEF part
<1>3. ASSUME NEW i \in DOMAIN part, NEW j \in DOMAIN part, i < j PROVE Apart(part[i], part[j])
  <2>1. places[i] \in c /\ places[j] \in c /\ places[i] < places[j]
    BY <1>1, <1>2, <1>3 DEF InOrder
  <2> QED
    BY <1>2, <2>1
<1> QED
  BY <1>3 DEF AllApart, part

LEMMA BothApart ==
    ASSUME NEW A, NEW s \in Seq(A), NEW t \in Seq(A), AllApart(s), AllApart(t),
           \A a \in ToSet(s), b \in ToSet(t) : Apart(a, b)
    PROVE  AllApart(s \o t)
<1> DEFINE both == s \o t
<1> DEFINE m == Len(s)
<1> DEFINE n == Len(t)
<1>1. /\ m \in Nat /\ n \in Nat /\ DOMAIN s = 1 .. m /\ DOMAIN t = 1 .. n
      /\ DOMAIN both = 1 .. m + n
      /\ \A i \in 1 .. m : both[i] = s[i]
      /\ \A i \in 1 .. n : both[m + i] = t[i]
  BY ElementOfBoth
<1> HIDE DEF both, m, n
<1>2. ASSUME NEW i \in 1 .. m + n, NEW j \in 1 .. m + n, i < j
      PROVE  Apart(both[i], both[j])
  <2>1. CASE i \in 1 .. m /\ j \in 1 .. m
    BY <1>1, <1>2, <2>1 DEF AllApart
  <2>2. CASE i > m /\ i - m \in 1 .. n /\ i = m + (i - m)
    <3>1. j - m \in 1 .. n /\ j = m + (j - m) /\ i - m < j - m
      BY <1>1, <1>2, <2>2
    <3>2. both[i] = t[i - m] /\ both[j] = t[j - m]
      BY <1>1, <2>2, <3>1
    <3>3. Apart(t[i - m], t[j - m])
      BY <1>1, <2>2, <3>1 DEF AllApart
    <3> QED
      BY <3>2, <3>3
  <2>3. CASE i \in 1 .. m /\ j - m \in 1 .. n /\ j = m + (j - m)
    <3>1. both[i] = s[i] /\ both[j] = t[j - m]
      BY <1>1, <2>3
    <3>2. s[i] \in ToSet(s) /\ t[j - m] \in ToSet(t)
      BY <1>1, <2>3 DEF ToSet
    <3> QED
      BY <3>1, <3>2
  <2> QED
    BY <1>1, <2>1, <2>2, <2>3, PlaceInBoth
<1> QED
  BY <1>1, <1>2 DEF AllApart, both

LEMMA DirectoryInOrder ==
    ASSUME DirectoriesInOrder, NEW input \in Directories
    PROVE  /\ input \in Seq(Archives) /\ Len(input) \in Nat /\ DOMAIN input = 1 .. Len(input)
           /\ \A i \in DOMAIN input : input[i] \in Archives /\ ArchiveInOrder(input[i])
           /\ Counted(input) \in SUBSET (DOMAIN input)
           /\ \A i, j \in Counted(input) : i < j => Apart(input[i], input[j])
<1>1. /\ input \in Seq(Archives)
      /\ \A i \in DOMAIN input : ArchiveInOrder(input[i])
      /\ \A i, j \in Counted(input) : i < j => Apart(input[i], input[j])
  BY DEF DirectoriesInOrder, ArchivesInOrder, Apart
<1>2. Counted(input) \in SUBSET (DOMAIN input)
  BY DEF Counted
<1> QED
  BY <1>1, <1>2

LEMMA BarArchivesInOrder ==
    ASSUME DirectoriesInOrder, NEW input \in Directories
    PROVE  /\ BarArchives(input) \in Seq(Archives) /\ AllApart(BarArchives(input))
           /\ ToSet(BarArchives(input)) = {input[i] : i \in Counted(input)}
BY DirectoryInOrder, ChosenApart, ChosenSet DEF BarArchives

LEMMA ReplayArchivesInOrder ==
    ASSUME DirectoriesInOrder, NEW input \in Directories
    PROVE  /\ ReplayArchives(input) \in Seq(Archives) /\ AllApart(ReplayArchives(input))
           /\ ToSet(ReplayArchives(input))
                = {input[i] : i \in {j \in Counted(input) : input[j].month \in WantedMonths}}
<1> DEFINE wanted == {i \in DOMAIN input : input[i].month \in WantedMonths}
<1> DEFINE months == {i \in wanted : IsMonthly(input[i])}
<1> DEFINE days == {i \in wanted : Uncovered(input, input[i])}
<1>1. /\ input \in Seq(Archives) /\ DOMAIN input = 1 .. Len(input)
      /\ \A i, j \in Counted(input) : i < j => Apart(input[i], input[j])
  BY DirectoryInOrder
<1>2. ReplayArchives(input) = Chosen(input, months) \o Chosen(input, days)
  BY DEF ReplayArchives
<1>3. /\ months \in SUBSET (DOMAIN input) /\ days \in SUBSET (DOMAIN input)
      /\ months \subseteq Counted(input) /\ days \subseteq Counted(input)
      /\ months \cup days = {j \in Counted(input) : input[j].month \in WantedMonths}
  BY DEF Counted
<1>4. \A i \in months, j \in days : i < j
  <2>1. \A i \in months, j \in days : IsMonthly(input[i]) /\ ~IsMonthly(input[j])
    BY DEF Uncovered
  <2>2. \A i, j \in Counted(input) : IsMonthly(input[j]) /\ ~IsMonthly(input[i]) => j < i
    BY DEF DirectoriesInOrder, ArchivesInOrder
  <2> HIDE DEF months, days
  <2> QED
    BY <1>3, <2>1, <2>2
<1> HIDE DEF months, days
<1> DEFINE first == Chosen(input, months)
<1> DEFINE second == Chosen(input, days)
<1>5. /\ first \in Seq(Archives) /\ AllApart(first) /\ ToSet(first) = {input[i] : i \in months}
      /\ second \in Seq(Archives) /\ AllApart(second) /\ ToSet(second) = {input[i] : i \in days}
  BY <1>1, <1>3, ChosenApart, ChosenSet
<1> HIDE DEF first, second
<1>6. \A a \in ToSet(first), b \in ToSet(second) : Apart(a, b)
  <2> TAKE a \in ToSet(first), b \in ToSet(second)
  <2>1. PICK i \in months : a = input[i]
    BY <1>5
  <2>2. PICK j \in days : b = input[j]
    BY <1>5
  <2> QED
    BY <1>1, <1>3, <1>4, <2>1, <2>2
<1>7. AllApart(first \o second) /\ first \o second \in Seq(Archives)
  <2>1. AllApart(first \o second)
    BY <1>5, <1>6, BothApart
  <2>2. first \o second \in Seq(Archives)
    BY <1>5
  <2> QED
    BY <2>1, <2>2
<1>8. ToSet(first \o second) = ToSet(first) \cup ToSet(second)
  BY <1>5, SetOfBoth
<1>9. ToSet(first \o second)
        = {input[i] : i \in {j \in Counted(input) : input[j].month \in WantedMonths}}
  BY <1>3, <1>5, <1>8
<1> QED
  BY <1>2, <1>7, <1>9 DEF first, second

-----------------------------------------------------------------------------
(* The file. *)

RowLists(archives) == [i \in DOMAIN archives |-> RowsOf(archives[i])]

(* The archives that a minute may come from. *)
LEMMA NumbersApart ==
    ASSUME NEW a \in Archives, NEW b \in Archives, Apart(a, b),
           NEW m \in NumbersOf(a), NEW n \in NumbersOf(b)
    PROVE  m < n
<1>1. PICK i \in DOMAIN a.trades : a.trades[i].time \div MinuteLength = m
  BY DEF NumbersOf, TradesOfMinute
<1>2. PICK j \in DOMAIN b.trades : b.trades[j].time \div MinuteLength = n
  BY DEF NumbersOf, TradesOfMinute
<1>3. a.trades[i] \in ToSet(a.trades) /\ b.trades[j] \in ToSet(b.trades)
  BY DEF ToSet
<1> QED
  BY <1>1, <1>2, <1>3 DEF Apart

LEMMA FileOfArchives ==
    ASSUME NEW archives \in Seq(Archives), AllApart(archives)
    PROVE  LET written == FlattenSeq(RowLists(archives))
           IN  /\ written \in Seq(Quotes) /\ Sorted(written, MinuteLength)
               /\ ToSet(written) = UNION {{RowFor(archive, n) : n \in NumbersOf(archive)} :
                                             archive \in ToSet(archives)}
<1> DEFINE lists == RowLists(archives)
<1>1. /\ Len(archives) \in Nat /\ DOMAIN archives = 1 .. Len(archives)
      /\ \A i \in DOMAIN archives : archives[i] \in Archives
  OBVIOUS
<1>2. /\ DOMAIN lists = DOMAIN archives
      /\ \A i \in DOMAIN archives : lists[i] = RowsOf(archives[i])
      /\ lists = [i \in 1 .. Len(archives) |-> lists[i]]
  BY <1>1 DEF RowLists
<1> HIDE DEF lists
<1>3. \A i \in DOMAIN lists :
         /\ lists[i] \in Seq(Quotes) /\ Sorted(lists[i], MinuteLength)
         /\ ToSet(lists[i]) = {RowFor(archives[i], n) : n \in NumbersOf(archives[i])}
  BY <1>1, <1>2, RowsOfArchive
<1>4. lists \in Seq(Seq(Quotes))
  <2>1. lists \in [1 .. Len(archives) -> Seq(Quotes)]
    BY <1>1, <1>2, <1>3
  <2> QED
    BY <1>1, <2>1
<1>5. ASSUME NEW i \in DOMAIN lists, NEW j \in DOMAIN lists, i < j,
             NEW a \in ToSet(lists[i]), NEW b \in ToSet(lists[j])
      PROVE  a.time + MinuteLength <= b.time
  <2>1. PICK m \in NumbersOf(archives[i]) : a = RowFor(archives[i], m)
    BY <1>3
  <2>2. PICK n \in NumbersOf(archives[j]) : b = RowFor(archives[j], n)
    BY <1>3
  <2>3. a.time = m * MinuteLength /\ b.time = n * MinuteLength
    BY <1>1, <1>2, <2>1, <2>2, RowForMinute
  <2>4. m < n /\ m \in Int /\ n \in Int
    <3>1. Apart(archives[i], archives[j])
      BY <1>2, <1>5 DEF AllApart
    <3> QED
      BY <1>1, <1>2, <3>1, NumbersApart DEF NumbersOf
  <2>5. MinuteLength \in Nat \ {0}
    BY DataAssumption
  <2>6. MinuteLength * m + MinuteLength <= MinuteLength * n
    BY <2>4, <2>5, MultiplesApart
  <2> QED
    BY <2>3, <2>4, <2>5, <2>6
<1>6. ListsSorted(lists, MinuteLength)
  BY <1>3, <1>5 DEF ListsSorted
<1>7. FlattenSeq(lists) \in Seq(Quotes) /\ Sorted(FlattenSeq(lists), MinuteLength)
      /\ ToSet(FlattenSeq(lists)) = UNION {ToSet(lists[i]) : i \in DOMAIN lists}
  BY <1>4, <1>6, JoinedSet, JoinedSorted
<1>8. UNION {ToSet(lists[i]) : i \in DOMAIN lists}
        = UNION {{RowFor(archive, n) : n \in NumbersOf(archive)} : archive \in ToSet(archives)}
  <2> DEFINE found(archive) == {RowFor(archive, n) : n \in NumbersOf(archive)}
  <2>1. \A i \in DOMAIN lists : ToSet(lists[i]) = found(archives[i])
    BY <1>3
  <2>2. ToSet(archives) = {archives[i] : i \in DOMAIN lists}
    BY <1>2 DEF ToSet
  <2> HIDE DEF found
  <2>3. UNION {ToSet(lists[i]) : i \in DOMAIN lists} = UNION {found(archives[i]) : i \in DOMAIN lists}
    BY <2>1
  <2>4. UNION {found(archives[i]) : i \in DOMAIN lists} = UNION {found(archive) : archive \in ToSet(archives)}
    BY <2>2
  <2> QED
    BY <2>3, <2>4 DEF found
<1> QED
  BY <1>7, <1>8 DEF lists

LEMMA FileInOrder ==
    ASSUME DirectoriesInOrder, NEW input \in Directories
    PROVE  /\ ReplayRows(input) \in Seq(Quotes) /\ Sorted(ReplayRows(input), MinuteLength)
           /\ ToSet(ReplayRows(input))
                = UNION {{RowFor(archive, n) : n \in NumbersOf(archive)} :
                           archive \in ToSet(ReplayArchives(input))}
<1>1. ReplayRows(input) = FlattenSeq(RowLists(ReplayArchives(input)))
  BY DEF ReplayRows, RowLists
<1> QED
  BY <1>1, ReplayArchivesInOrder, FileOfArchives

-----------------------------------------------------------------------------
(* The bars of an archive, and of all of them. *)

BarLists(archives) == [i \in DOMAIN archives |-> BarsOf(archives[i])]

LEMMA BucketsInOrder ==
    ASSUME NEW t \in Int, NEW u \in Int, t <= u, NEW n \in Nat \ {0}
    PROVE  /\ Bucket(t, n) \in Int /\ Bucket(u, n) \in Int /\ Bucket(t, n) <= Bucket(u, n)
<1> DEFINE q == t \div n
<1> DEFINE r == u \div n
<1>1. q \in Int /\ r \in Int /\ q <= r
  BY DividedBetween, DividedInOrder
<1>2. Bucket(t, n) = q * n /\ Bucket(u, n) = r * n
  BY DEF Bucket
<1> HIDE DEF q, r
<1>3. q < r => n * q + n <= n * r
  BY <1>1, MultiplesApart
<1>4. n * q \in Int /\ n * r \in Int /\ n * q = q * n /\ n * r = r * n
  BY <1>1
<1>5. q = r => n * q = n * r
  OBVIOUS
<1> DEFINE nq == n * q
<1> DEFINE nr == n * r
<1>6. nq \in Int /\ nr \in Int /\ (q < r => nq + n <= nr) /\ (q = r => nq = nr)
  BY <1>3, <1>4, <1>5
<1> HIDE DEF nq, nr
<1>7. nq <= nr
  BY <1>1, <1>6
<1> QED
  BY <1>2, <1>4, <1>6, <1>7 DEF nq, nr

LEMMA BarsInOrder ==
    ASSUME NEW archive \in Archives, ArchiveInOrder(archive)
    PROVE  Sorted(BarsOf(archive), 0)
<1> DEFINE list == archive.trades
<1> DEFINE bars == BarsOf(archive)
<1>1. /\ DOMAIN bars = DOMAIN list
      /\ \A i \in DOMAIN list : list[i] \in Trades /\ bars[i].time = Bucket(list[i].time, BarLength)
      /\ \A i, j \in DOMAIN list : i < j => list[i].time <= list[j].time
  BY BarsOfArchive DEF ArchiveInOrder
<1> HIDE DEF list, bars
<1>2. ASSUME NEW i \in DOMAIN bars, NEW j \in DOMAIN bars, i < j
      PROVE  bars[i].time + 0 <= bars[j].time
  <2>1. list[i].time \in Int /\ list[j].time \in Int /\ list[i].time <= list[j].time
    BY <1>1, <1>2 DEF Trades
  <2>2. BarLength \in Nat \ {0}
    BY DataAssumption
  <2>3. /\ bars[i].time \in Int /\ bars[j].time \in Int /\ bars[i].time <= bars[j].time
    BY <1>1, <1>2, <2>1, <2>2, BucketsInOrder
  <2> QED
    BY <2>3
<1>3. Sorted(bars, 0)
  BY <1>2 DEF Sorted
<1> QED
  BY <1>3 DEF bars

LEMMA NumberOfBar ==
    ASSUME NEW archive \in Archives, NEW bar \in ToSet(BarsOf(archive))
    PROVE  /\ bar \in MinuteRecords
           /\ \E trade \in ToSet(archive.trades) :
                 bar.time \div MinuteLength = trade.time \div MinuteLength
<1>1. PICK i \in DOMAIN archive.trades : bar = BarsOf(archive)[i]
  BY BarsOfArchive DEF ToSet
<1>2. bar.time \div MinuteLength = archive.trades[i].time \div MinuteLength
  BY <1>1, BarsOfArchive
<1>3. bar \in MinuteRecords
  BY <1>1, BarsOfArchive
<1> QED
  BY <1>2, <1>3 DEF ToSet

LEMMA BarsApart ==
    ASSUME NEW a \in Archives, NEW b \in Archives, Apart(a, b),
           NEW one \in ToSet(BarsOf(a)), NEW other \in ToSet(BarsOf(b))
    PROVE  /\ one.time \div MinuteLength < other.time \div MinuteLength
           /\ one.time + 0 <= other.time
<1>1. PICK s \in ToSet(a.trades) : one.time \div MinuteLength = s.time \div MinuteLength
  BY NumberOfBar
<1>2. PICK t \in ToSet(b.trades) : other.time \div MinuteLength = t.time \div MinuteLength
  BY NumberOfBar
<1>3. one.time \div MinuteLength < other.time \div MinuteLength
  BY <1>1, <1>2 DEF Apart
<1>4. one.time \in Int /\ other.time \in Int
  <2>1. one \in MinuteRecords /\ other \in MinuteRecords
    BY NumberOfBar
  <2> QED
    BY <2>1 DEF MinuteRecords
<1>5. one.time <= other.time
  <2>1. MinuteLength \in Nat \ {0}
    BY DataAssumption
  <2>2. ~(other.time <= one.time)
    <3> SUFFICES ASSUME other.time <= one.time PROVE FALSE
      OBVIOUS
    <3>1. other.time \div MinuteLength <= one.time \div MinuteLength
      BY <1>4, <2>1, DividedInOrder
    <3>2. other.time \div MinuteLength \in Int /\ one.time \div MinuteLength \in Int
      BY <1>4, <2>1, DividedBetween
    <3> DEFINE x == one.time \div MinuteLength
    <3> DEFINE y == other.time \div MinuteLength
    <3> HIDE DEF x, y
    <3>3. x \in Int /\ y \in Int /\ y <= x /\ x < y
      BY <1>3, <3>1, <3>2 DEF x, y
    <3> QED
      BY <3>3
  <2> QED
    BY <1>4, <2>2
<1> QED
  BY <1>3, <1>4, <1>5

LEMMA BarsOfArchives ==
    ASSUME NEW archives \in Seq(Archives), AllApart(archives),
           \A i \in DOMAIN archives : ArchiveInOrder(archives[i])
    PROVE  LET lists == BarLists(archives)
           IN  /\ lists \in Seq(Seq(MinuteRecords)) /\ DOMAIN lists = DOMAIN archives
               /\ FlattenSeq(lists) \in Seq(MinuteRecords) /\ Sorted(FlattenSeq(lists), 0)
               /\ ToSet(FlattenSeq(lists)) = UNION {ToSet(lists[i]) : i \in DOMAIN lists}
<1> DEFINE lists == BarLists(archives)
<1>1. /\ Len(archives) \in Nat /\ DOMAIN archives = 1 .. Len(archives)
      /\ \A i \in DOMAIN archives : archives[i] \in Archives
  OBVIOUS
<1>2. /\ DOMAIN lists = DOMAIN archives
      /\ \A i \in DOMAIN archives : lists[i] = BarsOf(archives[i])
      /\ lists = [i \in 1 .. Len(archives) |-> lists[i]]
  BY <1>1 DEF BarLists
<1> HIDE DEF lists
<1>3. \A i \in DOMAIN lists : lists[i] \in Seq(MinuteRecords) /\ Sorted(lists[i], 0)
  BY <1>1, <1>2, BarsOfArchive, BarsInOrder
<1>4. lists \in Seq(Seq(MinuteRecords))
  <2>1. lists \in [1 .. Len(archives) -> Seq(MinuteRecords)]
    BY <1>1, <1>2, <1>3
  <2> QED
    BY <1>1, <2>1
<1>5. ASSUME NEW i \in DOMAIN lists, NEW j \in DOMAIN lists, i < j,
             NEW a \in ToSet(lists[i]), NEW b \in ToSet(lists[j])
      PROVE  a.time + 0 <= b.time
  <2>1. Apart(archives[i], archives[j])
    BY <1>2, <1>5 DEF AllApart
  <2> QED
    BY <1>1, <1>2, <1>5, <2>1, BarsApart
<1>6. ListsSorted(lists, 0)
  BY <1>3, <1>5 DEF ListsSorted
<1>7. FlattenSeq(lists) \in Seq(MinuteRecords) /\ Sorted(FlattenSeq(lists), 0)
      /\ ToSet(FlattenSeq(lists)) = UNION {ToSet(lists[i]) : i \in DOMAIN lists}
  BY <1>4, <1>6, JoinedSet, JoinedSorted
<1> QED
  BY <1>2, <1>4, <1>7 DEF lists

-----------------------------------------------------------------------------
(* Bars by the minute. *)

Retimed(bars) == [i \in DOMAIN bars |-> InMinute(bars[i])]

LEMMA RetimedBar ==
    ASSUME NEW bar \in MinuteRecords
    PROVE  /\ InMinute(bar) \in MinuteRecords
           /\ InMinute(bar).time = Bucket(bar.time, MinuteLength)
           /\ InMinute(bar).close = bar.close
           /\ \A kind : Amount(InMinute(bar), kind) = Amount(bar, kind)
<1> DEFINE time == Bucket(bar.time, MinuteLength)
<1>1. bar.time \in Int /\ MinuteLength \in Nat \ {0}
  BY DataAssumption DEF MinuteRecords
<1>2. time \in Int
  BY <1>1, BucketsInOrder
<1>3. InMinute(bar) = [bar EXCEPT !.time = time]
  BY DEF InMinute
<1> HIDE DEF time
<1>4. /\ InMinute(bar) \in MinuteRecords /\ InMinute(bar).time = time
      /\ InMinute(bar).close = bar.close
      /\ InMinute(bar).buy = bar.buy /\ InMinute(bar).sell = bar.sell
  BY <1>2, <1>3 DEF MinuteRecords
<1> QED
  BY <1>4 DEF Amount, time

LEMMA RetimedBars ==
    ASSUME NEW bars \in Seq(MinuteRecords), Sorted(bars, 0)
    PROVE  /\ Retimed(bars) \in Seq(MinuteRecords) /\ Sorted(Retimed(bars), 0)
           /\ TimesOf(Retimed(bars)) = {Bucket(t, MinuteLength) : t \in TimesOf(bars)}
           /\ \A minute, kind :
                 Flow(Retimed(bars), {minute}, kind) = Flow(bars, SpanOf(minute), kind)
           /\ \A minute, price :
                 Closes(bars, SpanOf(minute), price) => Closes(Retimed(bars), {minute}, price)
<1> DEFINE list == Retimed(bars)
<1>1. /\ Len(bars) \in Nat /\ DOMAIN bars = 1 .. Len(bars)
      /\ \A i \in DOMAIN bars : bars[i] \in MinuteRecords /\ bars[i].time \in Int
  <2>1. \A record \in MinuteRecords : record.time \in Int
    BY DEF MinuteRecords
  <2> QED
    BY <2>1
<1>2. DOMAIN list = DOMAIN bars /\ \A i \in DOMAIN bars : list[i] = InMinute(bars[i])
  BY DEF Retimed
<1> HIDE DEF list
<1>3. \A i \in DOMAIN bars :
         /\ list[i] \in MinuteRecords /\ list[i].time = Bucket(bars[i].time, MinuteLength)
         /\ list[i].close = bars[i].close
         /\ \A kind : Amount(list[i], kind) = Amount(bars[i], kind)
  BY <1>1, <1>2, RetimedBar
<1>4. list \in Seq(MinuteRecords)
  <2>1. \A i \in DOMAIN bars : InMinute(bars[i]) \in MinuteRecords
    BY <1>1, RetimedBar
  <2>2. list \in [DOMAIN bars -> MinuteRecords]
    BY <2>1 DEF list, Retimed
  <2>3. list \in [1 .. Len(bars) -> MinuteRecords]
    BY <1>1, <2>2
  <2> QED
    BY <1>1, <2>3
<1>5. Sorted(list, 0)
  <2>1. MinuteLength \in Nat \ {0}
    BY DataAssumption
  <2>2. ASSUME NEW i \in DOMAIN list, NEW j \in DOMAIN list, i < j
        PROVE  list[i].time + 0 <= list[j].time
    <3>1. bars[i].time <= bars[j].time /\ bars[i].time \in Int /\ bars[j].time \in Int
      <4>1. bars[i].time + 0 <= bars[j].time
        BY <1>2, <2>2 DEF Sorted
      <4> QED
        BY <1>1, <1>2, <4>1
    <3>2. list[i].time \in Int /\ list[j].time \in Int /\ list[i].time <= list[j].time
      BY <1>2, <1>3, <2>1, <2>2, <3>1, BucketsInOrder
    <3> QED
      BY <3>2
  <2> QED
    BY <2>2 DEF Sorted
<1>6. TimesOf(list) = {Bucket(t, MinuteLength) : t \in TimesOf(bars)}
  BY <1>2, <1>3 DEF TimesOf
<1>7. ASSUME NEW minute PROVE At(list, {minute}) = At(bars, SpanOf(minute))
  BY <1>1, <1>2, <1>3 DEF At, SpanOf
<1>8. ASSUME NEW minute, NEW kind
      PROVE  Flow(list, {minute}, kind) = Flow(bars, SpanOf(minute), kind)
  <2> DEFINE c == At(bars, SpanOf(minute))
  <2> DEFINE f == Amounts(list, kind)
  <2> DEFINE g == Amounts(bars, kind)
  <2>1. c \in SUBSET (DOMAIN bars) /\ \A i \in c : f[i] = g[i]
    BY <1>2, <1>3 DEF At, Amounts
  <2>2. IsFiniteSet(c)
    BY <2>1, FinitePart
  <2>3. Flow(list, {minute}, kind) = SumFunctionOnSet(f, c)
    BY <1>7 DEF Flow
  <2>4. Flow(bars, SpanOf(minute), kind) = SumFunctionOnSet(g, c)
    BY DEF Flow
  <2> HIDE DEF c, f, g
  <2> QED
    BY <2>1, <2>2, <2>3, <2>4, SumReads
<1>9. ASSUME NEW minute, NEW price, Closes(bars, SpanOf(minute), price)
      PROVE  Closes(list, {minute}, price)
  <2>1. \A i \in DOMAIN bars : bars[i].time \in SpanOf(minute) <=> list[i].time \in {minute}
    BY <1>1, <1>3 DEF SpanOf
  <2> QED
    BY <1>2, <1>3, <1>9, <2>1 DEF Closes
<1> QED
  BY <1>4, <1>5, <1>6, <1>8, <1>9 DEF list

(* What a record of a time has, where there is no other of that time. *)
LEMMA OneRecord ==
    ASSUME NEW list \in Seq(MinuteRecords), Sorted(list, 1), NEW i \in DOMAIN list
    PROVE  /\ \A kind : Flow(list, {list[i].time}, kind) = Amount(list[i], kind)
           /\ \A price : Closes(list, {list[i].time}, price) => list[i].close = price
<1>1. /\ Len(list) \in Nat /\ DOMAIN list = 1 .. Len(list)
      /\ \A j \in DOMAIN list : list[j] \in MinuteRecords /\ list[j].time \in Int
  <2>1. \A record \in MinuteRecords : record.time \in Int
    BY DEF MinuteRecords
  <2> QED
    BY <2>1
<1>2. \A j \in DOMAIN list : list[j].time = list[i].time => j = i
  <2> TAKE j \in DOMAIN list
  <2>1. j = i \/ j < i \/ i < j
    BY <1>1
  <2>2. /\ j < i => list[j].time + 1 <= list[i].time
        /\ i < j => list[i].time + 1 <= list[j].time
    BY DEF Sorted
  <2>3. list[i].time \in Int /\ list[j].time \in Int
    BY <1>1
  <2> QED
    BY <2>1, <2>2, <2>3
<1>3. At(list, {list[i].time}) = {i}
  BY <1>2 DEF At
<1>4. ASSUME NEW kind PROVE Flow(list, {list[i].time}, kind) = Amount(list[i], kind)
  <2> DEFINE f == Amounts(list, kind)
  <2>1. f[i] = Amount(list[i], kind) /\ f[i] \in Int
    BY <1>1, AmountIsInt DEF Amounts
  <2>2. Flow(list, {list[i].time}, kind) = SumFunctionOnSet(f, {i})
    BY <1>3 DEF Flow
  <2> HIDE DEF f
  <2>3. IsFiniteSet({}) /\ i \notin {} /\ \A y \in {} \cup {i} : f[y] \in Int
    BY <2>1, FS_EmptySet
  <2>4. SumFunctionOnSet(f, {} \cup {i}) = SumFunctionOnSet(f, {}) + f[i]
    BY <2>3, SumAdds
  <2>5. SumFunctionOnSet(f, {}) = 0 /\ {} \cup {i} = {i}
    BY SumOfNothing
  <2>6. SumFunctionOnSet(f, {i}) = 0 + f[i]
    BY <2>4, <2>5
  <2> QED
    BY <2>1, <2>2, <2>6
<1>5. ASSUME NEW price, Closes(list, {list[i].time}, price) PROVE list[i].close = price
  BY <1>2, <1>5 DEF Closes
<1> QED
  BY <1>4, <1>5

-----------------------------------------------------------------------------
(* The minutes of a directory. *)

(* All bars of five seconds, before those of one time are merged. *)
BarsJoined(input) == FlattenSeq(BarLists(BarArchives(input)))

LEMMA ArchivesOfBars ==
    ASSUME DirectoriesInOrder, NEW input \in Directories
    PROVE  LET archives == BarArchives(input)
               lists == BarLists(archives)
           IN  /\ archives \in Seq(Archives) /\ AllApart(archives) /\ DOMAIN lists = DOMAIN archives
               /\ \A i \in DOMAIN archives : archives[i] \in Archives /\ lists[i] = BarsOf(archives[i])
               /\ lists \in Seq(Seq(MinuteRecords))
               /\ BarsJoined(input) \in Seq(MinuteRecords) /\ Sorted(BarsJoined(input), 0)
               /\ ToSet(BarsJoined(input)) = UNION {ToSet(lists[i]) : i \in DOMAIN lists}
<1> DEFINE archives == BarArchives(input)
<1> DEFINE lists == BarLists(archives)
<1>1. /\ archives \in Seq(Archives) /\ AllApart(archives)
      /\ ToSet(archives) = {input[i] : i \in Counted(input)}
  BY BarArchivesInOrder
<1>2. \A i \in DOMAIN archives : lists[i] = BarsOf(archives[i])
  BY DEF BarLists
<1>3. BarsJoined(input) = FlattenSeq(lists)
  BY DEF BarsJoined
<1> HIDE DEF archives
<1>4. \A i \in DOMAIN archives : ArchiveInOrder(archives[i])
  <2> TAKE i \in DOMAIN archives
  <2>1. archives[i] \in ToSet(archives)
    BY DEF ToSet
  <2>2. PICK j \in Counted(input) : archives[i] = input[j]
    BY <1>1, <2>1
  <2> QED
    BY <2>2, DirectoryInOrder
<1>5. \A i \in DOMAIN archives : archives[i] \in Archives
  BY <1>1
<1>6. /\ lists \in Seq(Seq(MinuteRecords)) /\ DOMAIN lists = DOMAIN archives
      /\ FlattenSeq(lists) \in Seq(MinuteRecords) /\ Sorted(FlattenSeq(lists), 0)
      /\ ToSet(FlattenSeq(lists)) = UNION {ToSet(lists[i]) : i \in DOMAIN lists}
  BY <1>1, <1>4, BarsOfArchives
<1> HIDE DEF lists
<1> QED
  BY <1>1, <1>2, <1>3, <1>5, <1>6 DEF archives, lists

LEMMA BarsMerged ==
    ASSUME DirectoriesInOrder, NEW input \in Directories
    PROVE  LET bars == Bars(input)
               joined == BarsJoined(input)
           IN  /\ bars \in Seq(MinuteRecords) /\ Sorted(bars, 1) /\ Sorted(bars, 0)
               /\ TimesOf(bars) = TimesOf(joined)
               /\ \A S, kind : Flow(bars, S, kind) = Flow(joined, S, kind)
               /\ \A S, price : Closes(joined, S, price) => Closes(bars, S, price)
<1> DEFINE bars == Bars(input)
<1> DEFINE joined == BarsJoined(input)
<1>1. joined \in Seq(MinuteRecords) /\ Sorted(joined, 0)
  BY ArchivesOfBars
<1>2. bars = FoldLeft(Merged, <<>>, joined)
  BY DEF Bars, BarsJoined, BarLists
<1> HIDE DEF bars, joined
<1>3. /\ bars \in Seq(MinuteRecords)
      /\ \A S, kind : Flow(bars, S, kind) = Flow(joined, S, kind)
      /\ \A S, price : Closes(joined, S, price) => Closes(bars, S, price)
      /\ TimesOf(bars) = TimesOf(joined)
  BY <1>1, <1>2, GroupsKeep
<1>4. Sorted(bars, 1)
  BY <1>1, <1>2, GroupsSorted
<1>5. Sorted(bars, 0)
  <2>1. \A record \in MinuteRecords : record.time \in Int
    BY DEF MinuteRecords
  <2>2. \A i \in DOMAIN bars : bars[i].time \in Int
    BY <1>3, <2>1
  <2> QED
    BY <1>4, <2>2 DEF Sorted
<1> QED
  BY <1>3, <1>4, <1>5 DEF bars, joined

LEMMA MinutesMerged ==
    ASSUME DirectoriesInOrder, NEW input \in Directories
    PROVE  LET minutes == MinutesOfBars(input)
               joined == BarsJoined(input)
           IN  /\ minutes \in Seq(MinuteRecords) /\ Sorted(minutes, 1)
               /\ TimesOf(minutes) = {Bucket(t, MinuteLength) : t \in TimesOf(joined)}
               /\ \A minute, kind :
                     Flow(minutes, {minute}, kind) = Flow(joined, SpanOf(minute), kind)
               /\ \A minute, price :
                     Closes(joined, SpanOf(minute), price) => Closes(minutes, {minute}, price)
<1> DEFINE bars == Bars(input)
<1> DEFINE joined == BarsJoined(input)
<1> DEFINE minutes == MinutesOfBars(input)
<1>1. /\ bars \in Seq(MinuteRecords) /\ Sorted(bars, 0) /\ TimesOf(bars) = TimesOf(joined)
      /\ \A S, kind : Flow(bars, S, kind) = Flow(joined, S, kind)
      /\ \A S, price : Closes(joined, S, price) => Closes(bars, S, price)
  BY BarsMerged
<1>2. minutes = FoldLeft(Merged, <<>>, Retimed(bars))
  BY DEF MinutesOfBars, Retimed
<1> HIDE DEF bars, joined, minutes
<1> DEFINE list == Retimed(bars)
<1>3. /\ list \in Seq(MinuteRecords) /\ Sorted(list, 0)
      /\ TimesOf(list) = {Bucket(t, MinuteLength) : t \in TimesOf(bars)}
      /\ \A minute, kind : Flow(list, {minute}, kind) = Flow(bars, SpanOf(minute), kind)
      /\ \A minute, price :
            Closes(bars, SpanOf(minute), price) => Closes(list, {minute}, price)
  BY <1>1, RetimedBars
<1>4. minutes = FoldLeft(Merged, <<>>, list)
  BY <1>2
<1> HIDE DEF list
<1>5. /\ minutes \in Seq(MinuteRecords)
      /\ \A S, kind : Flow(minutes, S, kind) = Flow(list, S, kind)
      /\ \A S, price : Closes(list, S, price) => Closes(minutes, S, price)
      /\ TimesOf(minutes) = TimesOf(list)
  BY <1>3, <1>4, GroupsKeep
<1>6. Sorted(minutes, 1)
  BY <1>3, <1>4, GroupsSorted
<1>7. TimesOf(minutes) = {Bucket(t, MinuteLength) : t \in TimesOf(joined)}
  BY <1>1, <1>3, <1>5
<1>8. ASSUME NEW minute, NEW kind
      PROVE  Flow(minutes, {minute}, kind) = Flow(joined, SpanOf(minute), kind)
  <2>1. Flow(minutes, {minute}, kind) = Flow(list, {minute}, kind)
    BY <1>5
  <2>2. Flow(list, {minute}, kind) = Flow(bars, SpanOf(minute), kind)
    BY <1>3
  <2>3. Flow(bars, SpanOf(minute), kind) = Flow(joined, SpanOf(minute), kind)
    BY <1>1
  <2> QED
    BY <2>1, <2>2, <2>3
<1>9. \A minute, price :
         Closes(joined, SpanOf(minute), price) => Closes(minutes, {minute}, price)
  BY <1>1, <1>3, <1>5
<1> QED
  BY <1>5, <1>6, <1>7, <1>8, <1>9 DEF joined, minutes

(* The minutes are those that have trades. *)
HasTrade(archive, n) == \E trade \in ToSet(archive.trades) : trade.time \div MinuteLength = n

LEMMA TimesOfMinutes ==
    ASSUME DirectoriesInOrder, NEW input \in Directories
    PROVE  TimesOf(MinutesOfBars(input))
             = {n * MinuteLength : n \in {k \in Int : \E archive \in ToSet(BarArchives(input)) :
                                                        HasTrade(archive, k)}}
<1> DEFINE archives == BarArchives(input)
<1> DEFINE lists == BarLists(archives)
<1> DEFINE joined == BarsJoined(input)
<1> DEFINE numbers == {k \in Int : \E archive \in ToSet(archives) : HasTrade(archive, k)}
<1>1. /\ DOMAIN lists = DOMAIN archives
      /\ \A i \in DOMAIN archives : archives[i] \in Archives /\ lists[i] = BarsOf(archives[i])
      /\ ToSet(joined) = UNION {ToSet(lists[i]) : i \in DOMAIN lists}
  BY ArchivesOfBars
<1>2. TimesOf(MinutesOfBars(input)) = {Bucket(t, MinuteLength) : t \in TimesOf(joined)}
  BY MinutesMerged
<1>3. TimesOf(joined) = {bar.time : bar \in ToSet(joined)}
  BY DEF TimesOf, ToSet
<1>4. MinuteLength \in Nat \ {0}
  BY DataAssumption
<1> HIDE DEF archives, lists, joined
<1>5. ASSUME NEW bar \in ToSet(joined)
      PROVE  \E n \in numbers : Bucket(bar.time, MinuteLength) = n * MinuteLength
  <2>1. PICK i \in DOMAIN archives : bar \in ToSet(BarsOf(archives[i]))
    BY <1>1
  <2>2. PICK trade \in ToSet(archives[i].trades) :
           bar.time \div MinuteLength = trade.time \div MinuteLength
    BY <1>1, <2>1, NumberOfBar
  <2>3. trade.time \in Int
    <3>1. trade \in Trades
      BY <1>1, BarsOfArchive DEF ToSet
    <3> QED
      BY <3>1 DEF Trades
  <2> DEFINE n == trade.time \div MinuteLength
  <2>4. n \in Int
    BY <1>4, <2>3, DividedBetween
  <2>5. HasTrade(archives[i], n) /\ archives[i] \in ToSet(archives)
    BY DEF HasTrade, ToSet
  <2>6. Bucket(bar.time, MinuteLength) = n * MinuteLength
    BY <2>2 DEF Bucket
  <2> HIDE DEF n
  <2> QED
    BY <2>4, <2>5, <2>6
<1>6. ASSUME NEW n \in numbers
      PROVE  \E bar \in ToSet(joined) : Bucket(bar.time, MinuteLength) = n * MinuteLength
  <2>1. PICK i \in DOMAIN archives : HasTrade(archives[i], n)
    BY DEF ToSet
  <2>2. PICK k \in DOMAIN archives[i].trades : archives[i].trades[k].time \div MinuteLength = n
    BY <2>1 DEF HasTrade, ToSet
  <2> DEFINE bar == BarsOf(archives[i])[k]
  <2>3. bar.time \div MinuteLength = n /\ bar \in ToSet(BarsOf(archives[i]))
    BY <1>1, <2>2, BarsOfArchive DEF ToSet
  <2> HIDE DEF bar
  <2>4. bar \in ToSet(joined)
    BY <1>1, <2>3
  <2> QED
    BY <2>3, <2>4 DEF Bucket
<1> HIDE DEF numbers
<1>7. {Bucket(t, MinuteLength) : t \in TimesOf(joined)} = {n * MinuteLength : n \in numbers}
  BY <1>3, <1>5, <1>6
<1> QED
  BY <1>2, <1>7 DEF archives, numbers

LEMMA MinutesApart ==
    ASSUME DirectoriesInOrder, NEW input \in Directories
    PROVE  Sorted(MinutesOfBars(input), MinuteLength)
<1> DEFINE minutes == MinutesOfBars(input)
<1>1. Sorted(minutes, 1)
  BY MinutesMerged
<1>2. \A i \in DOMAIN minutes : \E n \in Int : minutes[i].time = n * MinuteLength
  <2> TAKE i \in DOMAIN minutes
  <2>1. minutes[i].time \in TimesOf(minutes)
    BY DEF TimesOf
  <2> QED
    BY <2>1, TimesOfMinutes
<1>3. MinuteLength \in Nat \ {0}
  BY DataAssumption
<1> HIDE DEF minutes
<1>4. ASSUME NEW i \in DOMAIN minutes, NEW j \in DOMAIN minutes, i < j
      PROVE  minutes[i].time + MinuteLength <= minutes[j].time
  <2>1. minutes[i].time + 1 <= minutes[j].time
    BY <1>1, <1>4 DEF Sorted
  <2>2. PICK m \in Int : minutes[i].time = m * MinuteLength
    BY <1>2
  <2>3. PICK n \in Int : minutes[j].time = n * MinuteLength
    BY <1>2
  <2>4. m * MinuteLength = MinuteLength * m /\ n * MinuteLength = MinuteLength * n
        /\ MinuteLength * m \in Int /\ MinuteLength * n \in Int
    BY <1>3
  <2>5. ~(n < m) /\ ~(n = m)
    <3>1. n < m => MinuteLength * n + MinuteLength <= MinuteLength * m
      BY <1>3, MultiplesApart
    <3>2. ~(n = m)
      BY <2>1, <2>2, <2>3, <2>4
    <3> DEFINE a == MinuteLength * m
    <3> DEFINE b == MinuteLength * n
    <3>3. a \in Int /\ b \in Int /\ a + 1 <= b /\ (n < m => b + MinuteLength <= a)
      BY <2>1, <2>2, <2>3, <2>4, <3>1
    <3> HIDE DEF a, b
    <3> QED
      BY <1>3, <3>2, <3>3
  <2>6. MinuteLength * m + MinuteLength <= MinuteLength * n
    BY <1>3, <2>5, MultiplesApart
  <2> QED
    BY <2>2, <2>3, <2>4, <2>6
<1>5. Sorted(minutes, MinuteLength)
  BY <1>4 DEF Sorted
<1> QED
  BY <1>5 DEF minutes

(* A minute that the file has all trades of is the same in both. *)
LEMMA MinuteFromArchive ==
    ASSUME DirectoriesInOrder, NEW input \in Directories,
           NEW archive \in ToSet(BarArchives(input)), NEW n \in NumbersOf(archive),
           NEW i \in DOMAIN MinutesOfBars(input), MinutesOfBars(input)[i].time = n * MinuteLength,
           \A k \in DOMAIN archive.trades :
              archive.trades[k].time \div MinuteLength = n => InFile(archive.trades[k].time)
    PROVE  RowOf(MinutesOfBars(input)[i]) = RowFor(archive, n)
<1> DEFINE archives == BarArchives(input)
<1> DEFINE lists == BarLists(archives)
<1> DEFINE joined == BarsJoined(input)
<1> DEFINE minutes == MinutesOfBars(input)
<1> DEFINE span == SpanOf(n * MinuteLength)
<1> DEFINE minute == MinuteOf(archive, n)
<1>1. /\ AllApart(archives) /\ DOMAIN lists = DOMAIN archives
      /\ DOMAIN archives = 1 .. Len(archives) /\ Len(archives) \in Nat
      /\ \A k \in DOMAIN archives : archives[k] \in Archives /\ lists[k] = BarsOf(archives[k])
      /\ lists \in Seq(Seq(MinuteRecords))
      /\ joined = FlattenSeq(lists)
  BY ArchivesOfBars DEF BarsJoined
<1>2. /\ minutes \in Seq(MinuteRecords) /\ Sorted(minutes, 1)
      /\ \A time, kind : Flow(minutes, {time}, kind) = Flow(joined, SpanOf(time), kind)
      /\ \A time, price : Closes(joined, SpanOf(time), price) => Closes(minutes, {time}, price)
  BY MinutesMerged
<1> HIDE DEF archives, lists, joined, minutes, span, minute
<1>3. PICK at \in DOMAIN archives : archives[at] = archive
  BY DEF ToSet, archives
<1>4. archive \in Archives /\ TradesOfMinute(archive, n) # {} /\ n \in Int
  BY <1>1, <1>3 DEF NumbersOf
<1>5. /\ minute.buy = Flow(BarsOf(archive), span, "buy")
      /\ minute.sell = Flow(BarsOf(archive), span, "sell")
      /\ Closes(BarsOf(archive), span, minute.close)
  BY <1>4, MinuteOfBars DEF minute, span
<1>6. OnlyIn(lists, at, span)
  <2>1. ASSUME NEW k \in DOMAIN lists, k # at, NEW bar \in ToSet(lists[k]) PROVE bar.time \notin span
    <3>1. bar \in ToSet(BarsOf(archives[k])) /\ archives[k] \in Archives
      BY <1>1, <2>1
    <3>2. bar.time \in Int
      BY <3>1, NumberOfBar DEF MinuteRecords
    <3>3. PICK b \in ToSet(archives[k].trades) : bar.time \div MinuteLength = b.time \div MinuteLength
      BY <3>1, NumberOfBar
    <3>4. PICK a \in ToSet(archive.trades) : a.time \div MinuteLength = n
      BY <1>4 DEF TradesOfMinute, ToSet
    <3>5. k < at \/ at < k
      BY <1>1, <1>3, <2>1
    <3>6. b.time \div MinuteLength < n \/ n < b.time \div MinuteLength
      BY <1>1, <1>3, <2>1, <3>3, <3>4, <3>5 DEF AllApart, Apart
    <3>7. b.time \div MinuteLength # n
      BY <1>4, <3>6
    <3> QED
      BY <1>4, <3>2, <3>3, <3>7, SpanOfNumber DEF span
  <2> QED
    BY <2>1 DEF OnlyIn
<1>7. /\ \A kind : Flow(joined, span, kind) = Flow(BarsOf(archive), span, kind)
      /\ \A price : Closes(BarsOf(archive), span, price) => Closes(joined, span, price)
  <2>1. at \in DOMAIN lists /\ lists[at] = BarsOf(archive)
    BY <1>1, <1>3
  <2> QED
    BY <1>1, <1>6, <2>1, JoinedOnly
<1>8. /\ \A kind : Flow(minutes, {minutes[i].time}, kind) = Amount(minutes[i], kind)
      /\ \A price : Closes(minutes, {minutes[i].time}, price) => minutes[i].close = price
  BY <1>2, OneRecord DEF minutes
<1>9. minutes[i].time = n * MinuteLength
  BY DEF minutes
<1>10. /\ \A kind : Amount(minutes[i], kind) = Flow(BarsOf(archive), span, kind)
       /\ minutes[i].close = minute.close
  BY <1>2, <1>5, <1>7, <1>8, <1>9 DEF span
<1>11. minutes[i].buy = minute.buy /\ minutes[i].sell = minute.sell
  <2>1. Amount(minutes[i], "buy") = minutes[i].buy /\ Amount(minutes[i], "sell") = minutes[i].sell
    BY DEF Amount
  <2> QED
    BY <1>5, <1>10, <2>1
<1>12. minute.time = n * MinuteLength
  BY DEF minute, MinuteOf
<1>13. RowOf(minutes[i]) = RowOf(minute)
  BY <1>9, <1>10, <1>11, <1>12 DEF RowOf, Imbalance
<1> QED
  BY <1>13 DEF minutes, minute, RowFor

-----------------------------------------------------------------------------
(* The minutes and the rows. *)

LEMMA WholeMinuteInFile ==
    ASSUME NEW n \in Int, WholeMinute(n * MinuteLength), NEW t \in Int, t \div MinuteLength = n
    PROVE  InFile(t)
<1>1. MinuteLength \in Nat \ {0} /\ StartTime \in Int /\ EndTime \in Int
  BY DataAssumption
<1>2. MinuteLength * n <= t /\ t < MinuteLength * n + MinuteLength
  BY <1>1, DividedBetween
<1> DEFINE time == MinuteLength * n
<1>3. n * MinuteLength = time /\ time \in Int
  BY <1>1
<1>4. StartTime <= time /\ time + MinuteLength - 1 <= EndTime
  BY <1>3 DEF WholeMinute
<1>5. time <= t /\ t < time + MinuteLength
  BY <1>2
<1> HIDE DEF time
<1> QED
  BY <1>1, <1>3, <1>4, <1>5 DEF InFile

(* Every row is from an archive that the bars are from. *)
LEMMA RowFromArchive ==
    ASSUME DirectoriesInOrder, NEW input \in Directories, NEW j \in DOMAIN ReplayRows(input)
    PROVE  \E archive \in ToSet(BarArchives(input)) : \E n \in NumbersOf(archive) :
              /\ archive \in Archives /\ ReplayRows(input)[j] = RowFor(archive, n)
              /\ HasTrade(archive, n)
<1>1. ReplayRows(input)[j] \in ToSet(ReplayRows(input))
  BY DEF ToSet
<1>2. PICK archive \in ToSet(ReplayArchives(input)) :
         \E n \in NumbersOf(archive) : ReplayRows(input)[j] = RowFor(archive, n)
  BY <1>1, FileInOrder
<1>3. PICK n \in NumbersOf(archive) : ReplayRows(input)[j] = RowFor(archive, n)
  BY <1>2
<1>4. PICK i \in Counted(input) : archive = input[i]
  BY <1>2, ReplayArchivesInOrder
<1>5. archive \in ToSet(BarArchives(input)) /\ archive \in Archives
  BY <1>4, BarArchivesInOrder, DirectoryInOrder
<1>6. HasTrade(archive, n)
  BY DEF HasTrade, NumbersOf, TradesOfMinute, ToSet
<1> QED
  BY <1>3, <1>5, <1>6

LEMMA RowsHaveMinutes ==
    ASSUME DirectoriesInOrder, NEW input \in Directories
    PROVE  \A j \in DOMAIN ReplayRows(input) :
              /\ \E i \in DOMAIN MinutesOfBars(input) :
                    MinutesOfBars(input)[i].time = ReplayRows(input)[j].time
              /\ StartTime <= ReplayRows(input)[j].time /\ ReplayRows(input)[j].time <= EndTime
              /\ TwoSided(ReplayRows(input)[j])
<1> TAKE j \in DOMAIN ReplayRows(input)
<1>1. PICK archive \in ToSet(BarArchives(input)) : \E n \in NumbersOf(archive) :
         /\ archive \in Archives /\ ReplayRows(input)[j] = RowFor(archive, n)
         /\ HasTrade(archive, n)
  BY RowFromArchive
<1>2. PICK n \in NumbersOf(archive) :
         /\ archive \in Archives /\ ReplayRows(input)[j] = RowFor(archive, n)
         /\ HasTrade(archive, n)
  BY <1>1
<1>3. /\ ReplayRows(input)[j].time = n * MinuteLength /\ TwoSided(ReplayRows(input)[j])
      /\ StartTime <= n * MinuteLength /\ n * MinuteLength <= EndTime
  BY <1>2, RowForMinute, NumberInFile
<1>4. n * MinuteLength \in TimesOf(MinutesOfBars(input))
  BY <1>2, TimesOfMinutes DEF NumbersOf
<1> QED
  BY <1>3, <1>4 DEF TimesOf

LEMMA MinutesHaveRows ==
    ASSUME DirectoriesInOrder, NEW input \in Directories, NEW i \in DOMAIN MinutesOfBars(input),
           WholeMinute(MinutesOfBars(input)[i].time)
    PROVE  \E j \in DOMAIN ReplayRows(input) :
              /\ ReplayRows(input)[j] = RowOf(MinutesOfBars(input)[i])
              /\ ReplayRows(input)[j].time = MinutesOfBars(input)[i].time
<1> DEFINE minute == MinutesOfBars(input)[i]
<1>1. minute.time \in TimesOf(MinutesOfBars(input))
  BY DEF TimesOf
<1>2. PICK n \in Int : /\ minute.time = n * MinuteLength
                       /\ \E archive \in ToSet(BarArchives(input)) : HasTrade(archive, n)
  BY <1>1, TimesOfMinutes
<1>3. PICK archive \in ToSet(BarArchives(input)) : HasTrade(archive, n)
  BY <1>2
<1>4. PICK at \in Counted(input) : archive = input[at]
  BY BarArchivesInOrder
<1>5. archive \in Archives
  BY <1>4, DirectoryInOrder
<1>6. \A k \in DOMAIN archive.trades : archive.trades[k].time \in Int
  <2>1. \A trade \in Trades : trade.time \in Int
    BY DEF Trades
  <2> QED
    BY <1>5, <2>1, BarsOfArchive
<1>7. \A k \in DOMAIN archive.trades :
         archive.trades[k].time \div MinuteLength = n => InFile(archive.trades[k].time)
  BY <1>2, <1>6, WholeMinuteInFile
<1>8. PICK k \in DOMAIN archive.trades :
         archive.trades[k].time \div MinuteLength = n
  BY <1>3 DEF HasTrade, ToSet
<1>9. n \in NumbersOf(archive)
  BY <1>7, <1>8 DEF NumbersOf, TradesOfMinute
<1>10. input[at].month \in WantedMonths
  <2>1. archive.trades[k] \in ToSet(archive.trades) /\ InFile(archive.trades[k].time)
    BY <1>7, <1>8 DEF ToSet
  <2> QED
    BY <1>4, <2>1 DEF DirectoriesInOrder, ArchivesInOrder
<1>11. archive \in ToSet(ReplayArchives(input))
  BY <1>4, <1>10, ReplayArchivesInOrder
<1>12. RowFor(archive, n) \in ToSet(ReplayRows(input))
  BY <1>9, <1>11, FileInOrder
<1>13. RowOf(minute) = RowFor(archive, n)
  BY <1>2, <1>7, <1>9, MinuteFromArchive
<1>14. RowOf(minute).time = minute.time
  BY DEF RowOf
<1> QED
  BY <1>12, <1>13, <1>14 DEF ToSet

-----------------------------------------------------------------------------
(* Trades are counted once. *)

Worth(trade) == trade.price * trade.quantity

LEMMA FlowOfTrades ==
    ASSUME NEW archive \in Archives, ArchiveInOrder(archive)
    PROVE  LET trades == ToSet(archive.trades)
           IN  /\ IsFiniteSet(trades)
               /\ Flow(BarsOf(archive), Int, "both") = SumFunctionOnSet([t \in Trades |-> Worth(t)], trades)
<1> DEFINE list == archive.trades
<1> DEFINE bars == BarsOf(archive)
<1> DEFINE S == DOMAIN list
<1> DEFINE f == Amounts(bars, "both")
<1> DEFINE g == [t \in Trades |-> Worth(t)]
<1>1. /\ list \in Seq(Trades) /\ DOMAIN bars = S /\ bars \in Seq(MinuteRecords)
      /\ \A i \in S : list[i] \in Trades /\ bars[i] = BarOf(list[i])
  BY BarsOfArchive
<1>2. \A i, j \in S : i < j => list[i].id # list[j].id
  BY DEF ArchiveInOrder
<1>3. S = 1 .. Len(list) /\ Len(list) \in Nat
  BY <1>1
<1> HIDE DEF list, bars, S
<1>4. IsFiniteSet(S)
  BY <1>3, FS_Interval
<1>5. \A i \in S : /\ bars[i] \in MinuteRecords /\ bars[i].time \in Int
                   /\ f[i] \in Int /\ g[list[i]] = f[i]
  <2> TAKE i \in S
  <2>1. bars[i] \in MinuteRecords
    BY <1>1
  <2>2. bars[i].time \in Int
    BY <2>1 DEF MinuteRecords
  <2>3. f[i] = Amount(bars[i], "both") /\ Amount(bars[i], "both") = bars[i].buy + bars[i].sell
    BY <1>1 DEF Amounts, Amount
  <2>4. bars[i].buy = Value(list[i], TRUE) /\ bars[i].sell = Value(list[i], FALSE)
    BY <1>1, BarOfTrade
  <2>5. list[i].price \in Int /\ list[i].quantity \in Int /\ list[i].buyer \in BOOLEAN
    BY <1>1 DEF Trades
  <2>6. Value(list[i], TRUE) + Value(list[i], FALSE) = Worth(list[i])
    <3> DEFINE worth == Worth(list[i])
    <3>1. worth \in Int
      BY <2>5 DEF Worth
    <3>2. Value(list[i], TRUE) = IF list[i].buyer = TRUE THEN worth ELSE 0
      BY DEF Value, Worth
    <3>3. Value(list[i], FALSE) = IF list[i].buyer = FALSE THEN worth ELSE 0
      BY DEF Value, Worth
    <3> DEFINE bought == Value(list[i], TRUE)
    <3> DEFINE sold == Value(list[i], FALSE)
    <3>4. \/ bought = worth /\ sold = 0
          \/ bought = 0 /\ sold = worth
      BY <2>5, <3>2, <3>3
    <3> HIDE DEF worth, bought, sold
    <3>5. bought + sold = worth
      BY <3>1, <3>4
    <3> QED
      BY <3>5 DEF worth, bought, sold
  <2>7. g[list[i]] = Worth(list[i])
    BY <1>1
  <2> HIDE DEF f, g
  <2>9. Worth(list[i]) \in Int
    BY <2>5 DEF Worth
  <2>8. f[i] = Worth(list[i])
    BY <2>3, <2>4, <2>6
  <2> QED
    BY <2>1, <2>2, <2>7, <2>8, <2>9
<1>6. \A i, j \in S : list[i] = list[j] => i = j
  <2> TAKE i, j \in S
  <2>1. i = j \/ i < j \/ j < i
    BY <1>3
  <2> QED
    BY <1>2, <2>1
<1>7. ImageOf(list, S) = ToSet(list)
  <2>1. S = DOMAIN list
    BY DEF S
  <2> QED
    BY <2>1 DEF ImageOf, ToSet
<1>8. At(bars, Int) = S
  BY <1>1, <1>5 DEF At
<1> HIDE DEF f, g
<1>9. /\ IsFiniteSet(ImageOf(list, S))
      /\ SumFunctionOnSet(g, ImageOf(list, S)) = SumFunctionOnSet(f, S)
  BY <1>4, <1>5, <1>6, SumRenamed
<1>10. Flow(bars, Int, "both") = SumFunctionOnSet(f, S)
  BY <1>8 DEF Flow, f
<1> QED
  BY <1>7, <1>9, <1>10 DEF list, bars, g

TradesUpTo(archives, n) == UNION {ToSet(archives[i].trades) : i \in 1 .. n}

LEMMA FlowOfArchives ==
    ASSUME NEW archives \in Seq(Archives), AllApart(archives),
           \A i \in DOMAIN archives : ArchiveInOrder(archives[i])
    PROVE  LET trades == TradesUpTo(archives, Len(archives))
           IN  /\ IsFiniteSet(trades)
               /\ Flow(FlattenSeq(BarLists(archives)), Int, "both")
                    = SumFunctionOnSet([t \in Trades |-> Worth(t)], trades)
<1> DEFINE lists == BarLists(archives)
<1> DEFINE g == [t \in Trades |-> Worth(t)]
<1>1. /\ lists \in Seq(Seq(MinuteRecords)) /\ DOMAIN lists = DOMAIN archives
  BY BarsOfArchives
<1>2. /\ Len(archives) \in Nat /\ DOMAIN archives = 1 .. Len(archives)
      /\ \A i \in DOMAIN archives : archives[i] \in Archives /\ lists[i] = BarsOf(archives[i])
  BY DEF BarLists
<1>3. \A t \in Trades : g[t] \in Int
  <2> TAKE t \in Trades
  <2>1. t.price \in Int /\ t.quantity \in Int
    BY DEF Trades
  <2> QED
    BY <2>1 DEF Worth
<1> HIDE DEF lists, g
<1>4. PICK run : IsJoining(lists, run)
  BY <1>1, JoiningExists
<1>5. \A n \in 0 .. Len(lists) : run[n] \in Seq(MinuteRecords)
  BY <1>1, <1>4, JoiningSet
<1>6. Len(lists) = Len(archives)
  <2>1. Len(lists) \in Nat /\ DOMAIN lists = 1 .. Len(lists)
    BY <1>1
  <2> QED
    BY <1>1, <1>2, <2>1
<1>7. \A i \in DOMAIN archives : \A t \in ToSet(archives[i].trades) : t \in Trades /\ t.time \in Int
  <2>1. \A t \in Trades : t.time \in Int
    BY DEF Trades
  <2> QED
    BY <1>2, <2>1, BarsOfArchive DEF ToSet
<1> DEFINE Done(n) == /\ IsFiniteSet(TradesUpTo(archives, n))
                      /\ Flow(run[n], Int, "both") = SumFunctionOnSet(g, TradesUpTo(archives, n))
<1> DEFINE P == {n \in Nat : n <= Len(archives) => Done(n)}
<1>8. 0 \in P
  <2>1. TradesUpTo(archives, 0) = {}
    BY DEF TradesUpTo
  <2>2. run[0] = <<>>
    BY <1>4 DEF IsJoining
  <2>3. Flow(run[0], Int, "both") = 0
    BY <2>2, FlowOfNothing
  <2>4. SumFunctionOnSet(g, TradesUpTo(archives, 0)) = 0
    BY <2>1, SumOfNothing
  <2>5. IsFiniteSet(TradesUpTo(archives, 0))
    BY <2>1, FS_EmptySet
  <2> QED
    BY <2>3, <2>4, <2>5
<1>9. ASSUME NEW n \in Nat, n \in P PROVE n + 1 \in P
  <2> SUFFICES ASSUME n + 1 <= Len(archives) PROVE Done(n + 1)
    OBVIOUS
  <2> DEFINE archive == archives[n + 1]
  <2> DEFINE old == TradesUpTo(archives, n)
  <2> DEFINE new == ToSet(archive.trades)
  <2>1. /\ n + 1 \in DOMAIN archives /\ (n + 1) - 1 = n /\ n \in 0 .. Len(lists)
        /\ n + 1 \in 1 .. Len(lists) /\ archive \in Archives
    BY <1>2, <1>6
  <2>2. run[n + 1] = run[n] \o BarsOf(archive)
    BY <1>2, <1>4, <2>1 DEF IsJoining
  <2>3. Done(n)
    BY <1>2, <1>9
  <2>4. /\ IsFiniteSet(new)
        /\ Flow(BarsOf(archive), Int, "both") = SumFunctionOnSet(g, new)
    BY <2>1, FlowOfTrades DEF g
  <2>5. Flow(run[n] \o BarsOf(archive), Int, "both")
          = Flow(run[n], Int, "both") + Flow(BarsOf(archive), Int, "both")
    BY <1>5, <2>1, BarsOfArchive, FlowOfBoth
  <2>6. TradesUpTo(archives, n + 1) = old \cup new
    <3>1. 1 .. n + 1 = (1 .. n) \cup {n + 1}
      OBVIOUS
    <3> QED
      BY <3>1 DEF TradesUpTo
  <2>7. old \cap new = {}
    <3> SUFFICES ASSUME NEW t \in old, t \in new PROVE FALSE
      OBVIOUS
    <3>1. PICK i \in 1 .. n : t \in ToSet(archives[i].trades)
      BY DEF TradesUpTo
    <3>2. i \in DOMAIN archives /\ i < n + 1
      BY <1>2, <2>1
    <3>3. t.time \div MinuteLength < t.time \div MinuteLength
      BY <2>1, <3>1, <3>2 DEF AllApart, Apart
    <3>4. t.time \div MinuteLength \in Int
      <4>1. t.time \in Int /\ MinuteLength \in Nat \ {0}
        BY <1>7, <3>1, <3>2, DataAssumption
      <4> QED
        BY <4>1, DividedBetween
    <3> QED
      BY <3>3, <3>4
  <2>8. \A t \in old \cup new : g[t] \in Int
    <3>1. \A t \in new : t \in Trades
      BY <1>7, <2>1
    <3>2. \A t \in old : t \in Trades
      <4> TAKE t \in old
      <4>1. PICK i \in 1 .. n : t \in ToSet(archives[i].trades)
        BY DEF TradesUpTo
      <4>2. i \in DOMAIN archives
        BY <1>2, <2>1
      <4> QED
        BY <1>7, <4>1, <4>2
    <3> HIDE DEF old, new
    <3> QED
      BY <1>3, <3>1, <3>2
  <2>9. IsFiniteSet(old)
    BY <2>3
  <2>10. IsFiniteSet(old \cup new)
    BY <2>4, <2>9, FS_Union
  <2> HIDE DEF old, new, archive
  <2>11. SumFunctionOnSet(g, old \cup new) = SumFunctionOnSet(g, old) + SumFunctionOnSet(g, new)
    BY <2>4, <2>7, <2>8, <2>9, SumOfUnion
  <2>12. Flow(run[n], Int, "both") = SumFunctionOnSet(g, old)
    BY <2>3 DEF old
  <2> QED
    BY <2>2, <2>4, <2>5, <2>6, <2>10, <2>11, <2>12
<1> HIDE DEF P
<1>10. Len(archives) \in P
  BY <1>2, <1>8, <1>9, Induction
<1>11. Done(Len(archives)) /\ FlattenSeq(lists) = run[Len(archives)]
  BY <1>2, <1>4, <1>6, <1>10 DEF P, IsJoining
<1> QED
  BY <1>11 DEF lists, g

-----------------------------------------------------------------------------
(* Both ways agree. *)

FileInv == directory \in Directories /\ rows = ReplayRows(directory)

LEMMA InitFile == ResearchInit => FileInv
BY DEF ResearchInit, ReportInit, FileInv

LEMMA StepKeepsFile == FileInv /\ [ResearchNext]_researchVars => FileInv'
BY DEF FileInv, ResearchNext, ReportNext, BuildSample, SkipRow, StartSimulation, SimulateRow,
       researchVars, reportVars

(* What write_stream writes of a directory in order is in the order of time,     *)
(* as FeaturesSeeNoLaterRow and SimulatedAccountReconciles demand.            *)
THEOREM OrderedRows == DirectoriesInOrder => RowsInOrder
<1> SUFFICES ASSUME DirectoriesInOrder, NEW input \in Directories
             PROVE  /\ ReplayRows(input) \in Seq(Quotes)
                    /\ \A i, j \in DOMAIN ReplayRows(input) :
                          i <= j => ReplayRows(input)[i].time <= ReplayRows(input)[j].time
  BY DEF RowsInOrder
<1> DEFINE written == ReplayRows(input)
<1>1. written \in Seq(Quotes) /\ Sorted(written, MinuteLength)
  BY FileInOrder
<1> HIDE DEF written
<1>2. MinuteLength \in Nat
  BY DataAssumption
<1>3. ASSUME NEW i \in DOMAIN written, NEW j \in DOMAIN written, i <= j
      PROVE  written[i].time <= written[j].time
  <2>1. written[i].time \in Int /\ written[j].time \in Int
    <3>1. written[i] \in Quotes /\ written[j] \in Quotes
      BY <1>1
    <3> QED
      BY <3>1 DEF Quotes
  <2>2. i = j \/ i < j
    BY <1>1, <1>3
  <2>3. i < j => written[i].time + MinuteLength <= written[j].time
    BY <1>1 DEF Sorted
  <2> QED
    BY <1>2, <2>1, <2>2, <2>3
<1> QED
  BY <1>1, <1>3 DEF written

LEMMA FileOfDirectory ==
    ASSUME FileInv, DirectoriesInOrder
    PROVE  /\ rows \in Seq(Quotes) /\ Sorted(rows, MinuteLength)
           /\ DOMAIN rows = 1 .. Len(rows) /\ Len(rows) \in Nat
           /\ \A i \in DOMAIN rows :
                 /\ rows[i] \in Quotes /\ rows[i].time \in Int
                 /\ StartTime <= rows[i].time /\ rows[i].time <= EndTime /\ TwoSided(rows[i])
<1>1. rows \in Seq(Quotes) /\ Sorted(rows, MinuteLength)
  BY FileInOrder DEF FileInv
<1>2. \A i \in DOMAIN rows :
         StartTime <= rows[i].time /\ rows[i].time <= EndTime /\ TwoSided(rows[i])
  BY RowsHaveMinutes DEF FileInv
<1>3. \A row \in Quotes : row.time \in Int
  BY DEF Quotes
<1>4. \A i \in DOMAIN rows : rows[i] \in Quotes /\ rows[i].time \in Int
  BY <1>1, <1>3
<1> QED
  BY <1>1, <1>2, <1>4

(* No two rows are of one time. *)
LEMMA RowOfTime ==
    ASSUME FileInv, DirectoriesInOrder,
           NEW i \in DOMAIN rows, NEW j \in DOMAIN rows, rows[i].time = rows[j].time
    PROVE  i = j
<1>1. i = j \/ i < j \/ j < i
  BY FileOfDirectory
<1>2. /\ i < j => rows[i].time + MinuteLength <= rows[j].time
      /\ j < i => rows[j].time + MinuteLength <= rows[i].time
  BY FileOfDirectory DEF Sorted
<1>3. rows[i].time \in Int /\ rows[j].time \in Int /\ MinuteLength \in Nat \ {0}
  BY FileOfDirectory, DataAssumption
<1> QED
  BY <1>1, <1>2, <1>3

LEMMA FileUsable ==
    ASSUME FileInv, DirectoriesInOrder
    PROVE  RowsUsable
<1>1. MinuteLength \in Nat \ {0}
  BY DataAssumption
<1>2. ASSUME NEW i \in 1 .. Len(rows) - 1 PROVE rows[i].time < rows[i + 1].time
  <2>1. i \in DOMAIN rows /\ i + 1 \in DOMAIN rows /\ i < i + 1
    BY FileOfDirectory
  <2>2. rows[i].time + MinuteLength <= rows[i + 1].time
    BY <2>1, FileOfDirectory DEF Sorted
  <2>3. rows[i].time \in Int /\ rows[i + 1].time \in Int
    BY <2>1, FileOfDirectory
  <2> QED
    BY <1>1, <2>2, <2>3
<1>3. \A i \in DOMAIN rows : TwoSided(rows[i])
  BY FileOfDirectory
<1> QED
  BY <1>2, <1>3 DEF RowsUsable, TwoSided

(* The trades of the archives that count are all trades of the directory. *)
LEMMA TradesOfDirectory ==
    ASSUME DirectoriesInOrder, NEW input \in Directories
    PROVE  TradesUpTo(BarArchives(input), Len(BarArchives(input)))
             = UNION {ToSet(input[i].trades) : i \in DOMAIN input}
<1> DEFINE archives == BarArchives(input)
<1>1. /\ ToSet(archives) = {input[i] : i \in Counted(input)} /\ archives \in Seq(Archives)
  BY BarArchivesInOrder
<1>2. Counted(input) \subseteq DOMAIN input
  BY DirectoryInOrder
<1>3. \A i \in DOMAIN input : \A t \in ToSet(input[i].trades) :
         \E j \in Counted(input) : t \in ToSet(input[j].trades)
  BY DEF DirectoriesInOrder, MonthsComplete
<1> HIDE DEF archives
<1>4. DOMAIN archives = 1 .. Len(archives)
  BY <1>1
<1>5. ASSUME NEW t, NEW i \in 1 .. Len(archives), t \in ToSet(archives[i].trades)
      PROVE  \E j \in DOMAIN input : t \in ToSet(input[j].trades)
  <2>1. archives[i] \in ToSet(archives)
    BY <1>4 DEF ToSet
  <2>2. PICK j \in Counted(input) : archives[i] = input[j]
    BY <1>1, <2>1
  <2> QED
    BY <1>2, <1>5, <2>2
<1>6. ASSUME NEW t, NEW i \in DOMAIN input, t \in ToSet(input[i].trades)
      PROVE  \E j \in 1 .. Len(archives) : t \in ToSet(archives[j].trades)
  <2>1. PICK k \in Counted(input) : t \in ToSet(input[k].trades)
    BY <1>3, <1>6
  <2>2. input[k] \in ToSet(archives)
    BY <1>1
  <2>3. PICK j \in DOMAIN archives : archives[j] = input[k]
    BY <2>2 DEF ToSet
  <2> QED
    BY <1>4, <2>1, <2>3
<1>7. TradesUpTo(archives, Len(archives)) = UNION {ToSet(input[i].trades) : i \in DOMAIN input}
  BY <1>5, <1>6 DEF TradesUpTo
<1> QED
  BY <1>7 DEF archives

LEMMA CountedOnce ==
    ASSUME FileInv, DirectoriesInOrder
    PROVE  TradesCountedOnce
<1> DEFINE bars == Bars(directory)
<1> DEFINE joined == BarsJoined(directory)
<1> DEFINE archives == BarArchives(directory)
<1> DEFINE trades == UNION {ToSet(directory[i].trades) : i \in DOMAIN directory}
<1> DEFINE f == [trade \in trades |-> trade.price * trade.quantity]
<1> DEFINE g == [t \in Trades |-> Worth(t)]
<1> DEFINE h == [i \in DOMAIN bars |-> bars[i].buy + bars[i].sell]
<1>1. directory \in Directories
  BY DEF FileInv
<1>2. TradesUpTo(archives, Len(archives)) = trades
  BY <1>1, TradesOfDirectory
<1>3. /\ archives \in Seq(Archives) /\ AllApart(archives)
      /\ ToSet(archives) = {directory[i] : i \in Counted(directory)}
  BY <1>1, BarArchivesInOrder
<1>4. \A i \in DOMAIN archives : ArchiveInOrder(archives[i])
  <2> TAKE i \in DOMAIN archives
  <2>1. archives[i] \in ToSet(archives)
    BY DEF ToSet
  <2>2. PICK j \in Counted(directory) : archives[i] = directory[j]
    BY <1>3, <2>1
  <2> QED
    BY <1>1, <2>2, DirectoryInOrder
<1>5. joined = FlattenSeq(BarLists(archives))
  BY DEF BarsJoined
<1> HIDE DEF archives, joined
<1>6. IsFiniteSet(trades) /\ Flow(joined, Int, "both") = SumFunctionOnSet(g, trades)
  <2> HIDE DEF trades
  <2> QED
    BY <1>2, <1>3, <1>4, <1>5, FlowOfArchives
<1>7. \A t \in trades : f[t] = g[t]
  <2> TAKE t \in trades
  <2>1. PICK i \in DOMAIN directory : t \in ToSet(directory[i].trades)
    OBVIOUS
  <2>2. t \in Trades
    <3>1. directory[i] \in Archives
      BY <1>1, DirectoryInOrder
    <3> QED
      BY <2>1, <3>1, BarsOfArchive DEF ToSet
  <2> QED
    BY <2>2 DEF Worth
<1>8. SumFunction(f) = SumFunctionOnSet(f, trades)
  <2>1. DOMAIN f = trades
    OBVIOUS
  <2> HIDE DEF f, trades
  <2> QED
    BY <2>1 DEF SumFunction
<1>9. SumFunctionOnSet(f, trades) = SumFunctionOnSet(g, trades)
  <2> HIDE DEF f, g, trades
  <2> QED
    BY <1>6, <1>7, SumReads
<1>10. /\ bars \in Seq(MinuteRecords)
       /\ Flow(bars, Int, "both") = Flow(joined, Int, "both")
  BY <1>1, BarsMerged DEF joined
<1>11. SumFunction(h) = Flow(bars, Int, "both")
  <2> HIDE DEF bars
  <2>1. h = Amounts(bars, "both") /\ DOMAIN h = DOMAIN bars
    BY DEF Amounts, Amount
  <2>2. At(bars, Int) = DOMAIN bars
    <3>1. \A record \in MinuteRecords : record.time \in Int
      BY DEF MinuteRecords
    <3>2. \A i \in DOMAIN bars : bars[i].time \in Int
      BY <1>10, <3>1
    <3> QED
      BY <3>2 DEF At
  <2> HIDE DEF h
  <2> QED
    BY <2>1, <2>2 DEF SumFunction, Flow
<1>12. SumFunction(f) = SumFunction(h)
  BY <1>6, <1>8, <1>9, <1>10, <1>11
<1> QED
  BY <1>12 DEF TradesCountedOnce

(* The row of a minute that the file has all trades of. *)
LEMMA AgreeingRow ==
    ASSUME FileInv, DirectoriesInOrder,
           NEW minutes, minutes = MinutesOfBars(directory), NEW i \in DOMAIN minutes,
           WholeMinute(minutes[i].time)
    PROVE  \E j \in DOMAIN rows : rows[j] = RowOf(minutes[i]) /\ JoinedRows(rows, minutes[i]) = {j}
<1>1. PICK j \in DOMAIN rows : rows[j] = RowOf(minutes[i]) /\ rows[j].time = minutes[i].time
  BY MinutesHaveRows DEF FileInv
<1>2. JoinedRows(rows, minutes[i]) = {j}
  BY <1>1, RowOfTime DEF JoinedRows
<1> QED
  BY <1>1, <1>2

(* PipelinesAgree for any directory in order: the minutes of the bars and the     *)
(* rows of the replay are the same, and every trade is counted once, although     *)
(* the two programs read other archives in another order and cut them at other    *)
(* places.  The last minute of the file is left out: it misses its last trades.   *)
THEOREM PipelinesAlwaysAgree == DirectoriesInOrder /\ ResearchSpec => []PipelinesAgree
<1>1. FileInv /\ DirectoriesInOrder => PipelinesAgree
  <2> SUFFICES ASSUME FileInv, DirectoriesInOrder PROVE PipelinesAgree
    OBVIOUS
  <2> DEFINE minutes == MinutesOfBars(directory)
  <2>1. RowsUsable /\ TradesCountedOnce
    BY FileUsable, CountedOnce
  <2>2. ASSUME NEW i \in DOMAIN minutes, WholeMinute(minutes[i].time)
        PROVE  /\ Cardinality(JoinedRows(rows, minutes[i])) = 1
               /\ \A j \in JoinedRows(rows, minutes[i]) : rows[j] = RowOf(minutes[i])
    <3>1. PICK j \in DOMAIN rows : rows[j] = RowOf(minutes[i]) /\ JoinedRows(rows, minutes[i]) = {j}
      BY <2>2, AgreeingRow
    <3>2. Cardinality({j}) = 1
      BY FS_Singleton
    <3> QED
      BY <3>1, <3>2
  <2>3. \A j \in DOMAIN rows : \E i \in DOMAIN minutes : minutes[i].time = rows[j].time
    BY RowsHaveMinutes DEF FileInv
  <2> HIDE DEF minutes
  <2>4. index = Warmup + 1 =>
           /\ RowsUsable
           /\ TradesCountedOnce
           /\ \A i \in DOMAIN minutes :
                 WholeMinute(minutes[i].time) =>
                     /\ Cardinality(JoinedRows(rows, minutes[i])) = 1
                     /\ \A j \in JoinedRows(rows, minutes[i]) : rows[j] = RowOf(minutes[i])
           /\ \A j \in DOMAIN rows : \E i \in DOMAIN minutes : minutes[i].time = rows[j].time
    BY <2>1, <2>2, <2>3
  <2> QED
    BY <2>4 DEF PipelinesAgree, minutes
<1>2. DirectoriesInOrder => DirectoriesInOrder'
  BY DEF DirectoriesInOrder, ArchivesInOrder, MonthsComplete, ArchiveInOrder
<1> QED
  BY <1>1, <1>2, InitFile, StepKeepsFile, PTL DEF ResearchSpec

-----------------------------------------------------------------------------
(* Labels. *)

(* Prices that pay one way do not pay the other, so it does not matter in which   *)
(* order the two are compared.                                               *)
LEMMA GridLabelsAlike ==
    ASSUME NEW now \in Nat \ {0}, NEW then \in Nat \ {0}, NEW cost \in Nat, NEW margin \in Nat
    PROVE  GridLabel(now, then, cost, margin) = LabelOf(now, then, cost, margin)
<1>1. BasisParts \in Nat \ {0}
  BY TickAssumption
<1>2. \A a, b \in Nat \ {0} : Pays(a, b, cost, margin) => b > a
  <2> TAKE a, b \in Nat \ {0}
  <2> DEFINE extra == cost + margin
  <2>1. extra \in Nat /\ BasisParts + cost + margin = BasisParts + extra
    BY <1>1
  <2> HIDE DEF extra
  <2>2. a * (BasisParts + extra) = a * BasisParts + a * extra /\ a * extra >= 0
    BY <1>1, <2>1
  <2>3. ASSUME b <= a PROVE b * BasisParts <= a * BasisParts
    BY <1>1, <2>3
  <2>4. ASSUME b * BasisParts > a * (BasisParts + extra) PROVE b > a
    <3> DEFINE bb == b * BasisParts
    <3> DEFINE ab == a * BasisParts
    <3> DEFINE ae == a * extra
    <3>1. bb \in Int /\ ab \in Int /\ ae \in Int
      BY <1>1, <2>1
    <3>2. bb > ab + ae /\ ae >= 0 /\ (b <= a => bb <= ab)
      BY <2>2, <2>3, <2>4
    <3> HIDE DEF bb, ab, ae
    <3> QED
      BY <3>1, <3>2
  <2> QED
    BY <2>1, <2>4 DEF Pays
<1>3. Pays(now, then, cost, margin) => then > now
  BY <1>2
<1>4. Pays(then, now, cost, margin) => now > then
  BY <1>2
<1> QED
  BY <1>3, <1>4 DEF GridLabel, LabelOf

(* A quote has the close in its middle. *)
LEMMA MidIsClose ==
    ASSUME NEW minute \in MinuteRecords, RowOf(minute).bid > 0
    PROVE  Mid(RowOf(minute)) = minute.close /\ minute.close \in Nat \ {0}
<1> DEFINE part == minute.close \div SpreadParts
<1> DEFINE half == IF part < 1 THEN 1 ELSE part
<1>1. minute.close \in Int
  BY DEF MinuteRecords
<1>2. part \in Int
  BY <1>1, DataAssumption
<1>3. RowOf(minute).bid = minute.close - half /\ RowOf(minute).ask = minute.close + half
  BY DEF RowOf
<1> HIDE DEF part
<1>4. half \in Int /\ half >= 1
  BY <1>2
<1> HIDE DEF half
<1> QED
  BY <1>1, <1>3, <1>4 DEF Mid

LEMMA WholeBefore ==
    ASSUME FileInv, DirectoriesInOrder, NEW q \in DOMAIN rows, NEW r \in DOMAIN rows, q <= r,
           WholeMinute(rows[r].time)
    PROVE  WholeMinute(rows[q].time)
<1>1. /\ rows[q].time \in Int /\ rows[r].time \in Int /\ StartTime <= rows[q].time
      /\ StartTime \in Int /\ EndTime \in Int /\ MinuteLength \in Nat \ {0}
  BY FileOfDirectory, DataAssumption
<1>2. rows[q].time <= rows[r].time
  <2>1. q = r \/ q < r
    BY FileOfDirectory
  <2>2. q < r => rows[q].time + MinuteLength <= rows[r].time
    BY FileOfDirectory DEF Sorted
  <2> QED
    BY <1>1, <2>1, <2>2
<1> QED
  BY <1>1, <1>2 DEF WholeMinute

(* From a row and its minute on, rows and minutes go in step. *)
LEMMA RowsFollowMinutes ==
    ASSUME FileInv, DirectoriesInOrder,
           NEW minutes, minutes = MinutesOfBars(directory),
           NEW at \in DOMAIN minutes, NEW q \in DOMAIN rows, rows[q].time = minutes[at].time
    PROVE  \A h \in Nat : q + h <= Len(rows) =>
              at + h \in DOMAIN minutes /\ rows[q + h].time = minutes[at + h].time
<1>1. /\ minutes \in Seq(MinuteRecords) /\ Sorted(minutes, MinuteLength)
      /\ Sorted(rows, MinuteLength) /\ MinuteLength \in Nat \ {0}
  BY MinutesMerged, MinutesApart, FileOfDirectory, DataAssumption DEF FileInv
<1>2. /\ Len(rows) \in Nat /\ DOMAIN rows = 1 .. Len(rows)
      /\ Len(minutes) \in Nat /\ DOMAIN minutes = 1 .. Len(minutes)
  BY <1>1, FileOfDirectory
<1>3. /\ \A i \in DOMAIN rows : rows[i].time \in Int
      /\ \A i \in DOMAIN minutes : minutes[i].time \in Int
  <2>1. \A record \in MinuteRecords : record.time \in Int
    BY DEF MinuteRecords
  <2> QED
    BY <1>1, <2>1, FileOfDirectory
<1>4. \A i, j \in DOMAIN rows : i < j => rows[i].time < rows[j].time
  <2>1. \A i, j \in DOMAIN rows : i < j => rows[i].time + MinuteLength <= rows[j].time
    BY <1>1 DEF Sorted
  <2> QED
    BY <1>1, <1>3, <2>1
<1>5. \A i, j \in DOMAIN minutes : i < j => minutes[i].time + MinuteLength <= minutes[j].time
  BY <1>1 DEF Sorted
<1> DEFINE P == {h \in Nat : q + h <= Len(rows) =>
                   at + h \in DOMAIN minutes /\ rows[q + h].time = minutes[at + h].time}
<1>6. 0 \in P
  BY <1>2
<1>7. ASSUME NEW h \in Nat, h \in P PROVE h + 1 \in P
  <2>0. q + (h + 1) = q + h + 1 /\ at + (h + 1) = at + h + 1
    BY <1>2
  <2> SUFFICES ASSUME q + (h + 1) <= Len(rows)
               PROVE  /\ at + (h + 1) \in DOMAIN minutes
                      /\ rows[q + (h + 1)].time = minutes[at + (h + 1)].time
    OBVIOUS
  <2> DEFINE r == q + h
  <2> DEFINE m == at + h
  <2>1. r \in DOMAIN rows /\ r + 1 \in DOMAIN rows /\ r \in Nat /\ r < r + 1
    BY <1>2, <2>0
  <2>2. m \in DOMAIN minutes /\ rows[r].time = minutes[m].time
    BY <1>2, <1>7
  <2> HIDE DEF r, m
  <2>3. rows[r].time < rows[r + 1].time
    BY <1>4, <2>1
  <2>4. PICK i \in DOMAIN minutes : minutes[i].time = rows[r + 1].time
    BY <2>1, RowsHaveMinutes DEF FileInv
  <2>5. i > m
    <3>1. i = m \/ i < m \/ i > m
      BY <1>2, <2>2
    <3>2. i < m => minutes[i].time + MinuteLength <= minutes[m].time
      BY <1>5, <2>2
    <3>3. /\ rows[r].time \in Int /\ rows[r + 1].time \in Int
          /\ minutes[m].time \in Int /\ minutes[i].time \in Int
      BY <1>3, <2>1, <2>2
    <3> QED
      BY <1>1, <2>2, <2>3, <2>4, <3>1, <3>2, <3>3
  <2>6. m + 1 \in DOMAIN minutes /\ m < m + 1 /\ m \in Nat
    BY <1>2, <2>2, <2>5
  <2>7. ASSUME m + 1 < i PROVE FALSE
    <3>1. /\ minutes[m].time + MinuteLength <= minutes[m + 1].time
          /\ minutes[m + 1].time + MinuteLength <= minutes[i].time
      BY <1>5, <2>2, <2>6, <2>7
    <3>2. /\ rows[r].time \in Int /\ rows[r + 1].time \in Int
          /\ minutes[m].time \in Int /\ minutes[m + 1].time \in Int
          /\ StartTime \in Int /\ EndTime \in Int
      <4>1. rows[r].time \in Int /\ rows[r + 1].time \in Int
        BY <1>3, <2>1
      <4>2. minutes[m].time \in Int /\ minutes[m + 1].time \in Int
        BY <1>3, <2>2, <2>6
      <4>3. StartTime \in Int /\ EndTime \in Int
        BY DataAssumption
      <4> QED
        BY <4>1, <4>2, <4>3
    <3>3. StartTime <= rows[r].time /\ rows[r + 1].time <= EndTime
      BY <2>1, FileOfDirectory
    <3> DEFINE next == minutes[m + 1].time
    <3> DEFINE before == rows[r].time
    <3> DEFINE after == rows[r + 1].time
    <3>4. /\ before \in Int /\ after \in Int /\ next \in Int /\ MinuteLength \in Nat \ {0}
          /\ StartTime \in Int /\ EndTime \in Int /\ StartTime <= before /\ after <= EndTime
          /\ before + MinuteLength <= next /\ next + MinuteLength <= after
      <4>1. before + MinuteLength <= next
        BY <2>2, <3>1
      <4>2. next + MinuteLength <= after
        BY <2>4, <3>1
      <4>3. MinuteLength \in Nat \ {0}
        BY <1>1
      <4> QED
        BY <3>2, <3>3, <4>1, <4>2, <4>3
    <3> HIDE DEF next, before, after
    <3>5. StartTime <= next /\ next + MinuteLength - 1 <= EndTime /\ before < next /\ next < after
      BY <3>4
    <3>6. WholeMinute(minutes[m + 1].time)
      BY <3>5 DEF WholeMinute, next
    <3>7. PICK k \in DOMAIN rows : rows[k].time = minutes[m + 1].time
      BY <2>6, <3>6, MinutesHaveRows DEF FileInv
    <3>8. rows[r].time < rows[k].time /\ rows[k].time < rows[r + 1].time
      BY <3>5, <3>7 DEF next, before, after
    <3>9. k = r \/ k < r \/ k = r + 1 \/ r + 1 < k
      BY <1>2, <2>1
    <3>10. /\ k < r => rows[k].time < rows[r].time
           /\ r + 1 < k => rows[r + 1].time < rows[k].time
      BY <1>4, <2>1
    <3>11. rows[k].time \in Int
      BY <1>3
    <3> QED
      BY <3>2, <3>8, <3>9, <3>10, <3>11
  <2>8. i = m + 1
    BY <1>2, <2>5, <2>6, <2>7
  <2>9. r + 1 = q + (h + 1) /\ m + 1 = at + (h + 1)
    BY <2>0 DEF r, m
  <2> QED
    BY <2>4, <2>6, <2>8, <2>9
<1> HIDE DEF P
<1>8. Nat \subseteq P
  BY <1>6, <1>7, Induction
<1> QED
  BY <1>8 DEF P

(* The row that load_samples joins with a sample is that of its minute. *)
LEMMA LoadedSample ==
    ASSUME FileInv, DirectoriesInOrder,
           NEW minutes, minutes = MinutesOfBars(directory),
           NEW sample \in Loaded(rows, TickSamples(minutes)),
           sample.sequence + Horizon <= Len(rows),
           WholeMinute(rows[sample.sequence + Horizon].time)
    PROVE  \E now, then \in Nat \ {0} :
              /\ Mid(rows[sample.sequence]) = now
              /\ Mid(rows[sample.sequence + Horizon]) = then
              /\ sample.label = LabelOf(now, then, RoundTrip, SafetyMargin)
              /\ sample.sequence \in Nat
<1>1. PICK s \in TickSamples(minutes) :
         /\ JoinedRows(rows, s) # {}
         /\ sample = [split |-> SplitOf(s.time, HoldoutEnd), sequence |-> Max(JoinedRows(rows, s)),
                      features |-> s.features, label |-> s.label]
  BY DEF Loaded
<1>2. PICK at \in DOMAIN minutes : TickSampleAt(minutes, at) /\ s = TickSample(minutes, at)
  BY <1>1 DEF TickSamples
<1>3. /\ s.time = minutes[at].time
      /\ s.label = LabelOf(minutes[at].close, minutes[at + Horizon].close, RoundTrip, SafetyMargin)
  BY <1>2 DEF TickSample
<1>4. PICK q \in DOMAIN rows : rows[q].time = minutes[at].time
  BY <1>1, <1>3 DEF JoinedRows
<1>5. JoinedRows(rows, s) = {q}
  BY <1>3, <1>4, RowOfTime DEF JoinedRows
<1>6. Horizon \in Nat /\ q \in Nat /\ Len(rows) \in Nat /\ DOMAIN rows = 1 .. Len(rows)
  BY ReportAssumption, FileOfDirectory
<1>7. sample.sequence = q
  <2>1. Max({q}) = q
    BY <1>6 DEF Max
  <2> QED
    BY <1>1, <1>5, <2>1
<1>8. q + Horizon \in DOMAIN rows /\ q <= q + Horizon
  BY <1>6, <1>7
<1>9. at + Horizon \in DOMAIN minutes /\ rows[q + Horizon].time = minutes[at + Horizon].time
  <2>1. \A h \in Nat : q + h <= Len(rows) =>
           at + h \in DOMAIN minutes /\ rows[q + h].time = minutes[at + h].time
    BY <1>4, RowsFollowMinutes
  <2> QED
    BY <1>6, <1>7, <2>1
<1>10. WholeMinute(rows[q].time) /\ WholeMinute(rows[q + Horizon].time)
  BY <1>7, <1>8, WholeBefore
<1>11. ASSUME NEW i \in DOMAIN minutes, NEW j \in DOMAIN rows, rows[j].time = minutes[i].time,
              WholeMinute(rows[j].time)
       PROVE  Mid(rows[j]) = minutes[i].close /\ minutes[i].close \in Nat \ {0}
  <2>1. PICK k \in DOMAIN rows : rows[k] = RowOf(minutes[i]) /\ JoinedRows(rows, minutes[i]) = {k}
    BY <1>11, AgreeingRow
  <2>2. rows[j] = RowOf(minutes[i])
    BY <1>11, <2>1 DEF JoinedRows
  <2>3. rows[j].bid > 0
    <3>1. 0 < rows[j].bid /\ rows[j] \in Quotes
      BY FileOfDirectory DEF TwoSided
    <3> QED
      BY <3>1 DEF Quotes
  <2>4. minutes[i] \in MinuteRecords
    <3>1. minutes \in Seq(MinuteRecords)
      BY MinutesMerged DEF FileInv
    <3> QED
      BY <3>1
  <2> QED
    BY <2>2, <2>3, <2>4, MidIsClose
<1>12. Mid(rows[q]) = minutes[at].close /\ minutes[at].close \in Nat \ {0}
  BY <1>4, <1>10, <1>11
<1>13. /\ Mid(rows[q + Horizon]) = minutes[at + Horizon].close
       /\ minutes[at + Horizon].close \in Nat \ {0}
  BY <1>8, <1>9, <1>10, <1>11
<1>14. sample.label
         = LabelOf(minutes[at].close, minutes[at + Horizon].close, RoundTrip, SafetyMargin)
  BY <1>1, <1>3
<1> QED
  BY <1>6, <1>7, <1>12, <1>13, <1>14

(* A loaded sample has the sequence of a row. *)
LEMMA LoadedSequence ==
    ASSUME FileInv, DirectoriesInOrder, NEW cut, NEW sample \in Loaded(rows, cut)
    PROVE  sample.sequence \in DOMAIN rows
<1>1. PICK s \in cut : JoinedRows(rows, s) # {} /\ sample.sequence = Max(JoinedRows(rows, s))
  BY DEF Loaded
<1>2. PICK q \in DOMAIN rows : rows[q].time = s.time
  BY <1>1 DEF JoinedRows
<1>3. JoinedRows(rows, s) = {q} /\ q \in Int
  BY <1>2, RowOfTime, FileOfDirectory DEF JoinedRows
<1>4. Max({q}) = q
  BY <1>3 DEF Max
<1> QED
  BY <1>1, <1>3, <1>4

(* The middle of a row's quotes is a price. *)
LEMMA MidIsPrice ==
    ASSUME FileInv, DirectoriesInOrder, NEW j \in DOMAIN rows
    PROVE  Mid(rows[j]) \in Nat \ {0}
<1>1. rows[j] \in Quotes /\ TwoSided(rows[j])
  BY FileOfDirectory
<1>2. rows[j].bid \in Int /\ rows[j].ask \in Int /\ 0 < rows[j].bid /\ rows[j].bid < rows[j].ask
  BY <1>1 DEF TwoSided, Quotes
<1> QED
  BY <1>2 DEF Mid

LEMMA AgreeingLabels ==
    ASSUME FileInv, DirectoriesInOrder,
           NEW minutes, minutes = MinutesOfBars(directory),
           NEW sample \in Loaded(rows, TickSamples(minutes)),
           sample.sequence + Horizon <= Len(rows),
           WholeMinute(rows[sample.sequence + Horizon].time)
    PROVE  Relabel(rows, sample.sequence, Horizon, RoundTrip, SafetyMargin) = sample.label
<1>1. PICK now, then \in Nat \ {0} :
         /\ Mid(rows[sample.sequence]) = now
         /\ Mid(rows[sample.sequence + Horizon]) = then
         /\ sample.label = LabelOf(now, then, RoundTrip, SafetyMargin)
         /\ sample.sequence \in Nat
  BY LoadedSample
<1>2. ~(sample.sequence + Horizon > Len(rows))
  <2>1. Len(rows) \in Nat /\ Horizon \in Nat
    BY ReportAssumption, FileOfDirectory
  <2> QED
    BY <1>1, <2>1
<1> QED
  BY <1>1, <1>2 DEF Relabel, RowOfSequence

(* Where the file goes on for a horizon, grid and baseline label alike. *)
LEMMA AgreeingGrid ==
    ASSUME FileInv, DirectoriesInOrder, NEW cut, NEW sample \in Loaded(rows, cut),
           NEW horizon \in Nat, NEW cost \in Nat, NEW margin \in Nat,
           sample.sequence + horizon <= Len(rows)
    PROVE  GridLabel(Mid(rows[sample.sequence]), Mid(rows[sample.sequence + horizon]), cost, margin)
             = Relabel(rows, sample.sequence, horizon, cost, margin)
<1> DEFINE at == sample.sequence
<1>1. at \in DOMAIN rows
  BY LoadedSequence
<1>2. at \in Nat /\ Len(rows) \in Nat /\ DOMAIN rows = 1 .. Len(rows) /\ at + horizon <= Len(rows)
  BY <1>1, FileOfDirectory
<1> HIDE DEF at
<1>3. at + horizon \in DOMAIN rows /\ ~(at + horizon > Len(rows))
  BY <1>1, <1>2
<1>4. Mid(rows[at]) \in Nat \ {0} /\ Mid(rows[at + horizon]) \in Nat \ {0}
  BY <1>1, <1>3, MidIsPrice
<1>5. GridLabel(Mid(rows[at]), Mid(rows[at + horizon]), cost, margin)
        = LabelOf(Mid(rows[at]), Mid(rows[at + horizon]), cost, margin)
  BY <1>4, GridLabelsAlike
<1>6. Relabel(rows, at, horizon, cost, margin)
        = LabelOf(Mid(rows[at]), Mid(rows[at + horizon]), cost, margin)
  BY <1>3 DEF Relabel, RowOfSequence
<1> QED
  BY <1>5, <1>6 DEF at

(* LabelsAgree for any directory in order and any horizons, costs and margins: a   *)
(* sample is labelled again as it was cut, if the file has all of the minute that   *)
(* the label looks to, and a cell of the grid has the counts of the labels that     *)
(* the baseline gives at twice the cost of the cell.                             *)
THEOREM LabelsAgreeWithPipelines == DirectoriesInOrder /\ ResearchSpec => []LabelsAgree
<1>1. FileInv /\ DirectoriesInOrder => LabelsAgree
  <2> SUFFICES ASSUME FileInv, DirectoriesInOrder, index = Warmup + 1
               PROVE  LabelsAgree
    BY DEF LabelsAgree
  <2> DEFINE minutes == MinutesOfBars(directory)
  <2> DEFINE loaded == Loaded(rows, TickSamples(minutes))
  <2> DEFINE labelled(horizon) == {sample \in loaded : sample.sequence + horizon <= Len(rows)}
  <2>1. ASSUME NEW sample \in labelled(Horizon),
               WholeMinute(rows[sample.sequence + Horizon].time)
        PROVE  Relabel(rows, sample.sequence, Horizon, RoundTrip, SafetyMargin) = sample.label
    <3>1. /\ sample \in Loaded(rows, TickSamples(minutes))
          /\ sample.sequence + Horizon <= Len(rows)
      OBVIOUS
    <3> HIDE DEF minutes
    <3>2. minutes = MinutesOfBars(directory)
      BY DEF minutes
    <3> QED
      BY <2>1, <3>1, <3>2, AgreeingLabels
  <2>2. ASSUME NEW split, NEW label, NEW horizon \in GridHorizons,
               NEW cost \in GridCosts, NEW margin \in GridMargins
        PROVE  GridCount(rows, loaded, split, label, horizon, cost, margin)
                 = Cardinality({sample \in labelled(horizon) :
                       /\ sample.split = split
                       /\ Relabel(rows, sample.sequence, horizon, 2 * cost, margin) = label})
    <3> DEFINE counted ==
                 {sample \in loaded :
                    /\ sample.split = split
                    /\ sample.sequence + horizon <= Len(rows)
                    /\ GridLabel(Mid(rows[sample.sequence]), Mid(rows[sample.sequence + horizon]),
                                 GridCost(cost), margin) = label}
    <3>1. horizon \in Nat /\ GridCost(cost) \in Nat /\ GridCost(cost) = 2 * cost /\ margin \in Nat
      BY TickAssumption DEF GridCost
    <3>2. ASSUME NEW sample \in labelled(horizon)
          PROVE  GridLabel(Mid(rows[sample.sequence]), Mid(rows[sample.sequence + horizon]),
                           GridCost(cost), margin)
                   = Relabel(rows, sample.sequence, horizon, 2 * cost, margin)
      <4>1. sample \in Loaded(rows, TickSamples(minutes)) /\ sample.sequence + horizon <= Len(rows)
        OBVIOUS
      <4> HIDE DEF minutes, labelled
      <4> QED
        BY <3>1, <4>1, AgreeingGrid
    <3>3. counted = {sample \in labelled(horizon) :
                       /\ sample.split = split
                       /\ Relabel(rows, sample.sequence, horizon, 2 * cost, margin) = label}
      <4> HIDE DEF minutes, loaded
      <4> QED
        BY <3>2
    <3>4. GridCount(rows, loaded, split, label, horizon, cost, margin) = Cardinality(counted)
      BY DEF GridCount
    <3> HIDE DEF counted, minutes, loaded
    <3> QED
      BY <3>3, <3>4
  <2> HIDE DEF minutes, loaded
  <2>3. loaded = Loaded(rows, TickSamples(MinutesOfBars(directory)))
    BY DEF loaded, minutes
  <2> QED
    BY <2>1, <2>2, <2>3 DEF LabelsAgree
<1>2. DirectoriesInOrder => DirectoriesInOrder'
  BY DEF DirectoriesInOrder, ArchivesInOrder, MonthsComplete, ArchiveInOrder
<1> QED
  BY <1>1, <1>2, InitFile, StepKeepsFile, PTL DEF ResearchSpec

=============================================================================
