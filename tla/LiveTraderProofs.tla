-------------------------- MODULE LiveTraderProofs --------------------------
(***************************************************************************)
(* Theorems about the live handler, for any events, any number of submissions *)
(* and any behaviour of the model.                                           *)
(*                                                                         *)
(* The handler's worker is a ModelWorker, so that what ModelWorkerProofs says *)
(* of one holds here.  What an order comes from is settled by two chains of   *)
(* inequalities: no decision tried so far is newer than last_used, and the     *)
(* samples that the clock counts are no more than the events since its offset  *)
(* was reset.                                                               *)
(***************************************************************************)
EXTENDS LiveTrader, ExchangeProofs

WorkerProofs == INSTANCE ModelWorkerProofs

MarketKnown ==
    /\ market \in Events \cup {None}
    /\ handling => market # None

HistoryTyped ==
    /\ history = [since_reset |-> history.since_reset, attempts |-> history.attempts]
    /\ history.since_reset \in Nat

(* Nothing tried is newer than last_decision_sequence. *)
TriedBeforeLastUsed ==
    /\ last_used \in Int
    /\ latest # None => latest.sequence \in Int
    /\ \A i \in DOMAIN history.attempts :
          /\ history.attempts[i].decision \in Int
          /\ history.attempts[i].decision <= last_used

AttemptsListed == \E records : history.attempts \in Seq(records)

(* The gate is open after as many events since a reset as the warm-up has, and  *)
(* the last event was not late.  Without a warm-up or a residual it never is.   *)
GateInv ==
    /\ minimum_offset \in Int \cup {None}
    /\ clock = [offset |-> clock.offset, adjusted_age |-> clock.adjusted_age,
                samples |-> clock.samples, stable |-> clock.stable]
    /\ clock.samples \in Nat /\ clock.samples <= history.since_reset
    /\ minimum_offset = None \/ MaxResidual <= 0 \/ WarmupSamples = 0 => clock.samples = 0
    /\ clock.stable =>
          /\ market # None /\ minimum_offset # None
          /\ clock.samples >= WarmupSamples
          /\ market.receive_time - market.exchange_time - minimum_offset <= MaxResidual

LiveInv ==
    /\ WorkerProofs!WorkerInv
    /\ MarketKnown /\ HistoryTyped
    /\ AttemptsListed /\ TriedBeforeLastUsed /\ DecisionsUsedOnce
    /\ GateInv

-----------------------------------------------------------------------------
(* The worker of the handler is a ModelWorker. *)

LEMMA WorkerAssumed == WorkerProofs!WorkerAssumption
BY TraderAssumption, OptionalAssumption, RiskAssumption
   DEF WorkerProofs!WorkerAssumption, WorkerProofs!Sequences, WorkerProofs!Decisions,
       Model!Sequences, Model!Decisions

LEMMA EventSequences == ASSUME NEW event \in Events, EventAccepted(event)
                        PROVE  event.sequence \in WorkerProofs!Sequences
BY ExchangeAssumption, TraderAssumption
   DEF EventAccepted, MarketEvents, WorkerProofs!Sequences

LEMMA SubmitIsWorkers ==
    ASSUME NEW sequence \in WorkerProofs!Sequences, Model!Submit(sequence)
    PROVE  WorkerProofs!Next
<1>1. WorkerProofs!Submit(sequence)
  BY DEF Model!Submit, Model!Coalesced, WorkerProofs!Submit, WorkerProofs!Coalesced
<1> QED
  BY <1>1 DEF WorkerProofs!Next, WorkerProofs!Caller

LEMMA TakeIsWorkers == Model!TryTake => WorkerProofs!Next
<1>1. Model!TryTake => WorkerProofs!TryTake
  BY DEF Model!TryTake, Model!AfterTake, WorkerProofs!TryTake, WorkerProofs!AfterTake
<1> QED
  BY <1>1 DEF WorkerProofs!Next, WorkerProofs!Caller

LEMMA ThreadIsWorkers == Model!Worker \/ Model!Notify => WorkerProofs!Next
<1>1. Model!Notify => WorkerProofs!Notify
  BY DEF Model!Notify, Model!AfterNotify, WorkerProofs!Notify, WorkerProofs!AfterNotify
<1>2. Model!Sleep => WorkerProofs!Sleep
  BY DEF Model!Sleep, Model!Awaited, WorkerProofs!Sleep, WorkerProofs!Awaited
<1>3. Model!WakeSpuriously => WorkerProofs!WakeSpuriously
  BY DEF Model!WakeSpuriously, WorkerProofs!WakeSpuriously
<1>4. Model!Begin => WorkerProofs!Begin
  BY DEF Model!Begin, Model!Awaited, WorkerProofs!Begin, WorkerProofs!Awaited
<1>5. Model!Exit => WorkerProofs!Exit
  BY DEF Model!Exit, WorkerProofs!Exit
<1>6. Model!Complete => WorkerProofs!Complete
  BY DEF Model!Complete, WorkerProofs!Complete
<1> QED
  BY <1>1, <1>2, <1>3, <1>4, <1>5, <1>6
     DEF Model!Worker, WorkerProofs!Worker, WorkerProofs!Caller, WorkerProofs!Next

(* Whatever the trader does, its worker takes a step of ModelWorker or none. *)
LEMMA StepIsWorkers == [LiveNext]_liveVars => [WorkerProofs!Next]_(WorkerProofs!vars)
<1> SUFFICES ASSUME [LiveNext]_liveVars PROVE WorkerProofs!Next \/ UNCHANGED workerVars
  BY DEF workerVars, WorkerProofs!vars
<1>1. ASSUME NEW event \in Events, TakeEvent(event)
      PROVE  WorkerProofs!Next \/ UNCHANGED workerVars
  BY <1>1, EventSequences, SubmitIsWorkers DEF TakeEvent, AcceptEvent
<1>2. CASE \E event \in Events : RefuseEvent(event)
  BY <1>2 DEF RefuseEvent
<1>3. CASE Decide
  BY <1>3, TakeIsWorkers DEF Decide
<1>4. CASE WorkerStep
  BY <1>4, ThreadIsWorkers DEF WorkerStep
<1>5. CASE UNCHANGED liveVars
  BY <1>5 DEF liveVars
<1> QED
  BY <1>1, <1>2, <1>3, <1>4, <1>5 DEF LiveNext

-----------------------------------------------------------------------------
LEMMA InitLiveInv == LiveInit => LiveInv
<1> SUFFICES ASSUME LiveInit PROVE LiveInv
  OBVIOUS
<1>1. WorkerProofs!WorkerInv
  <2>1. WorkerProofs!Init
    BY DEF LiveInit, Model!Init, WorkerProofs!Init
  <2> QED
    BY <2>1, WorkerAssumed, WorkerProofs!InitWorkerInv
<1>2. MarketKnown /\ HistoryTyped
  BY DEF LiveInit, Init, MarketKnown, HistoryTyped
<1>3. AttemptsListed
  <2>1. history.attempts = <<>>
    BY DEF LiveInit
  <2>2. history.attempts \in Seq({})
    BY <2>1
  <2> QED
    BY <2>2 DEF AttemptsListed
<1>4. TriedBeforeLastUsed /\ DecisionsUsedOnce
  BY DEF LiveInit, TriedBeforeLastUsed, DecisionsUsedOnce
<1>5. GateInv
  BY DEF LiveInit, Clock!InitClock, GateInv
<1> QED
  BY <1>1, <1>2, <1>3, <1>4, <1>5 DEF LiveInv

-----------------------------------------------------------------------------
(* The first half of the handler: the clock. *)

(* An event that the exchange accepted cannot be unusable for its own times. *)
LEMMA UnusableOnlySwitchedOff ==
    ASSUME NEW event \in Events, EventAccepted(event),
           Clock!Unusable(event.exchange_time, event.receive_time)
    PROVE  MaxResidual <= 0 \/ WarmupSamples = 0
BY ExchangeAssumption, TraderAssumption DEF EventAccepted, Clock!Unusable, MarketEvents

LEMMA TakeEventKeepsGate ==
    ASSUME LiveInv, NEW event \in Events, TakeEvent(event)
    PROVE  GateInv' /\ HistoryTyped'
<1> DEFINE observed == event.receive_time - event.exchange_time
<1>1. /\ EventAccepted(event) /\ market' = event /\ market' # None
      /\ event.receive_time \in Int /\ event.exchange_time \in Int /\ observed \in Int
  BY ExchangeAssumption, RiskAssumption DEF TakeEvent, AcceptEvent, MarketEvents
<1>2. /\ history'.since_reset = SinceReset(event)
      /\ SinceReset(event) \in Nat /\ HistoryTyped'
  <2>1. SinceReset(event) \in Nat
    BY DEF SinceReset, LiveInv, HistoryTyped
  <2>2. history' = [history EXCEPT !.since_reset = SinceReset(event)]
    BY DEF TakeEvent
  <2>3. history' = [since_reset |-> SinceReset(event), attempts |-> history.attempts]
    BY <2>2 DEF LiveInv, HistoryTyped
  <2> QED
    BY <2>1, <2>3 DEF HistoryTyped
<1>3. GateInv /\ history.since_reset \in Nat
  BY DEF LiveInv, HistoryTyped
<1>4. MaxResidual \in Int /\ WarmupSamples \in Nat
  BY TraderAssumption
<1>5. CASE Clock!Unusable(event.exchange_time, event.receive_time)
  <2>1. MaxResidual <= 0 \/ WarmupSamples = 0
    BY <1>1, <1>5, UnusableOnlySwitchedOff
  <2>2. /\ clock' = [clock EXCEPT !.stable = FALSE]
        /\ minimum_offset' = minimum_offset
    BY <1>5 DEF TakeEvent, Clock!Observe
  <2>3. clock' = [offset |-> clock.offset, adjusted_age |-> clock.adjusted_age,
                  samples |-> clock.samples, stable |-> FALSE]
    BY <1>3, <2>2 DEF GateInv
  <2>4. clock.samples = 0
    BY <1>3, <2>1 DEF GateInv
  <2>5. /\ clock'.samples = 0 /\ clock'.stable = FALSE
        /\ clock' = [offset |-> clock'.offset, adjusted_age |-> clock'.adjusted_age,
                     samples |-> clock'.samples, stable |-> clock'.stable]
    BY <2>3, <2>4
  <2>6. history'.since_reset \in Nat
    BY <1>2
  <2>7. GateInv'
    BY <1>3, <2>2, <2>5, <2>6 DEF GateInv
  <2> QED
    BY <1>2, <2>7
<1>6. CASE ~Clock!Unusable(event.exchange_time, event.receive_time)
  <2> DEFINE minimum == Clock!MinimumAfter(observed)
  <2> DEFINE samples == Clock!SamplesAfter(observed)
  <2> HIDE DEF observed
  <2>1. MaxResidual > 0 /\ WarmupSamples # 0
    BY <1>4, <1>6 DEF Clock!Unusable
  <2>2. /\ minimum_offset' = minimum
        /\ clock' = [offset |-> minimum, adjusted_age |-> observed - minimum,
                     samples |-> samples,
                     stable |-> samples >= WarmupSamples /\ observed - minimum <= MaxResidual]
    BY <1>6 DEF TakeEvent, Clock!Observe, Clock!Learn, observed
  <2>3. minimum \in Int
    BY <1>1, <1>3 DEF Clock!MinimumAfter, GateInv
  <2>4. samples \in Nat \ {0} /\ samples <= SinceReset(event)
    <3>1. SinceReset(event) = IF minimum_offset = None \/ minimum_offset - observed > MaxResidual
                              THEN 1 ELSE history.since_reset + 1
      BY DEF SinceReset, observed
    <3>2. CASE minimum_offset = None
      BY <3>1, <3>2 DEF Clock!SamplesAfter
    <3>3. CASE minimum_offset # None
      BY <1>1, <1>3, <1>4, <2>1, <3>1, <3>3 DEF Clock!SamplesAfter, GateInv
    <3> QED
      BY <3>2, <3>3
  <2> HIDE DEF minimum, samples
  <2>5. /\ minimum_offset' \in Int /\ minimum_offset' # None
        /\ clock'.samples = samples
        /\ clock' = [offset |-> clock'.offset, adjusted_age |-> clock'.adjusted_age,
                     samples |-> clock'.samples, stable |-> clock'.stable]
    BY <2>2, <2>3, RiskAssumption
  <2>6. clock'.stable =>
           /\ clock'.samples >= WarmupSamples
           /\ market'.receive_time - market'.exchange_time - minimum_offset' <= MaxResidual
    BY <1>1, <2>2 DEF observed
  <2>7. GateInv'
    BY <1>1, <1>2, <1>4, <2>1, <2>4, <2>5, <2>6 DEF GateInv
  <2> QED
    BY <1>2, <2>7
<1> QED
  BY <1>5, <1>6

LEMMA TakeEventKeepsInv ==
    ASSUME LiveInv, NEW event \in Events, TakeEvent(event), WorkerProofs!WorkerInv'
    PROVE  LiveInv'
<1>1. GateInv' /\ HistoryTyped'
  BY TakeEventKeepsGate
<1>2. MarketKnown'
  BY ExchangeAssumption, RiskAssumption DEF TakeEvent, AcceptEvent, MarketKnown, MarketEvents
<1>3. history'.attempts = history.attempts /\ UNCHANGED decisionVars
  BY DEF TakeEvent, LiveInv, HistoryTyped
<1>4. AttemptsListed' /\ TriedBeforeLastUsed' /\ DecisionsUsedOnce'
  BY <1>3 DEF decisionVars, LiveInv, AttemptsListed, TriedBeforeLastUsed, DecisionsUsedOnce
<1> QED
  BY <1>1, <1>2, <1>4 DEF LiveInv

-----------------------------------------------------------------------------
(* The second half: the decision. *)

LEMMA LatestTyped ==
    ASSUME LiveInv, handling
    PROVE  market.sequence \in Int /\ (Latest # None => Latest.sequence \in Int)
<1>1. market \in MarketEvents
  BY ExchangeAssumption DEF LiveInv, MarketKnown
<1>2. market.sequence \in Int
  BY <1>1 DEF MarketEvents
<1>3. completed # None => completed.sequence \in Int
  BY TraderAssumption
     DEF LiveInv, WorkerProofs!WorkerInv, WorkerProofs!TypeOK, WorkerProofs!Decisions,
         WorkerProofs!Sequences
<1>4. latest # None => latest.sequence \in Int
  BY DEF LiveInv, TriedBeforeLastUsed
<1> QED
  BY <1>2, <1>3, <1>4 DEF Latest, BaselineDecision

(* An order appends its attempt. *)
LEMMA DecideAppends ==
    ASSUME LiveInv, Decide
    PROVE  /\ HistoryTyped' /\ history'.since_reset = history.since_reset
           /\ history'.attempts = IF Orders(Latest)
                                  THEN Append(history.attempts, Attempt(Latest))
                                  ELSE history.attempts
<1>1. CASE Orders(Latest)
  <2> DEFINE attempt == Attempt(Latest)
  <2>1. history' = [history EXCEPT !.attempts = Append(@, attempt)]
    BY <1>1 DEF Decide
  <2> HIDE DEF attempt
  <2>2. history' = [since_reset |-> history.since_reset,
                    attempts |-> Append(history.attempts, attempt)]
    BY <2>1 DEF LiveInv, HistoryTyped
  <2>3. /\ history'.attempts = Append(history.attempts, attempt)
        /\ HistoryTyped' /\ history'.since_reset = history.since_reset
    BY <2>2 DEF LiveInv, HistoryTyped
  <2> QED
    BY <1>1, <2>3 DEF attempt
<1>2. CASE ~Orders(Latest)
  BY <1>2 DEF Decide, LiveInv, HistoryTyped
<1> QED
  BY <1>1, <1>2

LEMMA DecideKeepsAttempts ==
    ASSUME LiveInv, Decide
    PROVE  AttemptsListed' /\ TriedBeforeLastUsed' /\ DecisionsUsedOnce'
<1>1. /\ market.sequence \in Int
      /\ Latest # None => Latest.sequence \in Int
      /\ latest' = Latest
      /\ last_used' = IF Usable(Latest) THEN Latest.sequence ELSE last_used
      /\ last_used \in Int
  BY LatestTyped DEF Decide, LiveInv, TriedBeforeLastUsed
<1>2. /\ \A i \in DOMAIN history.attempts :
            /\ history.attempts[i].decision \in Int
            /\ history.attempts[i].decision <= last_used
      /\ DecisionsUsedOnce
  BY DEF LiveInv, TriedBeforeLastUsed
<1>3. CASE ~Orders(Latest)
  <2>1. history'.attempts = history.attempts
    BY <1>3, DecideAppends
  <2>2. last_used' \in Int /\ last_used <= last_used'
    BY <1>1 DEF Usable
  <2>3. TriedBeforeLastUsed'
    BY <1>1, <1>2, <2>1, <2>2 DEF TriedBeforeLastUsed
  <2>4. AttemptsListed' /\ DecisionsUsedOnce'
    BY <1>2, <2>1 DEF LiveInv, AttemptsListed, DecisionsUsedOnce
  <2> QED
    BY <2>3, <2>4
<1>4. CASE Orders(Latest)
  <2> DEFINE attempt == Attempt(Latest)
  <2> DEFINE count == Len(history.attempts)
  <2>1. PICK records : history.attempts \in Seq(records)
    BY DEF LiveInv, AttemptsListed
  <2>2. history'.attempts = Append(history.attempts, attempt)
    BY <1>4, DecideAppends
  <2>3. Usable(Latest) /\ Latest # None /\ last_used' = Latest.sequence
    BY <1>1, <1>4 DEF Orders, Usable
  <2>4. /\ attempt.decision = Latest.sequence /\ attempt.order = market.sequence
        /\ attempt.decision > last_used
        /\ attempt.order - attempt.decision \in 0 .. MaxLag
    BY <1>1, <2>3, TraderAssumption DEF Usable, Attempt
  <2>5. attempt.decision \in Int /\ last_used' = attempt.decision
    BY <1>1, <2>3, <2>4
  <2> HIDE DEF attempt
  <2>6. AttemptsListed'
    <3>1. history.attempts \in Seq(records \cup {attempt})
      BY <2>1
    <3>2. history'.attempts \in Seq(records \cup {attempt})
      BY <2>2, <3>1
    <3> QED
      BY <3>2 DEF AttemptsListed
  <2>7. /\ count \in Nat
        /\ DOMAIN history.attempts = 1 .. count
        /\ DOMAIN history'.attempts = 1 .. count + 1
        /\ \A i \in 1 .. count : history'.attempts[i] = history.attempts[i]
        /\ history'.attempts[count + 1] = attempt
    BY <2>1, <2>2
  <2> HIDE DEF count
  <2>8. TriedBeforeLastUsed'
    <3>1. \A i \in 1 .. count + 1 :
             /\ history'.attempts[i].decision \in Int
             /\ history'.attempts[i].decision <= last_used'
      BY <1>1, <1>2, <2>4, <2>5, <2>7
    <3> QED
      BY <1>1, <2>5, <2>7, <3>1 DEF TriedBeforeLastUsed
  <2>9. DecisionsUsedOnce'
    <3>1. \A i, j \in 1 .. count + 1 :
             i < j => history'.attempts[i].decision < history'.attempts[j].decision
      <4> SUFFICES ASSUME NEW i \in 1 .. count + 1, NEW j \in 1 .. count + 1, i < j
                   PROVE  history'.attempts[i].decision < history'.attempts[j].decision
        OBVIOUS
      <4>1. i \in 1 .. count /\ history'.attempts[i] = history.attempts[i]
        BY <2>7
      <4>2. CASE j = count + 1
        <5>1. /\ history.attempts[i].decision \in Int
              /\ history.attempts[i].decision <= last_used
          BY <1>2, <2>7, <4>1
        <5>2. history'.attempts[j] = attempt
          BY <2>7, <4>2
        <5> QED
          BY <1>1, <2>4, <2>5, <4>1, <5>1, <5>2
      <4>3. CASE j # count + 1
        <5>1. j \in 1 .. count /\ history'.attempts[j] = history.attempts[j]
          BY <2>7, <4>3
        <5>2. history.attempts[i].decision < history.attempts[j].decision
          BY <1>2, <2>7, <4>1, <5>1 DEF DecisionsUsedOnce
        <5> QED
          BY <4>1, <5>1, <5>2
      <4> QED
        BY <4>2, <4>3
    <3>2. \A i \in 1 .. count + 1 :
             history'.attempts[i].order - history'.attempts[i].decision \in 0 .. MaxLag
      BY <1>2, <2>4, <2>7 DEF DecisionsUsedOnce
    <3> QED
      BY <2>7, <3>1, <3>2 DEF DecisionsUsedOnce
  <2> QED
    BY <2>6, <2>8, <2>9
<1> QED
  BY <1>3, <1>4

LEMMA DecideKeepsInv ==
    ASSUME LiveInv, Decide, WorkerProofs!WorkerInv'
    PROVE  LiveInv'
<1>1. UNCHANGED <<market, clock, minimum_offset>>
  BY DEF Decide, exchangeVars, clockVars
<1>2. HistoryTyped' /\ history'.since_reset = history.since_reset
  BY DecideAppends
<1>3. MarketKnown'
  BY <1>1 DEF Decide, LiveInv, MarketKnown
<1>4. GateInv'
  BY <1>1, <1>2 DEF LiveInv, GateInv
<1> QED
  BY <1>2, <1>3, <1>4, DecideKeepsAttempts DEF LiveInv

(* The other steps leave everything but the worker alone. *)
LEMMA OthersKeepInv ==
    ASSUME LiveInv, WorkerProofs!WorkerInv',
           \/ \E event \in Events : RefuseEvent(event)
           \/ WorkerStep
           \/ UNCHANGED liveVars
    PROVE  LiveInv'
<1>1. UNCHANGED <<market, decisionVars, clockVars, handling, history>>
  BY DEF RefuseEvent, IgnoreEvent, WorkerStep, exchangeVars, liveVars
<1> QED
  BY <1>1 DEF decisionVars, clockVars, LiveInv, MarketKnown, HistoryTyped, AttemptsListed,
              TriedBeforeLastUsed, DecisionsUsedOnce, GateInv

LEMMA StepKeepsLiveInv == LiveInv /\ [LiveNext]_liveVars => LiveInv'
<1> SUFFICES ASSUME LiveInv, [LiveNext]_liveVars PROVE LiveInv'
  OBVIOUS
<1>1. WorkerProofs!WorkerInv'
  BY StepIsWorkers, WorkerAssumed, WorkerProofs!StepKeepsWorkerInv DEF LiveInv
<1>2. ASSUME NEW event \in Events, TakeEvent(event) PROVE LiveInv'
  BY <1>1, <1>2, TakeEventKeepsInv
<1>3. CASE Decide
  BY <1>1, <1>3, DecideKeepsInv
<1>4. CASE WorkerStep \/ UNCHANGED liveVars \/ \E event \in Events : RefuseEvent(event)
  BY <1>1, <1>4, OthersKeepInv
<1> QED
  BY <1>2, <1>3, <1>4 DEF LiveNext

-----------------------------------------------------------------------------
(* The worker's pipeline, what was tried and the clock's warm-up keep step      *)
(* with each other in every interleaving of the handler and the worker         *)
(* (main.cpp, the handler of --live).                                        *)
THEOREM LiveInvariant == LiveSpec => []LiveInv
<1>1. LiveInit => LiveInv
  BY InitLiveInv
<1>2. LiveInv /\ [LiveNext]_liveVars => LiveInv'
  BY StepKeepsLiveInv
<1> QED
  BY <1>1, <1>2, PTL DEF LiveSpec

(* Every decision is tried once, in order and never more than MaxLag events     *)
(* late.                                                                    *)
THEOREM LiveDecisionsUsedOnce == LiveSpec => []DecisionsUsedOnce
<1>1. LiveInv => DecisionsUsedOnce
  BY DEF LiveInv
<1> QED
  BY <1>1, LiveInvariant, PTL

(* An order needs an open gate. *)
LEMMA OrderNeedsGate ==
    ASSUME LiveInv, [LiveNext]_liveVars,
           Len(history'.attempts) > Len(history.attempts)
    PROVE  /\ history.since_reset >= WarmupSamples
           /\ market.receive_time - market.exchange_time - minimum_offset <= MaxResidual
<1>1. history'.attempts # history.attempts
  <2>1. Len(history.attempts) \in Nat
    BY DEF LiveInv, AttemptsListed
  <2> QED
    BY <2>1
<1>2. Decide
  <2>1. ASSUME NEW event \in Events, TakeEvent(event) PROVE FALSE
    BY <1>1, <2>1 DEF TakeEvent, LiveInv, HistoryTyped
  <2> QED
    BY <1>1, <2>1 DEF LiveNext, RefuseEvent, WorkerStep, liveVars
<1>3. Orders(Latest)
  BY <1>1, <1>2, DecideAppends
<1>4. clock.stable
  BY <1>3 DEF Orders, Permitted
<1> QED
  BY <1>4, TraderAssumption DEF LiveInv, HistoryTyped, GateInv

(* After a reset of the clock's offset no order is tried before as many events  *)
(* as the warm-up has, and never on a late event.                             *)
THEOREM LiveNoOrderInWarmup == LiveSpec => NoOrderInWarmup
<1>1. LiveInv /\ [LiveNext]_liveVars =>
        [ Len(history'.attempts) > Len(history.attempts) =>
             /\ history.since_reset >= WarmupSamples
             /\ market.receive_time - market.exchange_time - minimum_offset <= MaxResidual
        ]_liveVars
  BY OrderNeedsGate
<1> QED
  BY <1>1, LiveInvariant, PTL DEF LiveSpec, NoOrderInWarmup

(* The worker of the live handler is a ModelWorker, so its decisions are a       *)
(* stream of answers to the states that the handler submitted.                *)
THEOREM LiveWorkerAnswers == LiveSpec => WorkerProofs!ImplementsAnswerStream
<1>1. LiveInit => WorkerProofs!Init
  BY DEF LiveInit, Model!Init, WorkerProofs!Init
<1>2. [LiveNext]_liveVars => [WorkerProofs!Next]_(WorkerProofs!vars)
  BY StepIsWorkers
<1>3. LiveSpec => WorkerProofs!Spec
  BY <1>1, <1>2, PTL DEF LiveSpec, WorkerProofs!Spec
<1>4. WorkerProofs!Spec => WorkerProofs!ImplementsAnswerStream
  BY WorkerAssumed, WorkerProofs!WorkerImplementsAnswerStream
<1> QED
  BY <1>3, <1>4

-----------------------------------------------------------------------------
(* The exchange behind the handler. *)

(* Between its halves the handler's position is the ledger's. *)
HandlerInv ==
    /\ ExchangeInv
    /\ position \in Int
    /\ handling => market # None /\ position = ledger.position

LEMMA LedgerPosition == ExchangeInv => ledger.position \in Int
BY BookFields DEF ExchangeInv, BookInv, Books, Ledgers

(* What the handler submits is a request, and one of the whole way to the target. *)
LEMMA OrderIsRequest ==
    ASSUME HandlerInv, handling, NEW outcome, NEW request, request = OrderFor(outcome)
    PROVE  /\ request \in OrderRequests(Ids) /\ request.type = "market"
           /\ market \in ShownEvents /\ market.receive_time \in Int
           /\ request.quantity \in Nat
           /\ ledger.position + SignedQuantity(request.side, request.quantity) = Wanted(outcome)
<1>1. market \in ShownEvents /\ market \in MarketEvents /\ position = ledger.position
  BY FeedShows, ExchangeAssumption DEF HandlerInv, ExchangeInv
<1>2. market.sequence \in Nat /\ market.receive_time \in Int
  BY <1>1 DEF MarketEvents
<1>3. Wanted(outcome) \in Int /\ position \in Int
  BY DEF Wanted, HandlerInv
<1> DEFINE delta == Delta(outcome)
<1>4. delta \in Int /\ ledger.position + delta = Wanted(outcome)
  BY <1>1, <1>3 DEF Delta
<1>5. /\ request.id = market.sequence /\ request.type = "market"
      /\ request.side = IF delta > 0 THEN "buy" ELSE "sell"
      /\ request.quantity = Magnitude(delta)
      /\ request.limit_price = None /\ request.reduce_only = FALSE
      /\ request = [id |-> request.id, side |-> request.side, type |-> request.type,
                    quantity |-> request.quantity, limit_price |-> request.limit_price,
                    reduce_only |-> request.reduce_only]
  BY DEF OrderFor
<1> HIDE DEF delta
<1>6. /\ request.quantity \in Nat /\ request.side \in Sides
      /\ SignedQuantity(request.side, request.quantity) = delta
  BY <1>4, <1>5 DEF Magnitude, Sides, SignedQuantity
<1>7. request.id \in Ids /\ request.limit_price \in Int \cup {None} /\ request.reduce_only \in BOOLEAN
  BY <1>2, <1>5 DEF Ids
<1>8. request \in OrderRequests(Ids)
  BY <1>5, <1>6, <1>7 DEF OrderRequests
<1> QED
  BY <1>1, <1>2, <1>4, <1>5, <1>6, <1>8

LEMMA InitHandlerInv == LiveInit => HandlerInv
BY InitExchangeInv DEF LiveInit, HandlerInv

LEMMA StepKeepsHandlerInv == HandlerInv /\ [LiveNext]_liveVars => HandlerInv'
<1> SUFFICES ASSUME HandlerInv, [LiveNext]_liveVars PROVE HandlerInv'
  OBVIOUS
<1>1. ASSUME NEW event \in Events, TakeEvent(event) PROVE HandlerInv'
  <2>1. ExchangeInv' /\ market' = event
    BY <1>1, AcceptEventStep DEF HandlerInv, TakeEvent
  <2>2. ledger'.position \in Int
    BY <2>1 DEF ExchangeInv, BookInv, Books, Ledgers, Book
  <2> QED
    BY <1>1, <2>1, <2>2, ExchangeAssumption DEF TakeEvent, HandlerInv
<1>2. ASSUME NEW event \in Events, RefuseEvent(event) PROVE HandlerInv'
  BY <1>2 DEF RefuseEvent, IgnoreEvent, HandlerInv, ExchangeInv, Book
<1>3. CASE Decide
  <2>1. handling /\ ~handling' /\ position' = position
    BY <1>3 DEF Decide
  <2>2. CASE Accepted(Latest)
    <3> DEFINE request == OrderFor(Latest.outcome)
               after == AfterSubmit(request, market.receive_time)
               stored == Stored(request, market.receive_time)
    <3>1. /\ SubmitReason(request, market.receive_time) = "accept"
          /\ Becomes(after) /\ market' = market
      BY <1>3, <2>2 DEF Decide, Accepted
    <3> HIDE DEF request, stored, after
    <3>2. /\ request \in OrderRequests(Ids) /\ market \in ShownEvents
          /\ market.receive_time \in Int
      BY <2>1, OrderIsRequest DEF request
    <3>3. BookInv(after) /\ Balanced(after)
      BY <3>1, <3>2, SubmitReaches DEF HandlerInv, ExchangeInv, stored, after
    <3>4. BookInv(Book') /\ Balanced(Book')
      BY <3>1, <3>3, BookBecomes
    <3> QED
      BY <2>1, <3>1, <3>4 DEF HandlerInv, ExchangeInv
  <2>3. CASE ~Accepted(Latest)
    BY <1>3, <2>1, <2>3 DEF Decide, exchangeVars, HandlerInv, ExchangeInv, Book
  <2> QED
    BY <2>2, <2>3
<1>4. CASE WorkerStep
  BY <1>4 DEF WorkerStep, exchangeVars, HandlerInv, ExchangeInv, Book
<1>5. CASE UNCHANGED liveVars
  BY <1>5 DEF liveVars, exchangeVars, HandlerInv, ExchangeInv, Book
<1> QED
  BY <1>1, <1>2, <1>3, <1>4, <1>5 DEF LiveNext

(* Whatever decisions the model makes and whenever, the handler's exchange is one *)
(* of which PaperExchange's invariant holds.                                    *)
THEOREM LiveHandlerInvariant == LiveSpec => []HandlerInv
<1> QED
  BY InitHandlerInv, StepKeepsHandlerInv, PTL DEF LiveSpec

(* The configuration of the program: no acknowledgement latency, and a step of one *)
(* lot (main of astra_trader).                                                 *)
OneLotAtOnce == AckLatency = 0 /\ QuantityStep = 1

(* No order works, and the position is that of the last decision carried out. *)
OnTarget == Ended(Book) /\ PositionIsTarget

LEMMA DecideKeepsTarget ==
    ASSUME OneLotAtOnce, HandlerInv, OnTarget, Decide
    PROVE  OnTarget'
<1>1. handling
  BY DEF Decide
<1>2. CASE ~Accepted(Latest)
  <2>1. Ended(Book)' /\ ledger' = ledger
    BY <1>2 DEF Decide, exchangeVars, OnTarget, Ended, Book
  <2>2. CASE CarriedOut(Latest)
    <3>1. /\ aim' = Latest.outcome.action /\ aim' # "hold"
          /\ Delta(Latest.outcome) = 0
      BY <1>2, <2>2 DEF Decide, CarriedOut, Permitted
    <3>2. ledger.position = Wanted(Latest.outcome)
      BY <1>1, <3>1 DEF Delta, Wanted, HandlerInv
    <3> QED
      BY <2>1, <3>1, <3>2 DEF OnTarget, PositionIsTarget, Wanted
  <2>3. CASE ~CarriedOut(Latest)
    BY <2>1, <2>3 DEF Decide, OnTarget, PositionIsTarget
  <2> QED
    BY <2>2, <2>3
<1>3. CASE Accepted(Latest)
  <2> DEFINE outcome == Latest.outcome
             request == OrderFor(outcome)
             after == AfterSubmit(request, market.receive_time)
             stored == Stored(request, market.receive_time)
             last == Len(orders) + 1
  <2>1. SubmitReason(request, market.receive_time) = "accept" /\ Becomes(after)
    BY <1>3 DEF Decide, Accepted
  <2> HIDE DEF outcome, request, stored, after, last
  <2>2. /\ request \in OrderRequests(Ids) /\ request.type = "market"
        /\ market \in ShownEvents /\ market.receive_time \in Int
        /\ request.quantity \in Nat
        /\ ledger.position + SignedQuantity(request.side, request.quantity) = Wanted(outcome)
    BY <1>1, OrderIsRequest DEF request
  <2>3. BookInv(Book) /\ Balanced(Book) /\ AckLatency = 0
    BY DEF HandlerInv, ExchangeInv, OneLotAtOnce
  <2>4. /\ stored.fills = fills /\ stored.ledger = ledger
        /\ DOMAIN stored.orders = DOMAIN orders \cup {last}
        /\ \A i \in DOMAIN orders : stored.orders[i] = orders[i]
        /\ last \notin DOMAIN orders
    BY <2>1, <2>2, <2>3, SubmitStores DEF stored, last
  <2>5. /\ Finishes(stored, after, last)
        /\ stored.orders[last].request = Normalized(request)
        /\ stored.orders[last].remaining = Normalized(request).quantity
    BY <2>1, <2>2, <2>3, SubmitFinishes DEF stored, after, last
  <2>6. BookInv(after)
    BY <2>1, <2>2, <2>3, SubmitReaches DEF stored, after
  <2>7. orders' = after.orders /\ fills' = after.fills /\ ledger' = after.ledger
    BY <2>1, <2>6, BookBecomes
  <2>8. Normalized(request).quantity = request.quantity /\ Normalized(request).side = request.side
    <3>1. request.quantity \div 1 = request.quantity
      BY <2>2
    <3>2. TruncDiv(request.quantity, QuantityStep) * QuantityStep = request.quantity
      BY <2>2, <3>1 DEF TruncDiv, OneLotAtOnce
    <3> QED
      BY <2>2, <3>2 DEF Normalized, OrderRequests
  <2>9. /\ DOMAIN orders' = DOMAIN orders \cup {last}
        /\ \A i \in DOMAIN orders : orders'[i] = orders[i]
    BY <2>4, <2>5, <2>7 DEF Finishes
  <2>10. CASE /\ after.orders[last].status = "rejected"
              /\ after.fills = stored.fills
              /\ after.ledger.position = stored.ledger.position
    <3>1. orders'[last].status = "rejected" /\ ledger'.position = ledger.position
      BY <2>4, <2>7, <2>10
    <3>2. ~CarriedOut(Latest)
      BY <1>3, <3>1 DEF CarriedOut, Accepted, Orders, last
    <3>3. aim' = aim
      BY <3>2 DEF Decide
    <3>4. Ended(Book)'
      BY <2>9, <3>1, BookFields DEF OnTarget, Ended, Book, Terminal
    <3> QED
      BY <3>1, <3>3, <3>4 DEF OnTarget, PositionIsTarget
  <2>11. CASE /\ after.orders[last].status = "filled"
              /\ after.ledger.position
                   = stored.ledger.position
                     + SignedQuantity(stored.orders[last].request.side, stored.orders[last].remaining)
    <3>1. orders'[last].status = "filled" /\ ledger'.position = Wanted(outcome)
      BY <2>2, <2>4, <2>5, <2>7, <2>8, <2>11
    <3>2. CarriedOut(Latest) /\ Permitted(Latest.outcome)
      BY <1>3, <3>1 DEF CarriedOut, Accepted, Orders, last
    <3>3. aim' = outcome.action /\ aim' # "hold"
      BY <3>2 DEF Decide, Permitted, outcome
    <3>4. Ended(Book)'
      BY <2>9, <3>1, BookFields DEF OnTarget, Ended, Book, Terminal
    <3> QED
      BY <3>1, <3>3, <3>4 DEF OnTarget, PositionIsTarget, Wanted
  <2> QED
    BY <2>5, <2>10, <2>11 DEF Finishes
<1> QED
  BY <1>2, <1>3

LEMMA StepKeepsTarget ==
    ASSUME OneLotAtOnce, HandlerInv, OnTarget, [LiveNext]_liveVars
    PROVE  OnTarget'
<1>1. ASSUME NEW event \in Events, TakeEvent(event) PROVE OnTarget'
  <2> DEFINE after == AfterEvent(Book, event)
  <2>1. event \in MarketEvents /\ event \in ShownEvents /\ Becomes(after)
    BY <1>1, ExchangeAssumption, FeedShows DEF TakeEvent, AcceptEvent
  <2>2. BookInv(Book) /\ Ended(Book)
    BY DEF HandlerInv, ExchangeInv, OnTarget
  <2>3. BookInv(after)
    BY <2>1, <2>2, EventSettles
  <2>4. /\ after.orders = Book.orders /\ after.fills = Book.fills
        /\ after.ledger.position = Book.ledger.position
    BY <2>1, <2>2, IdleEvent
  <2> HIDE DEF after
  <2>5. /\ orders' = orders /\ fills' = fills /\ ledger'.position = ledger.position
        /\ Book'.orders = Book.orders /\ aim' = aim
    BY <1>1, <2>1, <2>3, <2>4, BookBecomes, BookFields DEF TakeEvent
  <2> QED
    BY <2>5 DEF OnTarget, PositionIsTarget, Ended
<1>2. CASE Decide
  BY <1>2, DecideKeepsTarget
<1>3. ASSUME UNCHANGED <<orders, fills, ledger, aim>> PROVE OnTarget'
  BY <1>3 DEF OnTarget, PositionIsTarget, Ended, Book
<1> QED
  BY <1>1, <1>2, <1>3
     DEF LiveNext, RefuseEvent, IgnoreEvent, WorkerStep, exchangeVars, liveVars

(* As the program is configured an order is sized from the position that it finds *)
(* and executes at once or is rejected, so that the position is on the side of the  *)
(* last decision carried out, however late the decisions come (main.cpp, from the   *)
(* signal gate to submit).                                                       *)
THEOREM LivePositionIsTarget ==
    ASSUME OneLotAtOnce
    PROVE  LiveSpec => []PositionIsTarget
<1>1. LiveInit => OnTarget
  BY BookFields DEF LiveInit, Init, InitialLedger, OnTarget, PositionIsTarget, Ended
<1>2. HandlerInv /\ OnTarget /\ [LiveNext]_liveVars => OnTarget'
  BY StepKeepsTarget
<1>3. OnTarget => PositionIsTarget
  BY DEF OnTarget
<1> QED
  BY <1>1, <1>2, <1>3, LiveHandlerInvariant, PTL DEF LiveSpec
=============================================================================
