------------------------------- MODULE Replay -------------------------------
(***************************************************************************)
(* astra_replay: one step for each row of the input file, on a               *)
(* PaperExchange and a FeatureBuilder.  A decision made on one row becomes   *)
(* an order before the next row is delivered, at the time of its own row.    *)
(*                                                                         *)
(*   model     --model                                                     *)
(*   tape      the decision tape, from sequences to actions                 *)
(*   pending   pending_decision, or None                                    *)
(*   metrics   the counters and the equity extremes of Metrics              *)
(*   written   last_fill_count: fills written to the detail file             *)
(*   detail    the decisions written to the detail file                      *)
(*   status    "running", "finished" (metrics written) or "failed" (exit)    *)
(*   history   not in the code: the time and the action of the decision     *)
(*             that each order was made from, the equity after each accepted *)
(*             row, and whether two accepted rows carried the same time       *)
(*                                                                         *)
(* run_btc_cpp_replay_report.py runs the program and counts the decisions in    *)
(* its detail file (DecisionTapeReport).  Rows outside the chosen interval are        *)
(* skipped without a trace.  Of a   *)
(* decision only its action, the probability of that action and whether it   *)
(* has no error text matter.                                               *)
(***************************************************************************)
EXTENDS PaperExchange, FeatureBuilder

CONSTANTS
    Rows,               \* the rows that the file may contain
    Models,             \* the models that are tried
    TapeFiles,          \* decision tapes: sequences of <<sequence, action, probability>>
    DecisionEvery, FeedLatency, Threshold,      \* Options
    Probabilities,      \* those a gateway may give, in parts per million
    FlowThreshold,      \* 50'000
    TargetUnits         \* 100

Million == 1000000      \* a probability of one, in parts per million

ASSUME ReplayAssumption ==
    /\ Rows \subseteq [sequence : Nat, time : Int, best_bid : Int, best_ask : Int,
                       bid_quantity : Int, ask_quantity : Int]
    /\ \A file \in TapeFiles :
          /\ Len(file) \in Nat /\ DOMAIN file = 1 .. Len(file)
          /\ \A i \in DOMAIN file : file[i][1] \in Nat /\ file[i][3] \in Nat
    /\ Models \subseteq {"baseline", "hold", "laya", "tape"}
    /\ DecisionEvery \in Nat \ {0}
    /\ FeedLatency \in Nat
    /\ Threshold \in Nat
    /\ Probabilities \subseteq 0 .. Million
    /\ {FlowThreshold, TargetUnits} \subseteq Nat \ {0}

VARIABLES model, tape, pending, metrics, written, detail, status, history

replayVars == <<vars, featureVars, model, tape, pending, metrics, written, detail, status, history>>

Actions == {"long", "short", "hold"}

-----------------------------------------------------------------------------
(* DecisionTape: a later line replaces an earlier one; a line with sequence   *)
(* zero, an unknown action or a probability above one makes the load fail,   *)
(* and so does an empty tape.                                              *)
TapeLoads(file) ==
    /\ file # <<>>
    /\ \A i \in DOMAIN file :
          file[i][1] # 0 /\ file[i][2] \in Actions /\ file[i][3] <= Million

Decision(sequence, action, probability, succeeded) ==
    [sequence |-> sequence, action |-> action, probability |-> probability,
     succeeded |-> succeeded]

Decisions ==
    [sequence : Nat, action : Actions, probability : Nat, succeeded : BOOLEAN]

TapeOf(file) ==
    [sequence \in {file[i][1] : i \in DOMAIN file} |->
        LET line == file[Max({i \in DOMAIN file : file[i][1] = sequence})]
        IN  Decision(sequence, line[2], line[3], TRUE)]

HoldDecision(sequence, succeeded) == Decision(sequence, "hold", Million, succeeded)

TapeDecision(sequence) ==
    IF sequence \in DOMAIN tape THEN tape[sequence] ELSE HoldDecision(sequence, FALSE)

(* baseline_decision: with the flow of the displayed quantities. *)
BaselineDecision(sequence, imbalance) ==
    CASE imbalance > FlowThreshold -> Decision(sequence, "long", 700000, TRUE)
      [] imbalance < -FlowThreshold -> Decision(sequence, "short", 700000, TRUE)
      [] OTHER -> Decision(sequence, "hold", 800000, TRUE)

(* What the model may say; a gateway may say anything or fail. *)
DecisionsOn(sequence) ==
    CASE model = "baseline" -> {BaselineDecision(sequence, features'.imbalance)}
      [] model = "hold" -> {HoldDecision(sequence, TRUE)}
      [] model = "tape" -> {TapeDecision(sequence)}
      [] model = "laya" ->
            [sequence : {sequence}, action : Actions,
             probability : Probabilities, succeeded : {TRUE}]
            \cup {HoldDecision(sequence, FALSE)}

(* gate_hold: below the threshold the action becomes a hold, a hold as well. *)
GateHolds(decision) == decision.probability < Threshold

(* Mutant of Gated: the gate is noted in the detail file and the action kept. *)
GatedInName(decision) == decision

Gated(decision) ==
    IF GateHolds(decision) THEN [decision EXCEPT !.action = "hold"] ELSE decision

(* write_decision_detail *)
DecisionDetail(decision) ==
    [proposed |-> decision.action, gate_hold |-> GateHolds(decision),
     succeeded |-> decision.succeeded]

DecisionDue(sequence) ==
    \/ sequence % DecisionEvery = 0
    \/ model = "tape" /\ sequence \in DOMAIN tape

-----------------------------------------------------------------------------
(* parse_row. *)

RowValid(row) ==
    /\ row.sequence > 0 /\ row.time > 0
    /\ row.best_bid > 0 /\ row.best_ask >= row.best_bid
    /\ row.bid_quantity >= 0 /\ row.ask_quantity >= 0

(* Trades are left out: market orders do not meet them. *)
EventOf(row) ==
    [sequence |-> row.sequence, exchange_time |-> row.time,
     receive_time |-> row.time + FeedLatency,
     best_bid |-> row.best_bid, best_ask |-> row.best_ask,
     bid_quantity |-> row.bid_quantity, ask_quantity |-> row.ask_quantity,
     trade_price |-> None, trade_quantity |-> 0, aggressor |-> None]

(* An optional is empty or holds a value, never both. *)
ASSUME EmptyAssumption ==
    /\ \A row \in Rows : None # EventOf(row)
    /\ None \notin [decision : Decisions, time : Int]

-----------------------------------------------------------------------------
(* The first half of a row: the pending decision becomes an order. *)

Target(action) ==
    CASE action = "long" -> TargetUnits
      [] action = "short" -> -TargetUnits
      [] action = "hold" -> ledger.position

(* Mutant of Delta: the order is for the target, whatever is held. *)
DeltaFromFlat(action) == IF action = "hold" THEN 0 ELSE Target(action)

Delta(action) == Target(action) - ledger.position

Signals == pending # None /\ pending.decision.succeeded /\ Delta(pending.decision.action) # 0

OrderOfDecision ==
    LET delta == Delta(pending.decision.action)
    IN  [id |-> pending.decision.sequence,
         side |-> IF delta > 0 THEN "buy" ELSE "sell", type |-> "market",
         quantity |-> Magnitude(delta), limit_price |-> None, reduce_only |-> FALSE]

OrderTaken == Signals /\ SubmitReason(OrderOfDecision, pending.time) = "accept"

BookAfterDecision ==
    IF OrderTaken THEN AfterSubmit(OrderOfDecision, pending.time) ELSE Book

Decided ==
    IF OrderTaken
    THEN Append(history.decided, [time |-> pending.time, action |-> pending.decision.action])
    ELSE history.decided

MetricsAfterDecision ==
    [metrics EXCEPT !.signals = @ + (IF Signals THEN 1 ELSE 0),
                    !.accepted = @ + (IF OrderTaken THEN 1 ELSE 0),
                    !.rejected = @ + (IF Signals /\ ~OrderTaken THEN 1 ELSE 0)]

-----------------------------------------------------------------------------
(* The second half: the event, and what the model makes of it. *)

(* Mutant of PeakAfter: the peak follows the equity down. *)
PeakAfterLast(equity) == equity

PeakAfter(equity) == IF equity > metrics.peak THEN equity ELSE metrics.peak

DrawdownAfter(equity) ==
    LET fall == PeakAfter(equity) - equity
    IN  IF fall > metrics.drawdown THEN fall ELSE metrics.drawdown

Measured(equity) ==
    [MetricsAfterDecision EXCEPT
        !.events = @ + 1,
        !.decisions = @ + (IF pending' = None THEN 0 ELSE 1),
        !.peak = PeakAfter(equity),
        !.drawdown = DrawdownAfter(equity)]

AcceptRow(row) ==
    LET event == EventOf(row)
    IN  /\ status = "running"
        /\ RowValid(row)
        /\ EventAccepted(event)
        /\ market' = event
        /\ Becomes(AfterEvent(BookAfterDecision, event))
        /\ Update(event)
        /\ IF DecisionDue(event.sequence)
           THEN \E decision \in DecisionsOn(event.sequence) :
                   /\ pending' = [decision |-> Gated(decision), time |-> event.receive_time]
                   /\ detail' = Append(detail, DecisionDetail(decision))
           ELSE pending' = None /\ UNCHANGED detail
        /\ metrics' = Measured(ledger'.equity)
        /\ written' = Len(fills')
        /\ history' = [decided |-> Decided,
                       equities |-> Append(history.equities, ledger'.equity),
                       ties |-> \/ history.ties
                                \/ market # None /\ market.receive_time >= event.receive_time]
        /\ UNCHANGED <<ignored, model, tape, status>>

(* The order of the pending decision is placed even if the row is refused. *)
RefuseRow(row) ==
    LET event == EventOf(row)
    IN  /\ status = "running"
        /\ RowValid(row)
        /\ ~EventAccepted(event)
        /\ ignored < MaxIgnored
        /\ ignored' = ignored + 1
        /\ Becomes(BookAfterDecision)
        /\ metrics' = [MetricsAfterDecision EXCEPT !.ignored = @ + 1]
        /\ pending' = None
        /\ history' = [history EXCEPT !.decided = Decided]
        /\ UNCHANGED <<market, featureVars, model, tape, written, detail, status>>

(* The program exits without metrics. *)
InvalidRow(row) ==
    /\ status = "running"
    /\ ~RowValid(row)
    /\ status' = "failed"
    /\ UNCHANGED <<vars, featureVars, model, tape, pending, metrics, written, detail, history>>

-----------------------------------------------------------------------------
(* The end of the file: gross profit and loss are summed over the fills. *)

Losses ==
    SumFunction([n \in DOMAIN fills |->
        IF fills[n].realized_pnl < 0 THEN -fills[n].realized_pnl ELSE 0])

Profits ==
    SumFunction([n \in DOMAIN fills |->
        IF fills[n].realized_pnl > 0 THEN fills[n].realized_pnl ELSE 0])

Finish ==
    /\ status = "running"
    /\ status' = "finished"
    /\ metrics' = [metrics EXCEPT !.gross_profit = Profits, !.gross_loss = Losses,
                                 !.pnl = ledger.equity - metrics.initial]
    /\ UNCHANGED <<vars, featureVars, model, tape, pending, written, detail, history>>

-----------------------------------------------------------------------------
ReplayInit ==
    /\ Init
    /\ InitFeatures
    /\ model \in Models
    /\ \E file \in TapeFiles :
          /\ tape = IF model = "tape" /\ TapeLoads(file) THEN TapeOf(file) ELSE <<>>
          /\ status = IF model = "tape" /\ ~TapeLoads(file) THEN "failed" ELSE "running"
    /\ pending = None
    /\ metrics = [events |-> 0, decisions |-> 0, signals |-> 0, accepted |-> 0,
                  rejected |-> 0, ignored |-> 0, initial |-> ledger.equity,
                  peak |-> ledger.equity, drawdown |-> 0,
                  gross_profit |-> 0, gross_loss |-> 0, pnl |-> 0]
    /\ written = 0
    /\ detail = <<>>
    /\ history = [decided |-> <<>>, equities |-> <<ledger.equity>>, ties |-> FALSE]

ReplayNext ==
    \/ \E row \in Rows : AcceptRow(row)
    \/ \E row \in Rows : RefuseRow(row)
    \/ \E row \in Rows : InvalidRow(row)
    \/ Finish

ReplaySpec == ReplayInit /\ [][ReplayNext]_replayVars

-----------------------------------------------------------------------------
(* decision_tape of run_one: the decisions counted from the detail file. *)
DecisionTapeReport ==
    LET count(Test(_)) == Cardinality({i \in DOMAIN detail : Test(detail[i])})
    IN  [decisions |-> Len(detail),
         errors |-> count(LAMBDA event : ~event.succeeded),
         proposed_actions |->
            [action \in {detail[i].proposed : i \in DOMAIN detail} |->
                count(LAMBDA event : event.proposed = action)],
         gated_holds |-> count(LAMBDA event : event.gate_hold)]

(* The position that a decision with a side is after. *)
Sought(action) == IF action = "long" THEN TargetUnits ELSE -TargetUnits

(* The replay does not look ahead: a fill happens on a row after the one its *)
(* decision was made on, and at a later time, even if rows share a time or   *)
(* rows in between were refused (TODO.md, "Build the causal aggregate replay *)
(* engine").                                                               *)
NoLookahead ==
    [][ \A n \in NewFills :
          LET order == fills'[n].order_id
          IN  /\ market'.sequence > orders'[order].request.id
              /\ market'.receive_time > history'.decided[order].time
      ]_replayVars

(* While the times of the rows increase, the position is flat until the first *)
(* fill and then always the target, on its side, of the decision that the last *)
(* fill came from, through reversals, orders rejected and rows refused.  With   *)
(* rows of equal time an order is still waiting when the next one is sized, and *)
(* the position may pass the target and the position limit.                    *)
PositionOnTarget ==
    ~history.ties =>
        ledger.position =
            IF fills = <<>> THEN 0
            ELSE Sought(history.decided[fills[Len(fills)].order_id].action)

(* What a decision needs to become a signal. *)
Tradable(entry) == entry.proposed # "hold" /\ ~entry.gate_hold /\ entry.succeeded

(* The report adds up: every signal was accepted or rejected, every accepted *)
(* order is in the exchange, the detail file has every fill and every          *)
(* decision, every signal came from a decision in it with a side, ungated and  *)
(* without error, so that signals, errors and gated decisions (gated_holds     *)
(* counts proposals to hold with the others) are apart, and the profit reported *)
(* is gross profit less gross loss, plus what is unrealised, less the fees.     *)
ReportReconciles ==
    /\ metrics.signals = metrics.accepted + metrics.rejected
    /\ metrics.accepted = Len(orders)
    /\ metrics.ignored = ignored
    /\ written = Len(fills)
    /\ metrics.signals <= Cardinality({i \in DOMAIN detail : Tradable(detail[i])})
    /\ LET counted == DecisionTapeReport
           proposals == DOMAIN counted.proposed_actions \ {"hold"}
           directional == SumFunctionOnSet(counted.proposed_actions, proposals)
       IN  /\ counted.decisions = metrics.decisions
           /\ metrics.signals <= directional
           /\ metrics.signals + counted.errors + counted.gated_holds <= counted.decisions
    /\ status = "finished" =>
          metrics.pnl = metrics.gross_profit - metrics.gross_loss
                          + ledger.unrealized_pnl - ledger.total_fee

(* The drawdown reported is the largest fall of the equity from any earlier   *)
(* point, the start included.                                               *)
DrawdownIsLargestFall ==
    LET equities == history.equities
    IN  metrics.drawdown =
            Max({equities[p[1]] - equities[p[2]] : p \in
                    {p \in (DOMAIN equities) \X (DOMAIN equities) : p[1] <= p[2]}})
=============================================================================
