----------------------------- MODULE LiveTrader -----------------------------
(***************************************************************************)
(* astra_trader --live: the handler that the feed thread runs for every     *)
(* event, on a PaperExchange, an ExchangeClock and a ModelWorker whose      *)
(* thread runs beside it.  The handler meets the worker twice, when it       *)
(* submits a state and when it looks for a decision; between the two the    *)
(* worker may do anything, so the handler is two actions.                   *)
(*                                                                         *)
(*   use_laya   --baseline was not given                                   *)
(*   handling   the handler is between its two halves                       *)
(*   position   the handler's `position': the ledger's before it orders     *)
(*   latest     latest_decision                                            *)
(*   last_used  last_decision_sequence                                     *)
(*   reports    the sequence that status_store holds and the number of      *)
(*              lines given to the audit writer                            *)
(*   history    for the properties: the offset resets seen by the clock,     *)
(*              as events since the last one, and for every order tried,    *)
(*              even in vain, the event, the decision it came from and the   *)
(*              newest state submitted then                                  *)
(*   aim        for the properties too: the action of the last decision that    *)
(*              was carried out, "hold" before the first                      *)
(*                                                                         *)
(* The feature builder has no part in it: what the model answers is          *)
(* arbitrary.  Order quantities are one lot (`wanted' is 1 or -1).           *)
(***************************************************************************)
EXTENDS PaperExchange

CONSTANTS
    Outcomes,               \* what decisions may say
    WarmupSamples, MaxResidual,
    DecideEvery,            \* 1'000: events between two submissions
    BaselineEvery,          \* 500: events between two baseline decisions
    PublishEvery,           \* 100: events between two status snapshots
    MaxLag,                 \* 2'500: events after which a decision is too old
    MaxSequence             \* bounds the events

ASSUME TraderAssumption ==
    /\ {DecideEvery, BaselineEvery, PublishEvery} \subseteq Nat \ {0}
    /\ {MaxLag, MaxSequence, WarmupSamples} \subseteq Nat
    /\ MaxResidual \in Int
    /\ \A event \in Events : event.sequence <= MaxSequence

VARIABLES use_laya, handling, position, latest, last_used, reports, history, aim
VARIABLES minimum_offset, clock
VARIABLES pending, completed, coalesced, stopping, caller, worker, deciding, log

exchangeVars == <<market, orders, fills, ledger, ignored>>
clockVars == <<minimum_offset, clock>>
workerVars == <<pending, completed, coalesced, stopping, caller, worker, deciding, log>>
decisionVars == <<latest, last_used>>

liveVars == <<exchangeVars, clockVars, workerVars, decisionVars,
              use_laya, handling, position, reports, history, aim>>

Clock == INSTANCE ExchangeClock
Model == INSTANCE ModelWorker

(* An empty optional is not a decision. *)
ASSUME OptionalAssumption == None \notin Model!Decisions

LiveInit ==
    /\ Init
    /\ Clock!InitClock
    /\ Model!Init
    /\ use_laya \in BOOLEAN
    /\ handling = FALSE
    /\ position = 0
    /\ latest = None
    /\ last_used = 0
    /\ reports = [published |-> 0, audited |-> 0]
    /\ history = [since_reset |-> 0, attempts |-> <<>>]
    /\ aim = "hold"

-----------------------------------------------------------------------------
(* The first half: the event reaches the exchange, the clock and, every     *)
(* DecideEvery events, the model worker.                                    *)

(* The state that this event makes, if it is time for one. *)
Submits(event) == use_laya /\ event.sequence % DecideEvery = 0

(* Events in which the offset did not move by more than the residual. *)
SinceReset(event) ==
    LET observed == event.receive_time - event.exchange_time
    IN  IF \/ minimum_offset = None
           \/ minimum_offset - observed > MaxResidual
        THEN 1 ELSE history.since_reset + 1

TakeEvent(event) ==
    /\ ~handling
    /\ AcceptEvent(event)
    /\ position' = ledger'.position
    /\ Clock!Observe(event.exchange_time, event.receive_time)
    /\ IF Submits(event) THEN Model!Submit(event.sequence) ELSE UNCHANGED workerVars
    /\ handling' = TRUE
    /\ history' = [history EXCEPT !.since_reset = SinceReset(event)]
    /\ UNCHANGED <<decisionVars, use_laya, reports, aim>>

(* The handler returns at once when the exchange refuses the event. *)
RefuseEvent(event) ==
    /\ ~handling
    /\ IgnoreEvent(event)
    /\ UNCHANGED <<clockVars, workerVars, decisionVars, use_laya, handling, position,
                   reports, history, aim>>

-----------------------------------------------------------------------------
(* The second half: a decision is looked for, and acted on once. *)

(* The decision of the displayed quantities: the other source of decisions. *)
BaselineDecision ==
    [sequence |-> market.sequence,
     outcome |-> [action |-> IF market.bid_quantity >= market.ask_quantity
                             THEN "long" ELSE "short",
                  confident |-> TRUE, succeeded |-> TRUE]]

BaselineDecides == ~use_laya /\ market.sequence % BaselineEvery = 0

NewDecision == BaselineDecides \/ (use_laya /\ completed # None)

Latest ==
    IF BaselineDecides THEN BaselineDecision
    ELSE IF use_laya /\ completed # None THEN completed ELSE latest

(* Mutant of Usable: a decision may be used again. *)
UsableAgain(decision) ==
    /\ decision # None
    /\ decision.sequence <= market.sequence
    /\ market.sequence - decision.sequence <= MaxLag

(* Newer than the last one used and not too far behind the market. *)
Usable(decision) ==
    /\ decision # None
    /\ decision.sequence > last_used
    /\ decision.sequence <= market.sequence
    /\ market.sequence - decision.sequence <= MaxLag

(* The signal gate; `confident' is a probability of at least 55%. *)
Permitted(outcome) ==
    /\ outcome.succeeded
    /\ outcome.action # "hold"
    /\ outcome.confident
    /\ clock.stable

Wanted(outcome) == IF outcome.action = "long" THEN 1 ELSE -1

(* Mutant of Delta: the order is for the target, whatever is held. *)
DeltaFromFlat(outcome) == Wanted(outcome)

Delta(outcome) == Wanted(outcome) - position

(* The order that takes the position to the target of the decision. *)
OrderFor(outcome) ==
    LET delta == Delta(outcome)
    IN  [id |-> market.sequence, side |-> IF delta > 0 THEN "buy" ELSE "sell",
         type |-> "market", quantity |-> Magnitude(delta), limit_price |-> None,
         reduce_only |-> FALSE]

Orders(decision) ==
    Usable(decision) /\ Permitted(decision.outcome) /\ Delta(decision.outcome) # 0

Accepted(decision) ==
    /\ Orders(decision)
    /\ SubmitReason(OrderFor(decision.outcome), market.receive_time) = "accept"

NewestSubmitted ==
    IF log.asked = {} THEN market.sequence
    ELSE CHOOSE newest \in log.asked : \A other \in log.asked : other <= newest

Attempt(decision) ==
    [order |-> market.sequence, decision |-> decision.sequence,
     newest |-> IF use_laya THEN NewestSubmitted ELSE decision.sequence]

(* Audit lines: one for a decision, one for an order, refused or not. *)
LinesOf(decision) ==
    (IF NewDecision THEN 1 ELSE 0) + (IF Orders(decision) THEN 1 ELSE 0)

(* The decision passed the gates, and either the position was already its      *)
(* target or the exchange reported its order as filled.                       *)
CarriedOut(decision) ==
    /\ Usable(decision)
    /\ Permitted(decision.outcome)
    /\ \/ Delta(decision.outcome) = 0
       \/ Accepted(decision) /\ orders'[Len(orders) + 1].status = "filled"

Decide ==
    /\ handling
    /\ caller = "ready"
    /\ handling' = FALSE
    /\ latest' = Latest
    /\ IF use_laya /\ completed # None THEN Model!TryTake ELSE UNCHANGED workerVars
    /\ reports' = [published |-> IF market.sequence % PublishEvery = 0
                                 THEN market.sequence ELSE reports.published,
                   audited |-> reports.audited + LinesOf(Latest)]
    /\ last_used' = IF Usable(Latest) THEN Latest.sequence ELSE last_used
    /\ IF Accepted(Latest)
       THEN /\ Becomes(AfterSubmit(OrderFor(Latest.outcome), market.receive_time))
            /\ UNCHANGED <<market, ignored>>
       ELSE UNCHANGED exchangeVars
    /\ history' = IF Orders(Latest)
                  THEN [history EXCEPT !.attempts = Append(@, Attempt(Latest))]
                  ELSE history
    /\ aim' = IF CarriedOut(Latest) THEN Latest.outcome.action ELSE aim
    /\ UNCHANGED <<clockVars, use_laya, position>>

(* Steps of the worker thread, and the notify that ends a submission. *)
WorkerStep ==
    /\ Model!Worker \/ Model!Notify
    /\ UNCHANGED <<exchangeVars, clockVars, decisionVars, use_laya, handling, position,
                   reports, history, aim>>

LiveNext ==
    \/ \E event \in Events : TakeEvent(event)
    \/ \E event \in Events : RefuseEvent(event)
    \/ Decide
    \/ WorkerStep

LiveSpec == LiveInit /\ [][LiveNext]_liveVars

-----------------------------------------------------------------------------
(* The position is one lot on the side of the last decision carried out, and    *)
(* flat before the first: however late decisions come and whichever of them     *)
(* the gates, the risk engine or the exchange turn down in between, each order   *)
(* is sized from the position that the ledger really has.                      *)
PositionIsTarget ==
    /\ aim = "hold" => ledger.position = 0
    /\ aim = "long" => ledger.position = 1
    /\ aim = "short" => ledger.position = -1

(* Every order, even one that the risk engine refused, comes from a decision  *)
(* of its own, in the order of the states decided on: a decision is tried     *)
(* once, never after one about a later state, and never more than MaxLag       *)
(* events late, however long the model took.                                 *)
DecisionsUsedOnce ==
    LET attempts == history.attempts
    IN  /\ \A i, j \in DOMAIN attempts :
              i < j => attempts[i].decision < attempts[j].decision
        /\ \A i \in DOMAIN attempts : attempts[i].order - attempts[i].decision \in 0 .. MaxLag

(* After the clock's offset was reset the gate holds for a whole warm-up       *)
(* (README.md, "an offset reset or latency spike returns the gate to hold"):  *)
(* no order is placed on the events of a warm-up or on a late event.          *)
NoOrderInWarmup ==
    [][ Len(history'.attempts) > Len(history.attempts) =>
           /\ history.since_reset >= WarmupSamples
           /\ market.receive_time - market.exchange_time - minimum_offset <= MaxResidual
      ]_liveVars

(* The claim of TODO.md, "reject responses for superseded states": an order   *)
(* comes from a decision about the newest state submitted to the model.       *)
SupersededRejected ==
    \A i \in DOMAIN history.attempts :
        history.attempts[i].decision >= history.attempts[i].newest
=============================================================================
