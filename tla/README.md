# Verification of Astra Trader

TLA+ models of the C++ core of this repository and of the scripts that prepare
its data, TLC configurations that check them on small instances, and TLAPS
proofs of theorems about them. The paths below are those of the repository
(`src/`, `include/`, `apps/`, `tests/`, `scripts/`).

## 1. The system and its inventory

Astra Trader is a paper-trading engine for one perpetual contract. A feed
delivers quotes and trades; a language-model gateway (Laya) is asked now and
then which way to go; the answer, if a set of gates lets it through, becomes an
order on a simulated exchange, which keeps a ledger. A replay program drives
the same exchange from a file.

| Part | State | Operations | Hard to test |
| --- | --- | --- | --- |
| `PerpetualLedger` (`ledger.cpp`) | cash, position, cost basis, entry price, profit, fees, equity, mark | `apply_fill`, `mark_to_market` | int64 overflow half-way through a fill; truncation over long sequences; reversals |
| `RiskEngine` (`risk.cpp`) | none (limits) | `evaluate` | limits met exactly, reduce-only with reversal, which check wins |
| `PaperExchange` (`paper_exchange.cpp`) | last event, orders, fills, ledger, ignored events | `on_market_event`, `submit`, `cancel` | order of the passes in one event, partial fills against cancellations, latencies, repeated events, queue positions |
| `ModelWorker` (`model_worker.cpp`) | pending state, completed decision, counter, stop flag | `submit`, `try_take`, destructor; worker thread | lost wake-ups, coalescing against a worker that just took the state, shutdown in the middle of a decision |
| `AuditWriter` (`audit_writer.cpp`) | bounded queue, dropped counter, health, stop flag | `append`, destructor; writer thread | full queue, failure to open or write, drain on shutdown |
| `ExchangeClock` (`exchange_clock.cpp`) | minimum offset, samples, stable | `observe` | reset in the middle of a warm-up, spikes, clocks that step |
| live handler (`apps/astra_trader/main.cpp`) | latest and last used decision, all of the above | one handler per feed event | a decision that arrives between two lines of the handler, late, twice or superseded |
| `FeatureBuilder` (`feature_builder.cpp`) | ring of midpoints | `update` | off-by-one of the ring |
| `LayaGateway` (`laya_gateway.cpp`) | a connection | `decide` | two attempts, a connection the peer closed, a server that never answers |
| `BinancePublicFeed` (`binance_public_feed.cpp`) | stop flag, last quote, back-off | `run`, `stop` | stop before run, reconnection with a stale quote |
| `StatusStore`, `StatusServer` (`status_server.cpp`) | snapshot; listener thread, stop flag | `publish`, `snapshot`; `stop` | stop while a client is being read |
| replay (`apps/astra_replay/main.cpp`) | decision carried to the next row, tape, metrics | one step per row | decisions one event late, rejected rows, equal timestamps |
| data preparation (`scripts/build_btc_*.py`) | files | trades to minutes to replay rows; trades to bars to minutes | overlapping monthly and daily archives, two programs that must agree |
| model report (`scripts/run_btc_model_oos_report.py`) | samples, simulated account | one step per row, one per sample | features or labels that see what they must not, rounding over a long simulation |
| candidate selection (`run_btc_regime_router_oos.py`, `run_btc_regime_experts_oos.py`, `run_btc_tick_baseline_oos.py`, `run_btc_laya_head_oos.py` with `attach_cpp_tape_metrics.py`, and the model report) | samples, what was fitted, scored candidates, the chosen one, tapes, metrics | load and fit, try a candidate, choose, evaluate a split, a part of the holdout, attach | the holdout having a say in the choice, three places that gate, periods written by hand, no candidate or an empty tape |
| label grid (`diagnose_btc_tick_label_grid.py`) | counts | count labels | labels computed in three programs |
| replay report (`run_btc_cpp_replay_report.py`) | counts of a detail file | `run_one` | decisions that were gated or failed counted with the others |
| threshold report (`generate_btc_threshold_report.py`) | none | copies fields | |
| run scripts, dashboard, `reports/` | | | outside the trading program |

How they interact. The feed thread is the main thread: it calls the handler,
and the handler calls the exchange, the clock, the features, `submit` and
`try_take` of the worker, `append` of the audit writer and `publish` of the
status store, all synchronously. Three more threads exist: the worker's (which
calls the gateway), the writer's and the status server's. They share state with
the feed thread only inside those classes, under one mutex each. Within one
call of `on_market_event` the exchange works through all orders in order of
submission three times (activation, trade matching, due cancellations) and
then marks the ledger.

What makes each part correct:

* ledger: what is stored fits its width whatever is called; cash, equity and
  the totals agree; the cost basis belongs to the position; profit does not
  depend on how a position is unwound;
* exchange: order, fill log and ledger agree; nothing trades before it is
  active, beyond its limit, or on volume that was not there; ended orders stay
  ended; a repeated event does nothing; cancellations take effect when due;
* worker and writer: nothing is lost without being counted, answers and lines
  stay in order, no wake-up is lost, destructors return;
* handler: one order at most for each decision, none on an old one or while the
  clock is not trusted, and the position is what the last order aimed at;
* process: nothing is used after it was destroyed, an answer belongs to the
  question it is labelled with, and a stop ends the process;
* research: every trade counts once, a feature does not see later rows, a sample
  has one label whoever computes it, what chooses a model does not see the
  holdout, what is reported is what was chosen, each decision is evaluated in one
  period, the simulated money adds up.

## 2. Modules

| Module | Models | Uses |
| --- | --- | --- |
| `FixedPoint` | integer widths, truncating division, rescaling | |
| `LedgerState` | the ledger record; `apply_fill` and `mark_to_market` as operators | `FixedPoint` |
| `Ledger` | `PerpetualLedger` as a state machine | `LedgerState` |
| `CashAccount` | abstract: an account that pays the value of what it closes and opens | |
| `LedgerProofs` | theorems about `Ledger` | `Ledger` |
| `Risk` | `RiskEngine::evaluate` | `LedgerState` |
| `PaperExchange` | the exchange with its orders, fills and ledger | `Risk` |
| `ExchangeProofs` | theorems about `PaperExchange` | `PaperExchange` |
| `AnswerStream` | abstract: questions and ever newer answers | |
| `ModelWorker` | the worker's two threads | refines `AnswerStream` |
| `ModelWorkerProofs` | theorems about `ModelWorker` | `ModelWorker` |
| `AuditWriter` | the writer's two threads | |
| `AuditWriterProofs` | theorems about `AuditWriter` | `AuditWriter` |
| `ExchangeClock` | `observe` | |
| `LiveTrader` | the live handler | composes `PaperExchange`, `ExchangeClock`, `ModelWorker` |
| `LiveTraderProofs` | theorems about `LiveTrader` | `LiveTrader`, `ExchangeProofs`, `ModelWorkerProofs` |
| `FeatureBuilder` | the ring of midpoints and what `update` computes | `FixedPoint` |
| `Replay` | the loop of `astra_replay` | composes `PaperExchange`, `FeatureBuilder` |
| `ReplayProofs` | theorems about `Replay` and `FeatureBuilder` | `Replay`, `ExchangeProofs` |
| `LayaGateway` | `decide` and its connection, and the server it talks to | |
| `Process` | the life of `astra_trader --live`: feed, status server, signals, destruction | composes `ModelWorker`, `LayaGateway` |
| `ProcessProofs` | theorems about `Process` and `LayaGateway` | `Process`, `ModelWorkerProofs` |
| `Filter` | what a list comprehension keeps and at which places, as a recursive function | |
| `MarketData` | the two ways from archives of trades to minutes, as operators | `Filter` |
| `ModelReport` | samples and simulation of the report program | |
| `TickSamples` | samples cut from minutes, and the three computations of a label, as operators | `ModelReport`, `MarketData` |
| `Research` | the report run on the file built from a directory | composes `ModelReport`, `MarketData`, `TickSamples` |
| `Calibration` | the five programs that fit, choose a candidate and evaluate it | |
| `Pipelines` | one research program on one input | `Research`, `Calibration` |
| `PipelinesProofs` | theorems about `MarketData`, `Research` and `Calibration` | `Pipelines` |
| `MCLedger`, `MCPaperExchange`, `MCLiveTrader`, `MCReplay`, `MCResearch`, `MCCalibration`, `MCPipelines` | instances for TLC | |

### Correspondence

*Ledger.* `state` is `LedgerState` field by field. `Candidate` is the copy that
`apply_fill` builds, `FillFits` all of its overflow checks, and `AfterFill` is
the copy marked at the fill price, or the old state: the code assigns `state_`
only at its end, so the checks have no order that could be seen. `MaxUnits`
and `MaxWide` stand for 2^63 - 1 and 2^127 - 1; the scale factors for the powers
of ten that convert price times quantity to account units. `history` is not in
the code: it adds up what the calls did, and for the present position keeps the
range of its entry prices and how often it was added to and partly closed.

*PaperExchange.* `Book` is the part of the state that a handler works on. The
passes of `on_market_event` are recursive functions over the orders, because a
fill changes the ledger that the next order sees. `AcceptEvent` is the whole
handler, including the mark at its end; `IgnoreEvent` its early return. A
client id maps to its order by search (`OrderOf`), which is what the index map
holds. Identifiers of orders and fills are their positions in the sequences.

*ModelWorker, AuditWriter.* A critical section is one action. What a thread
does after unlocking (`notify_one`, the decision function, writing to the file,
`join`) is an action of its own, and so is waking up for no reason.
`condition_.wait(lock, predicate)` is `Sleep` when the predicate is false, and
the locked part that follows it when it is true. `log` is not in the code.

*ExchangeClock.* `Observe` is `observe`; `Unusable` its early return.

*LiveTrader.* The handler is two actions, `TakeEvent` (up to and including
`submit`) and `Decide` (the rest), because the worker's thread may act between
them; everywhere else the two threads commute. `handling` is the program
counter. `Decide` calls the models of `try_take` and `submit`. What the model
answers is arbitrary, and so is when. `aim` is not in the code: the action of the
last decision that was carried out (`CarriedOut`: it passed every gate, and the
exchange filled its order or the position was already there).

*FeatureBuilder.* `Update` is `update`; the ring's places are numbered as in
`midpoints_`. Of the result only the two computed features are kept, the rest
are copies of the event. `seen` is not in the code: all midpoints so far.

*Replay.* One action per row: the pending decision becomes an order
(`BookAfterDecision`), then the event reaches the exchange and the features,
then the model decides (`AcceptRow`). `RefuseRow` is the `continue` after
`on_market_event` returns false, by which time the order has been placed;
`InvalidRow` is the exit on a row that does not parse; `Finish` the end of the
file. A decision carries the probability of its own action, which is the one
compared with the threshold. Laya answers anything. Rows outside the chosen
interval leave no trace. Rows carry no trade, since the market orders of the
replay are never matched with one. `history` is not in the code; it keeps the time
and the action of the decision behind each order. `detail` is the
detail file as far as `run_one` of the replay report counts it
(`DecisionTapeReport`). A hold is gated like any other action, so `gated_holds`
also counts holds below the threshold, which the report calls "directional
proposals gated to hold".

*LayaGateway.* `call` is where `decide` is; each call of the network is an action
and a second one for its failure. `Connect` uses an open socket again without
looking whether the server has closed it, as `connect` does. `Fail` is the
handler of exceptions. The server is external: it answers the questions of a
connection in order, sooner or later or never.

*Process.* `main` is the program counter of the main thread, from the
installation of the handlers to the end of `main`, through the two loops of
`run`; `destroyed` counts the local variables already destroyed, in the order of
`Destruction`, the reverse of their declaration. The signal handler is two
steps, the test of `active_feed` (`SignalArrives`) and the call through it
(`HandlerCalls`), and may run on any thread, which it suspends, and on several at
once. The source reads the pointer in both places, and it is neither atomic nor
volatile: the call may use the pointer that was tested, or one read again, which
may be null by then and ends the process. The worker is `ModelWorker`, with `LayaGateway` as its
decision function. Here every event submits a state; the rest of the handler
is in `LiveTrader`. The audit writer appears as a thread that can take a signal.

*MarketData, ModelReport, Research.* An archive is its month, its day and its
trades. Both pipelines are operators on a directory. `RowsOf` is what `aggregate`
and `write_stream` make of one archive (the trades of each minute, grouped), and
`ReplayRows` joins them; `BarsOf` makes a bar of each trade, and `Bars` and
`MinutesOfBars` fold `Merged` over them: each step is one record, and a bar is
written when the next one begins. `ModelReport` has one
action for each pass through the loop of `build_samples` and one for each sample
of `simulate`. The fitted model may predict anything. A logarithmic return is the
pair of midpoints it is computed from. Prices have two decimals, so the
conversion to units is exact; `Decimal` sums are sums.

*TickSamples.* The sample programs work on floats; here a return is compared as
a fraction, without rounding. `TickSample` cuts a sample from minutes; `Loaded`
joins it with a row of the replay; `Relabel` and `GridCount` label it again from
rows. A row too near the end of the file is a hold for `Relabel`, while the
sample itself may have a label that reaches further, so `LabelsAgree` compares
the samples whose horizon lies in the file. `GridCost` is what the grid takes off
a return: twice the cost that its cell names.

*Calibration.* One state machine for five programs, whose `main()` have the same
shape: `Load` fits, `Try` scores one candidate on the second period, `Select`
takes the first of the largest by the program's own key, `Evaluate` writes the
tape and runs both costs for one split, `EvaluatePart` runs the tape of the
holdout over a part of it, `Attach` is `attach_cpp_tape_metrics.py`.
`CannotLoad`, `NoneEligible` and `ReplayFails` are the exceptions that end a
program. What a fit computes is `Predict`, any function of the features and labels
of the rows it was made on; what an execution computes is `Execution`
(`astra_replay`) or `Simulation` (`simulate`), any function of rows, tape, costs
and gate. Which rows, which tape, which period and which gate is what is
modelled. The router gates in three places (`TriedProbabilities`,
`FinalProbabilities`, `GatedProbabilities`), which are three definitions here.

*Pipelines.* A behaviour is a run of the report on a directory (`Research`) or of
one of the five programs on a file (`Calibration`); the two never run at once
and share no state. They are one specification so that one run checks both.

## 3. Runs

| Run | Instance | Question |
| --- | --- | --- |
| `ledger` | 4 fills of up to 4 units, 3 prices, values rounded to thirds, int64 scaled to 10 | do totals agree and refused calls leave no trace when overflow is near; do cost and entry price belong to the position; is it a cash account |
| `exchange_resting` | 2 of 4 limit orders, 4 events, latencies of 1 | resting orders, queues, cancellations and trades in every order |
| `exchange_taking` | 3 market orders of up to 7 units, 3 events, no latency | limits, reduce-only, step rounding |
| `exchange_lost_cancel` | as `exchange_resting` | **violated**: see findings |
| `model_worker` | 4 submissions | both threads, safety and liveness |
| `audit_writer` | queue of 2, 5 appends | both threads, failures, liveness |
| `live_trader` | 6 events, 3 network delays, 2 books, 4 answers | the handler with worker and clock |
| `live_superseded` | as `live_trader` | **violated**: see findings |
| `replay` | 5 rows at 3 books, late, repeated and invalid ones; 4 models, 4 tapes | the replay loop, its report, what is counted of its detail file, and its features |
| `process` | 2 events, 2 signals, delays of 1 to 3 seconds | all threads from start to end, and the signal handler on any of them |
| `research` | 256 price series, 2 directories each of 9 minutes in the file, 3 trades in each, warm-up 2, horizon 1, 2 pairs of costs; 5 programs on 39 files of 17 rows and up to 14 samples | both pipelines, samples, labels and simulation; the choice of a candidate and what is reported of it |
| `research_holdout` | the first part of `research` | **violated**: see findings |

Some properties are conjunctions of facts that one mistake would break together:
`FillsAccounted` (order, fill log and ledger agree; executed quantities are
conserved), `WriterProgresses` (lines are written, the destructor returns),
`DecisionsUsedOnce` (once, in order, in time), `PipelinesAgree` (same minutes,
usable rows, every trade once).

Each property of a passing run is broken by at least one plausible bug of the
code; those variants stand next to the definitions they change ("Mutant of").

Bounds, and why they are enough:

* *ledger*: four fills reach open, add, partial close, reversal, and a close of
  the reversed position; 10 units is small enough that every check of
  `apply_fill` refuses something. A product is divided by three, as the programs
  divide by a thousand, so every value is rounded, the two halves of a reversal
  apart, and so is the cost that a partial close takes. Both errors that
  `AverageWithinEntryPrices` allows are reached: with a smaller factor TLC finds it
  violated. The theorems cover every size and every scale.
* *exchange*: two resting orders compete for one trade; four events are enough
  for acknowledgement, queue consumption, partial fill and due cancellation of
  one order, with one event to spare; the second and third carry the same
  receive time. The taking instance has three orders (open, reverse, close) at
  prices that lose more than the drawdown limit. `MaxIgnored = 1`: an ignored
  event changes only a counter.
* *worker*: with four states one is decided on, one pending, one replaces it and
  one comes after the answer. *Writer*: five lines on a queue of two give a
  full batch being written, a full queue behind it and a dropped line.
* *handler*: states are submitted every second event, decisions expire after
  three (the program: 1,000 and 2,500), so a decision can arrive on time, after
  its successor was submitted, and too late. Two warm-up samples and residual 1
  let the gate open, close on a delay and be reset within six events.

* *replay*: a decision is due on every second row (or wherever the tape has
  one), so five rows give a decision, its fill, a reversal and its fill. A row
  may be one unit late, which makes it share its time with the next, and at most
  one row is refused. A ring of two places wraps twice. The target equals the
  position limit and half the order limit, as in the program.
* *process*: with two events the second request meets the connection, the late
  answer or the failure that the first one left, and the worker can be idle,
  waiting or asking when the signal comes. With two signals the second meets a
  feed that the first has stopped: `run` may return and `main` clear the pointer
  between the two reads of the second handler. A third would find nothing else. One
  handler runs on a thread at a time: one that interrupts another on the same
  thread does nothing that the other does not.
* *research*: the two directories hold the same trades, once as two months and
  once as a month beside its last day and the days of the next; a month before
  the wanted ones is in both. Nine minutes with a gap give samples in each of
  three periods and rows in none. Each has a trade in its first bar and two in
  its second. The file ends within the ninth, of which the last trade comes after
  its end, as do all of a tenth.
* *candidate selection*: the rows lie at the ends of the periods (the last minute
  of one and the first of the next, and the ends of the parts of the holdout,
  which are the program's own dates), because that is where a date can be off.
  36 files are every combination of four first, three second and three third
  periods, so each has others that differ only in the holdout; three more lack
  samples of a period, for the exceptions. `MinFills` is 2 instead of 30, so that
  with five rows some candidates pass and some programs find none. The
  stand-ins for the model and the execution are simple but depend on every
  argument: on the rows fitted to, the temperature, the tape, the costs and the
  gate.

All runs but that of the ledger disable the deadlock check: their events and
calls are bounded, the programs end, and the thread models end when the caller
has joined.

### Fairness

Safety is checked without fairness. `ModelWorker` and `AuditWriter` assume weak
fairness of the caller inside a call it has begun (`Notify`, `Join`) and of the
other thread: both are ordinary threads that the operating system schedules,
and holding a mutex is never waited on inside an action. Nothing assumes that
the caller calls anything, that a condition variable wakes spuriously, or that
the caller takes decisions. One part of this is an assumption on the
environment: that the decision function returns.

`Process` makes that assumption visible. It assumes weak fairness only of what a
thread does by itself (`MainAlone`, `StatusAlone`, `WorkerAlone`,
`HandlerCalls`), and `StopEndsProcess` has the premise `CallsReturn`: no call to
another process lasts for ever. The premise is needed. `LayaGateway` and the feed
set deadlines before synchronous reads and writes, which the library applies to
asynchronous operations only, and the status server reads its requests without
any, so a peer that accepts or connects and then says nothing is outside it
(these are listed as hazards). Nothing is assumed of signals.

## 4. Proofs

TLAPS checks the theorems of `LedgerProofs`, `ExchangeProofs`,
`ModelWorkerProofs`, `AuditWriterProofs`, `LiveTraderProofs`, `ReplayProofs`,
`ProcessProofs` and `PipelinesProofs` for every value of the constants, under
the `ASSUME`s that the modules name: widths are positive and the wide type holds
a product, one of the two scale factors is 1, arguments are within the width,
events, requests, rows and tapes have their types, `None` is none of the values
that it stands for the absence of, periods, lookback and the minimum of fills are
positive, capacity and counters are natural numbers. What a single theorem needs
beyond that is a hypothesis of its own, and each is discussed below.

*Ledger.* `LedgerInv` is `TypeOK`, `Bookkeeping`, `CostFollowsPosition` and
`RoundingBounded`, made inductive together: a close splits the cost in
proportion, and that the part stays between zero and the whole (so neither part
changes sign) needs the sign of the cost and the type; the rounding bound needs
that the cost after a reversal is exactly the notional of the new position.
The arithmetic of truncating division is stated once as lemmas. From
`LedgerInv` follow `LedgerTypeCorrect`, `LedgerBookkeeping`,
`LedgerCostFollowsPosition`, `LedgerRoundingBounded`, and
`LedgerImplementsCashAccount`, the refinement. It is exact at every scale: the
account rounds the value of a trade down as `notional` does, and a trade that goes
through zero is two trades to it, since the ledger rounds its halves apart
(`FillPays`). `LedgerAverageWithinEntryPrices` is for every scale too. Its invariant,
`CostWithinEntryPrices`, says that the cost lies between what the units are worth at
the lowest and at the highest entry price since the position was opened, but for
less than one account unit on one side for each fill that added (its value was
rounded down) and on the other for each partial close (the cost it took was). The
average is the cost divided by the units and rounded down. With the programs' scales
an account unit is a thousand of the units in which price times quantity is counted;
where `ScaleDown = 1` nothing is lost and the entry price is within the prices paid.

*ModelWorker.* `WorkerInv` is `TypeOK`, `RequestsAccounted` and `NewestLast`:
sequences strictly increase along the path answered, completed, deciding,
pending, and all are states that were asked for. That is what the refinement
needs, since the abstract answer has to be newer than the last. The account of
requests needs the cardinality of a set that grows by one new element.
`WorkerImplementsAnswerStream` then maps `Submit` to `Ask`, `TryTake` to
`Answer` and every other step to a stutter.

*PaperExchange.* `on_market_event` is three passes over the orders, and the
passes are recursive functions, because a fill changes the ledger that the next
order sees; the totals are sums over a fill log that grows. So the module begins
with induction: over a set rather than an operator (`Induction`, from the least
number outside it), how a sum changes when one term is added, and that a pass
stays in a set of books if each step does. `ExchangeInv` is inductive: it types
the books, keeps every fill on the right side of its order's limit (`FillInv`),
accounts for each order's quantity by the fills that name it, and has position,
profit and fees equal to the sums over the log (`Balanced`). What one event may do
is a relation between the books before and after it, closed under composition:
orders that ended stay, requests and the log stay, a new fill names the event in
hand and an order that was active, and the quantities of maker fills draw on one
volume (`Reaches`, `Progress`, `Taped`). The action properties follow from it.
Three facts need a hypothesis.
`FillsAccounted` and `MakerFillsRespectTape` need `QuantitiesShown`: no event shows
a negative quantity. `parse_row` of the replay refuses such rows, but neither the
exchange nor the live feed looks, and with a negative quantity on the book the
exchange would fill an order by a negative amount. `PositionWithinLimit` and
`ReduceOnlyShrinks` need `ExecutesAtOnce` (market orders, no latency, decided on
the last event), as in the live program: the risk check counts the position but
not what is still working. Both hypotheses are also how the runs are configured.

*AuditWriter.* That the file is a prefix of the accepted lines does not follow
from itself: when the writer adds a batch one has to know that batch and queue are
exactly what is missing. `AuditInv` says so while the stream is good
(`RestUnderway`), keeps a witness for the missing part once it is not
(`FileIsPrefix`), and adds that the batch is empty except while it is written,
that a stream that failed is reported or about to be (`FailureKnown`), and that
the writer leaves only with an empty queue or an unhealthy log (`ExitsDrained`).
`LossReported` is what these say of a caller that has joined.

*LiveTrader.* `LiveInv` contains the worker's invariant, so what
`ModelWorkerProofs` says of a worker holds in the handler (`LiveWorkerAnswers`).
Added are two chains of inequalities: no decision tried is newer than the last
one used, and that is no newer than the one the worker gave last; and the clock
has counted no more samples than there were events since its last reset. From them
follow `DecisionsUsedOnce` and `NoOrderInWarmup`. `HandlerInv` adds the exchange's
invariant and what the handler holds between its two halves: the position that it
read, and an event that is the exchange's last. `LivePositionIsTarget` then needs
only `OneLotAtOnce`, which is how `main` configures the exchange: the position is one
lot on the side of the last decision that was carried out, and none before the first.
Orders that the exchange refuses, or accepts and then rejects because the slipped
price or the money does not fit 64 bits, leave both as they were.

*Replay.* A row has two halves, the order of the pending decision and the event;
each is a lemma about the exchange's books, and the theorems put them together.
`ReturnOverLookback` alone is not inductive, since the state does not say how
many rounds the ring has made. `FeatureInv` adds that there is a `start`, the
number of midpoints seen when the present round began, such that the places
before `next_index` hold the midpoints after `start` and the others those of the
round before. `FeatureReturnOverLookback` follows for any sequence of quotes,
and `ReplayReturnOverLookback` for the quotes of the loop. `NoLookahead` needs
that the record of decision times is as long as the list of orders, whichever
the exchange took, and that each order becomes active a latency after its
decision (`Traced`); without a latency it is false, hence its hypothesis.
`DrawdownIsLargestFall` is proved without any: the running peak and drawdown are
attained and are bounds (`Extremes`). `PositionOnTarget` needs the program's own
`acknowledgement_latency_ns` of 1 and step of 1 (`AtNextRow`): then at most the
last order waits, it waits over refused rows only, and it takes the position to
a target (`Reversing`), so that no decision is sized from a position that an
order is about to change. The position is then the target of one decision, that
of the order filled last (`Sought`): the record of decisions keeps the action
beside the time. `ReportReconciles` counts the decision detail: the decisions
that can become orders (`Tradable`: a side, no gate, no failure), those that
failed and those that were gated are disjoint. That a decision that failed is
never gated needs a threshold of at most one (`ThresholdBelowOne`): the program
takes any number for `--probability-threshold-ppm`, and above a million a failed
decision, which holds with probability one, would be counted twice.

*Process, LayaGateway.* `NothingLeftOver` says that a connection carries nothing,
or the question of the call that reads, or one reply about it: every way out of an
exchange but a read answer closes. `AnswersOwnQuestion` needs it, since the
answer is taken from the connection without comparing it with the question. It is
proved of `GatewaySpec`, calls in any order and a server that may reply, close or
say nothing, and again of the composition, where the worker makes the calls.
`ProcessInv` joins it with the worker's invariant and `LifeInv`: how far `main` is
with the destruction and which threads have ended by then (`PartsInOrder`), and
that a signal handler that saw a feed holds up the thread it runs on
(`HandlerHolds`). `ProcessUsesLivingParts` needs the last: `active_feed` may be
cleared between the handler's test and its call of `stop`. Where the call uses the
pointer that was tested, what makes that safe is that `main` cannot get past the
thread that the handler suspended. Where it reads the pointer again, it may call
through null; the theorem bounds when: on another thread than `main`'s, after `run`
returned and `main` cleared the pointer, while the feed itself still lives.

*Research programs.* `PipelinesProofs` begins with induction over a set, as for
the exchange, and with what `Places` of `Filter` keeps: chosen places, in order,
each once. The module exists for that; `SelectSeq` is opaque to the prover.

`SelectionIsReproduced`: what is reported at the end for the second period is what
the candidate was chosen for, whatever the model, the execution, the input and the
minimum of fills are. The property relates the last state to a choice made many
steps before, so it is not inductive. `CalibrationInv` adds where each part of the
state comes from: scores are those of candidates with what was learned
(`SelectedInv`), the selected one is among them, and results and predictions are
those of the splits in order (`ResultsInv`). `GatesAgree` is the lemma that the
three places that gate give the same probabilities, and `SecondSplitIsScore` that
the score of a candidate and the final metrics are then the same call with the
same arguments. `DecisionsEvaluatedOnce` (`HoldoutCoveredOnce`) uses the same
invariant and `SplitIsPeriod`: a split is the samples of one period, each at one
place. It needs `SamplesJoined`: a sample has the time of the row it names, which
is how `load_samples` looks for the row.

`ChoiceIgnoresHoldout` (`SelectionIgnoresHoldout`) compares the run of a program
with what it would do on another input that is the same before the first day of the
holdout (`Twins`). `ScoredInv`, inductive, says that the scores are those of the
candidates in their order and that the selected one is the first of the largest.
The rest is about the two inputs:

* What is learned is the same: rows and samples of the first two periods are at the
  same places (`TwinRows`), so lessons, temperature, thresholds of regimes and the
  experts are too (`TwinModels`), and a sample that both inputs have, with the rows
  before it, has the same regime and probabilities (`AlikeRegimes`).
* The lists of the router's candidates are not the same, since each has the regimes
  of all its rows. Their gates are in one order (`GateOrder`, `Rank`). A gate that
  only later rows pass gives a validation tape of holds, which has no fills and so
  is never eligible (`ClosedGateHolds`). A candidate that is eligible on one input
  therefore has a partner of the same rank and key on the other (`CandidateMatched`,
  `ScoresMatch`), the first of the largest is matched with the first of the largest
  (`FirstIsMatched`), and there is only one (`FirstIsUnique`).

Its hypotheses are `FilesInOrder` (rows and samples ascend in time, and a sample
names a row, as `load_samples` finds it and as the files were written),
`SamplesJoined`, `SimulationLooksBack` (`simulate` reads prices at its samples and
before only, `run_btc_model_oos_report.py:274`) and `HoldingFillsNothing` (a tape
without directions leaves `astra_replay` without an order). The last is where the
minimum of fills matters: with a minimum of 0 a gate that only later rows pass could
be chosen where all others lose, so `CalibrationAssumption` has it positive.

`FeaturesSeeNoLaterRow` and `SimulatedAccountReconciles` are about the report
program on rows in order (`RowsInOrder`, as `write_stream` writes them). The first
carries the samples to the rows that they were computed from (`SamplesInv`,
`FeaturesOfPast`). The second is inductive with the types of the account
(`AccountInv`): a fill moves the difference between the cash and what entry, profits
and fees say by at most two units (`GapOfFill`), because it truncates the notional
and the profit separately, and everything else is exact.

`PipelinesAlwaysAgree` (`PipelinesAgree`) is about two programs that read different
archives in different orders and cut the trades at different places: rows by a
grouping of each archive, minutes by merging bars of five seconds that were merged
from trades. The proof looks at one time and asks what a list of records has there:
the sum of their flows and the last of their closes (`Flow`, `Closes`). Merging
consecutive records keeps both and leaves each time once, in order, if the times
were in order (`GroupsKeep`, `GroupsSorted`); joining lists whose times are apart
keeps the order (`JoinedSorted`), and what one list has at a time stays what it has
(`JoinedOnly`). So the minutes of the bars have, at each
minute, the flow and the close of the trades of the minute in the one archive that
it lies in, and so have the rows. That each trade is counted once (`CountedOnce`) is
the same sum over everything: the flow of the bars is that of the trades of the
archives that count, each of them once by its id. Sums are over any order of the
terms; the lemmas about them repeat some of `ExchangeProofs`, because the two
modules have different constants.

It is proved for `DirectoriesInOrder`, which says of a directory what the programs
take for granted and do not look at:

* the trades of an archive are in order of time and have distinct ids (`aggTrades`
  are written so);
* archives that count do not share a minute and come in order of time: they are
  split at midnight UTC, and their names are dates;
* days without a month come after all months: `archive_paths` puts all months first,
  so the day of a month that is missing between two others would put the rows out
  of order;
* a month has the trades of its days, or reading it instead of them would lose some;
* trades in the range of the file are in archives of 2025 or 2026, the only names
  that `archive_paths` takes.

`MCResearch` states it of its directories as an `ASSUME`, so TLC checks it there.
`OrderedRows` says that the file of such a directory is in order, which is what
`RowsInOrder` above demands. The range of the file ends within a minute (`END_MS` is
23:59:59): the row of that minute is without the last trades, so the property
compares the minutes whose trades are all in the range (`WholeMinute`).

`LabelsAgreeWithPipelines` says, for the same directories, that the label of a sample
computed from minutes is the one that `relabel` computes from rows, and that every
cell of the label grid has the counts of the labels that `relabel` gives at twice the
cost that the cell names. `RowsFollowMinutes` is an
induction over the minutes of the directory (places of rows and of minutes agree),
and `GridLabelsAlike` reduces the three computations to the same two prices.

`FilesInOrder`, `SamplesJoined`, `SimulationLooksBack`, `HoldingFillsNothing` and
`DirectoriesInOrder` hold on the instances that the runs check.

*Only model-checked*: liveness (`PendingServed`, `DestructorReturns`,
`WriterProgresses`, `StopEndsProcess`), which the prover does not cover. Every
safety property of a passing run is stated by a theorem.

## 5. Findings

* **A partial fill loses a cancellation** (`exchange_lost_cancel`).
  `PaperExchange::fill` sets `partially_filled` whatever the status was
  (`paper_exchange.cpp:214`). If the order was `cancel_pending` with its due time
  still ahead, `apply_due_cancels` skips it from then on, and a second `cancel`
  is accepted with a later due time. The test "paper exchange cancellation is
  delayed and idempotent" (`tests/paper_exchange_tests.cpp:95`) states otherwise.
* **Labels reach into the holdout** (`research_holdout`). `build_samples` stops
  only at the end of the file (`scripts/run_btc_model_oos_report.py:161`), so the
  labels of the last rows of a period are computed from prices of the next. Those
  of the validation period choose the temperature (`:352-356`), although the report
  says of the holdout that "no model or threshold choice uses it" (`:413`) and
  `TODO.md:181` that leakage into labels is prevented.
* **Superseded decisions are used** (`live_superseded`). `TODO.md:155` says
  "reject responses for superseded states". The handler accepts a decision if it
  is newer than the last one used and at most 2,500 events old
  (`apps/astra_trader/main.cpp:197-202`); states are submitted every 1,000 events,
  so a decision may be acted on after its successor was submitted.

Not a finding, since nothing in the repository says otherwise, but worth knowing:
with rows of equal time the replay sizes a second order while the first still
waits for its acknowledgement, and the position passes its target and the
position limit (`PositionOnTarget` excludes such files; without that condition
TLC shows it).

Likewise a stop that comes before `run`: `run` clears the flag when it starts
(`binance_public_feed.cpp:184`), and while `active_feed` is null the handler does
nothing, so such a signal is lost and the process goes on. `StopEndsProcess`
leaves these states out.

And a signal that comes when the process is already stopping: the handler tests
`active_feed` and then calls through it (`apps/astra_trader/main.cpp:24`), reading a
plain global twice. If it runs on another thread than `main`'s and `main` clears the
pointer in between (`:256`), a build that reads it again calls through null. The
process was about to end in any case, and nothing says that it may not end so;
`NothingUsedAfterDestruction` says that it happens in no other way.

From the research programs:

* `SelectionIgnoresHoldout` holds for files whose samples before the holdout are
  the same, labels included. The labels of the last validation samples do depend
  on the holdout (`research_holdout`); the choice depends on it in no other way.
  The router's list of candidates does contain the regimes of holdout rows
  (`run_btc_regime_router_oos.py:121`), but a gate that only they pass trades
  nothing in the validation period and fails the minimum of fills.
* The label grid takes off twice the `round_trip_cost_bps` that it reports
  (`diagnose_btc_tick_label_grid.py:106` and `:112`), and its feature effects have 24
  basis points written out (`:119`). Its row of 12 is therefore not "the 60-minute,
  12 bps round-trip, 2 bps margin label used by the baseline", as
  `reports/btc_tick_label_grid/README.md:8` has it: that label takes off 12
  (`run_btc_tick_baseline_oos.py:139`), and the grid's has fewer directions.
  `LabelsAgree` states the factor of two for every cell.
* `run_btc_cpp_replay_report.py:154` calls `gated_holds` "directional proposals gated
  to hold", while `astra_replay` gates a hold as it gates anything else
  (`apps/astra_replay/main.cpp:536`), so the count contains them.
* The replay file ends at 23:59:59.000 (`build_btc_replay_csv.py:23`), so its last
  row lacks the trades of 999 milliseconds that the bars have. A sample whose
  horizon ends in that row may have another label in the two pipelines;
  `PipelinesAgree` and `LabelsAgree` leave that minute out.
* `attach_cpp_tape_metrics.py` gates at 700,000 whatever threshold was selected,
  and writes "All six runs produced zero fills" whatever they produced.
* The profit factor of `astra_replay` is a text, so the second key of the choice
  of router and experts (`run_btc_regime_router_oos.py:196`) compares texts: "9.0"
  is more than "10.0". It decides only between equal returns.

## 6. Not modelled, and the plan

Order of the work to come; the first is what the program still depends on.

1. The quote that the feed carries from event to event, and a host clock that
   steps: when a trade is delivered with a stale quote, and when the gate of
   `ExchangeClock` closes for good.
2. `Calibration` with `Replay` as its execution instead of any function.
3. Trades in the rows of the replay.

Partly modelled, and why: fits are floating-point arithmetic over thousands of
rows, which no property here needs but through what they are computed from; the
numbers that end in a report's text, its hashes and its tables are output
only; debugging caps (`--max-train`, `--max-samples`) say of themselves that they
are not for evidence. The effect sizes of the label grid and the whole of
`generate_btc_threshold_report.py` compute statistics in one pass and decide
nothing.

Left out for good: text (JSON, logs, CSV details), the command line, TLS and
HTTP below the level of "a call returns or fails", the dashboard, build files
and generated reports.
