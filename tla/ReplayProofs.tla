---------------------------- MODULE ReplayProofs ----------------------------
(***************************************************************************)
(* Theorems about the replay, for any file, model, tape and length of run,   *)
(* and about the ring of midpoints that it feeds.                           *)
(*                                                                         *)
(* The ring.  The places before next_index were written in the present round, *)
(* those from it on in the round before; `start' is the number of midpoints   *)
(* seen when the round began.  Rounds have Lookback midpoints, so the place    *)
(* next_index holds the midpoint of exactly Lookback events before.          *)
(*                                                                         *)
(* The loop.  A row has two halves, the order of the pending decision and the  *)
(* event.  What the exchange does in each is in ExchangeProofs; here they are   *)
(* put together, and the decisions, the counters and the equity followed.     *)
(***************************************************************************)
EXTENDS Replay, ExchangeProofs

Places == 0 .. Lookback - 1

Rounds(start) ==
    /\ Len(seen) = start + next_index
    /\ start = 0 \/ start >= Lookback
    /\ \A p \in Places :
          p < next_index => midpoints[p] = seen[start + p + 1]
    /\ start >= Lookback =>
          \A p \in Places :
             p >= next_index => midpoints[p] = seen[start - Lookback + p + 1]

FeatureInv ==
    /\ seen \in Seq(Int)
    /\ midpoints \in [Places -> Int]
    /\ next_index \in Places
    /\ size = Lesser(Len(seen), Lookback)
    /\ \E start \in Nat : Rounds(start)
    /\ ReturnOverLookback

(* The next place is the following one, or the first. *)
LEMMA NextPlace ==
    ASSUME NEW place \in Places
    PROVE  (place + 1) % Lookback = IF place + 1 = Lookback THEN 0 ELSE place + 1
  <1>1. Lookback \in Nat \ {0}
    BY FeatureAssumption
  <1>2. CASE place + 1 = Lookback
    <2>1. Lookback % Lookback = 0
      BY <1>1
    <2>2. (place + 1) % Lookback = 0
      BY <1>2, <2>1
    <2> QED BY <1>2, <2>2
  <1>3. CASE place + 1 < Lookback
    <2>1. place + 1 \in Nat /\ place + 1 < Lookback
      BY <1>1, <1>3 DEF Places
    <2>2. (place + 1) % Lookback = place + 1
      BY <1>1, <2>1
    <2>3. place + 1 # Lookback
      BY <1>1, <2>1
    <2> QED BY <2>2, <2>3
  <1>4. place \in Int /\ place + 1 <= Lookback
    BY <1>1 DEF Places
  <1> QED BY <1>1, <1>2, <1>3, <1>4

LEMMA InitFeatureInv == InitFeatures => FeatureInv
  <1> SUFFICES ASSUME InitFeatures PROVE FeatureInv
    OBVIOUS
  <1>1. Lookback \in Nat \ {0} /\ 0 \in Places
    BY FeatureAssumption DEF Places
  <1>2. seen = <<>> /\ Len(seen) = 0 /\ seen \in Seq(Int)
    BY DEF InitFeatures
  <1>3. midpoints \in [Places -> Int] /\ next_index \in Places
    BY <1>1 DEF InitFeatures, Places
  <1>4. size = Lesser(Len(seen), Lookback)
    BY <1>1, <1>2 DEF InitFeatures, Lesser
  <1>5. Rounds(0)
    BY <1>1, <1>2 DEF InitFeatures, Rounds, Places
  <1>6. ReturnOverLookback
    BY <1>2 DEF ReturnOverLookback
  <1> QED BY <1>2, <1>3, <1>4, <1>5, <1>6 DEF FeatureInv

(* An update reads the right midpoint and keeps the rounds. *)
LEMMA UpdateKeepsFeatureInv ==
    ASSUME FeatureInv, NEW event, Mid(event) \in Int, Update(event)
    PROVE  FeatureInv'
  <1>1. Lookback \in Nat \ {0}
    BY FeatureAssumption
  <1>2. Mid(event) \in Int
    OBVIOUS
  <1>3. /\ seen' \in Seq(Int) /\ Len(seen') = Len(seen) + 1
        /\ \A k \in 1 .. Len(seen) : seen'[k] = seen[k]
        /\ seen'[Len(seen) + 1] = Mid(event)
        /\ Len(seen) \in Nat
    BY <1>2 DEF FeatureInv, Update
  <1>4. midpoints' \in [Places -> Int]
    BY <1>2 DEF FeatureInv, Update
  <1>5. /\ next_index' = IF next_index + 1 = Lookback THEN 0 ELSE next_index + 1
        /\ next_index' \in Places
    BY <1>1, NextPlace DEF FeatureInv, Update, Places
  <1>6. size' = Lesser(Len(seen'), Lookback)
    BY <1>1, <1>3 DEF FeatureInv, Update, Lesser
  <1>7. PICK start \in Nat : Rounds(start)
    BY DEF FeatureInv
  <1>8. \E begun \in Nat : Rounds(begun)'
    <2>1. /\ midpoints'[next_index] = Mid(event)
          /\ \A p \in Places : p # next_index => midpoints'[p] = midpoints[p]
      BY DEF FeatureInv, Update
    <2>2. CASE next_index + 1 = Lookback
      <3> DEFINE begun == start + Lookback
      <3>1. begun \in Nat /\ begun >= Lookback /\ next_index' = 0
        BY <1>1, <1>5, <2>2
      <3>2. Len(seen') = begun + next_index'
        BY <1>1, <1>3, <1>7, <2>2, <3>1 DEF FeatureInv, Rounds, Places
      <3>3. \A p \in Places : ~(p < next_index')
        BY <1>1, <3>1 DEF Places
      <3>4. ASSUME NEW p \in Places
            PROVE  midpoints'[p] = seen'[begun - Lookback + p + 1]
        <4>1. begun - Lookback + p + 1 = start + p + 1 /\ p \in Nat /\ p <= next_index
          BY <1>1, <2>2 DEF FeatureInv, Places
        <4>2. CASE p = next_index
          <5>1. start + p + 1 = Len(seen) + 1
            BY <1>1, <1>7, <4>1, <4>2 DEF Rounds
          <5> QED BY <1>3, <2>1, <4>1, <4>2, <5>1
        <4>3. CASE p # next_index
          <5>1. p < next_index
            BY <4>1, <4>3 DEF FeatureInv, Places
          <5>2. midpoints'[p] = seen[start + p + 1]
            BY <1>7, <2>1, <4>3, <5>1 DEF Rounds
          <5>3. start + p + 1 \in 1 .. Len(seen)
            BY <1>1, <1>3, <1>7, <4>1, <5>1 DEF FeatureInv, Rounds, Places
          <5> QED BY <1>3, <4>1, <5>2, <5>3
        <4> QED BY <4>2, <4>3
      <3>5. Rounds(begun)'
        <4> HIDE DEF begun
        <4> QED BY <3>1, <3>2, <3>3, <3>4 DEF Rounds
      <3> QED BY <3>1, <3>5
    <2>3. CASE next_index + 1 # Lookback
      <3>1. next_index' = next_index + 1 /\ next_index \in Nat
        BY <1>1, <1>5, <2>3 DEF FeatureInv, Places
      <3>2. Len(seen) = start + next_index /\ Len(seen') = start + next_index'
        BY <1>3, <1>7, <3>1 DEF Rounds
      <3>3. ASSUME NEW p \in Places, p < next_index'
            PROVE  midpoints'[p] = seen'[start + p + 1]
        <4>1. p \in Nat
          BY <1>1 DEF Places
        <4>2. CASE p = next_index
          <5>1. start + p + 1 = Len(seen) + 1
            BY <3>1, <3>2, <4>2
          <5> QED BY <1>3, <2>1, <4>2, <5>1
        <4>3. CASE p # next_index
          <5>1. p < next_index
            BY <3>1, <3>3, <4>1, <4>3
          <5>2. midpoints'[p] = seen[start + p + 1]
            BY <1>7, <2>1, <4>3, <5>1 DEF Rounds
          <5>3. start + p + 1 \in 1 .. Len(seen)
            BY <3>1, <3>2, <4>1, <5>1
          <5> QED BY <1>3, <5>2, <5>3
        <4> QED BY <4>2, <4>3
      <3>4. ASSUME NEW p \in Places, start >= Lookback, p >= next_index'
            PROVE  midpoints'[p] = seen'[start - Lookback + p + 1]
        <4>1. p \in Nat /\ p < Lookback /\ p > next_index
          BY <1>1, <3>1, <3>4 DEF Places
        <4>2. midpoints'[p] = seen[start - Lookback + p + 1]
          BY <1>7, <2>1, <3>1, <3>4, <4>1 DEF Rounds
        <4>3. start - Lookback + p + 1 \in 1 .. Len(seen)
          BY <1>1, <3>1, <3>2, <3>4, <4>1
        <4> QED BY <1>3, <4>2, <4>3
      <3>5. start = 0 \/ start >= Lookback
        BY <1>7 DEF Rounds
      <3>6. Rounds(start)'
        BY <3>2, <3>3, <3>4, <3>5 DEF Rounds
      <3> QED BY <3>6
    <2> QED BY <2>2, <2>3
  <1>9. ReturnOverLookback'
    <2>1. features'.return = Return(event)
      BY DEF Update
    <2>2. CASE Len(seen) < Lookback
      <3>1. features'.return = 0
        BY <1>1, <1>3, <2>1, <2>2 DEF FeatureInv, Lesser, Return
      <3> QED BY <1>1, <1>3, <2>2, <3>1 DEF ReturnOverLookback
    <2>3. CASE Len(seen) >= Lookback
      <3>1. start >= Lookback
        BY <1>1, <1>7, <2>3 DEF FeatureInv, Rounds, Places
      <3>2. Oldest = seen[Len(seen') - Lookback]
        BY <1>1, <1>3, <1>7, <3>1 DEF FeatureInv, Rounds, Places, Oldest
      <3>3. features'.return = Change(seen[Len(seen') - Lookback], Mid(event))
        BY <1>1, <1>3, <2>1, <2>3, <3>2 DEF FeatureInv, Lesser, Return
      <3>4. /\ seen'[Len(seen') - Lookback] = seen[Len(seen') - Lookback]
            /\ seen'[Len(seen')] = Mid(event)
        <4>1. Len(seen') - Lookback \in 1 .. Len(seen)
          BY <1>1, <1>3, <2>3
        <4> QED BY <1>3, <4>1
      <3> QED BY <1>1, <1>3, <2>3, <3>3, <3>4 DEF ReturnOverLookback
    <2> QED BY <1>1, <1>3, <2>2, <2>3
  <1> QED BY <1>3, <1>4, <1>5, <1>6, <1>8, <1>9 DEF FeatureInv

(* The inductive invariant of the ring. *)
THEOREM FeatureInvariant == FeatureSpec => []FeatureInv
  <1>1. FeatureInv /\ [\E event \in Quotes : Update(event)]_featureVars => FeatureInv'
    <2> SUFFICES ASSUME FeatureInv, [\E event \in Quotes : Update(event)]_featureVars
                 PROVE  FeatureInv'
      OBVIOUS
    <2>1. ASSUME NEW event \in Quotes, Update(event) PROVE FeatureInv'
      <3>1. Mid(event) \in Int
        BY DEF Quotes, Mid
      <3> QED BY <2>1, <3>1, UpdateKeepsFeatureInv
    <2>2. CASE UNCHANGED featureVars
      BY <2>2 DEF featureVars, FeatureInv, Rounds, ReturnOverLookback
    <2> QED BY <2>1, <2>2
  <1> QED BY <1>1, InitFeatureInv, PTL DEF FeatureSpec

(* For every lookback and every sequence of quotes the return reported is    *)
(* measured from the event exactly Lookback before.                         *)
THEOREM FeatureReturnOverLookback == FeatureSpec => []ReturnOverLookback
  <1>1. FeatureInv => ReturnOverLookback
    BY DEF FeatureInv
  <1> QED BY <1>1, FeatureInvariant, PTL

-----------------------------------------------------------------------------
(* Decisions. *)

LEMMA LargestExists ==
    ASSUME NEW n \in Nat, NEW S \in SUBSET (0 .. n), S # {}
    PROVE  Max(S) \in S /\ \A x \in S : x <= Max(S)
<1> DEFINE HasLargest(T) == \E m \in T : \A x \in T : m >= x
           P == {k \in Nat : \A T \in SUBSET (0 .. k) : T # {} => HasLargest(T)}
<1>1. 0 \in P
  <2>1. ASSUME NEW T \in SUBSET (0 .. 0), T # {} PROVE HasLargest(T)
    <3>1. 0 \in T
      <4>1. PICK x \in T : TRUE
        BY <2>1
      <4>2. x \in 0 .. 0
        BY <4>1
      <4> QED
        BY <4>1, <4>2
    <3>2. \A x \in T : 0 >= x
      OBVIOUS
    <3>3. HasLargest(T)
      BY <3>1, <3>2, Zenon
    <3> QED
      BY <3>3
  <2> QED
    BY <2>1
<1>2. ASSUME NEW k \in Nat, k \in P PROVE k + 1 \in P
  <2>1. ASSUME NEW T \in SUBSET (0 .. k + 1), T # {} PROVE HasLargest(T)
    <3>1. CASE k + 1 \in T
      <4>1. \A x \in T : k + 1 >= x
        OBVIOUS
      <4> QED
        BY <3>1, <4>1
    <3>2. CASE k + 1 \notin T
      <4>1. T \in SUBSET (0 .. k)
        BY <3>2
      <4> QED
        BY <1>2, <2>1, <4>1
    <3> QED
      BY <3>1, <3>2
  <2> HIDE DEF HasLargest
  <2> QED
    BY <2>1
<1>3. n \in P
  <2> HIDE DEF P
  <2> QED
    BY <1>1, <1>2, Induction
<1>4. \E m \in S : \A x \in S : m >= x
  BY <1>3
<1>5. Max(S) \in S /\ \A x \in S : Max(S) >= x
  BY <1>4 DEF Max
<1> QED
  BY <1>5

(* What the tape holds for a sequence is a decision about it. *)
TapeOK ==
    \A sequence \in DOMAIN tape :
       /\ tape[sequence] \in Decisions /\ tape[sequence].sequence = sequence
       /\ tape[sequence].succeeded

LEMMA LoadedTape ==
    ASSUME NEW file \in TapeFiles, TapeLoads(file), NEW sequence \in DOMAIN TapeOf(file)
    PROVE  /\ TapeOf(file)[sequence] \in Decisions
           /\ TapeOf(file)[sequence].sequence = sequence
           /\ TapeOf(file)[sequence].succeeded
<1> DEFINE lines == {i \in DOMAIN file : file[i][1] = sequence}
           line == file[Max(lines)]
<1>1. /\ Len(file) \in Nat /\ DOMAIN file = 1 .. Len(file)
      /\ \A i \in DOMAIN file : file[i][1] \in Nat /\ file[i][3] \in Nat
  BY ReplayAssumption
<1>2. lines # {} /\ lines \in SUBSET (0 .. Len(file))
  BY <1>1 DEF TapeOf
<1>3. Max(lines) \in lines
  <2> HIDE DEF lines
  <2> QED
    BY <1>1, <1>2, LargestExists
<1>4. Max(lines) \in DOMAIN file /\ line[1] = sequence
  BY <1>3
<1>5. line[1] \in Nat /\ line[3] \in Nat /\ line[2] \in Actions
  BY <1>1, <1>4 DEF TapeLoads
<1>6. TapeOf(file)[sequence] = Decision(sequence, line[2], line[3], TRUE)
  BY DEF TapeOf
<1> HIDE DEF lines, line
<1> QED
  BY <1>4, <1>5, <1>6 DEF Decision, Decisions

LEMMA ModelDecides ==
    ASSUME TapeOK, model \in Models, NEW sequence \in Nat,
           NEW decision \in DecisionsOn(sequence)
    PROVE  /\ decision \in Decisions /\ decision.sequence = sequence
           /\ decision.succeeded \/ decision.probability = Million
<1>1. model \in {"baseline", "hold", "laya", "tape"} /\ Probabilities \subseteq Nat
  <2>1. Million \in Nat
    BY SMT DEF Million
  <2> QED
    BY <2>1, ReplayAssumption
<1>2. \A imbalance : /\ BaselineDecision(sequence, imbalance) \in Decisions
                     /\ BaselineDecision(sequence, imbalance).sequence = sequence
                     /\ BaselineDecision(sequence, imbalance).succeeded
  BY SMT DEF BaselineDecision, Decision, Decisions, Actions
<1>3. \A succeeded \in BOOLEAN :
         /\ HoldDecision(sequence, succeeded) \in Decisions
         /\ HoldDecision(sequence, succeeded).sequence = sequence
         /\ HoldDecision(sequence, succeeded).probability = Million
  BY SMT DEF HoldDecision, Decision, Decisions, Actions, Million
<1>4. /\ TapeDecision(sequence) \in Decisions /\ TapeDecision(sequence).sequence = sequence
      /\ TapeDecision(sequence).succeeded \/ TapeDecision(sequence).probability = Million
  BY <1>3 DEF TapeDecision, TapeOK
<1>5. \A answer \in [sequence : {sequence}, action : Actions,
                      probability : Probabilities, succeeded : {TRUE}] :
         answer \in Decisions /\ answer.sequence = sequence /\ answer.succeeded
  BY <1>1 DEF Decisions
<1>6. CASE model = "baseline"
  BY <1>2, <1>6 DEF DecisionsOn
<1>7. CASE model = "hold"
  <2>1. decision = HoldDecision(sequence, TRUE)
    BY <1>7, SMT DEF DecisionsOn
  <2> QED
    BY <1>3, <2>1, Zenon
<1>8. CASE model = "tape"
  BY <1>4, <1>8 DEF DecisionsOn
<1>9. CASE model = "laya"
  BY <1>3, <1>5, <1>9 DEF DecisionsOn
<1> QED
  BY <1>1, <1>6, <1>7, <1>8, <1>9

(* The gate changes the action to a hold or nothing. *)
LEMMA GateKeeps ==
    ASSUME NEW decision \in Decisions
    PROVE  /\ Gated(decision) \in Decisions
           /\ Gated(decision).sequence = decision.sequence
           /\ Gated(decision).succeeded = decision.succeeded
           /\ Gated(decision).action
                = IF GateHolds(decision) THEN "hold" ELSE decision.action
BY DEF Gated, Decisions, Actions

-----------------------------------------------------------------------------
(* The two halves of a row. *)

ExchangeOK ==
    /\ market \in ShownEvents \cup {None}
    /\ BookInv(Book)
    /\ Balanced(Book)

(* The pending decision was made on the last accepted row. *)
PendingOK ==
    pending # None =>
       /\ market # None
       /\ pending \in [decision : Decisions, time : Int]
       /\ pending.time = market.receive_time
       /\ pending.decision.sequence = market.sequence

Counters ==
    {"events", "decisions", "signals", "accepted", "rejected", "ignored",
     "initial", "peak", "drawdown", "gross_profit", "gross_loss", "pnl"}

Metrics == [Counters -> Int]

MadeDecisions == [time : Int, action : Actions]

Histories == [decided : Seq(MadeDecisions), equities : Seq(Int), ties : BOOLEAN]

ReplayInv ==
    /\ ExchangeOK
    /\ PendingOK
    /\ TapeOK /\ model \in Models
    /\ metrics \in Metrics
    /\ history \in Histories
    /\ FeatureInv

LEMMA RowShows ==
    ASSUME NEW row \in Rows, RowValid(row), NEW event, event = EventOf(row)
    PROVE  /\ event \in ShownEvents /\ event \in MarketEvents /\ event # None
           /\ event.sequence \in Nat /\ event.receive_time \in Int
           /\ Mid(event) \in Int
<1>1. row \in [sequence : Nat, time : Int, best_bid : Int, best_ask : Int,
               bid_quantity : Int, ask_quantity : Int]
  BY ReplayAssumption
<1>2. row.time + FeedLatency \in Int
  BY <1>1, ReplayAssumption
<1>3. event \in MarketEvents
  BY <1>1, <1>2 DEF EventOf, MarketEvents
<1>4. event.bid_quantity >= 0 /\ event.ask_quantity >= 0
  BY <1>1 DEF RowValid, EventOf
<1>5. event # None
  BY EmptyAssumption
<1>6. Mid(event) \in Int
  BY <1>3 DEF Mid, MarketEvents
<1> QED
  BY <1>3, <1>4, <1>5, <1>6 DEF ShownEvents, MarketEvents

(* What a pending decision asks for. *)
LEMMA OrderAsked ==
    ASSUME ReplayInv, Signals, NEW request, request = OrderOfDecision
    PROVE  /\ market # None /\ market \in MarketEvents /\ pending.time \in Int
           /\ pending.time = market.receive_time
           /\ request \in OrderRequests(Ids) /\ request.type = "market"
           /\ request.id = market.sequence /\ request.id \in Nat
           /\ request.quantity \in Nat
           /\ pending.decision.action \in {"long", "short"}
           /\ ledger.position + SignedQuantity(request.side, request.quantity)
                = Target(pending.decision.action)
<1> DEFINE action == pending.decision.action
           delta == Delta(action)
<1>1. /\ market # None /\ pending \in [decision : Decisions, time : Int]
      /\ pending.time = market.receive_time
      /\ pending.decision.sequence = market.sequence
  BY DEF ReplayInv, PendingOK, Signals
<1>2. action \in Actions /\ pending.time \in Int /\ market.sequence \in Nat
  BY <1>1 DEF Decisions
<1>3. ledger.position \in Int /\ market \in MarketEvents
  BY <1>1, BookFields DEF ReplayInv, ExchangeOK, BookInv, Books, Ledgers, ShownEvents
<1>4. Target(action) \in Int
  BY <1>2, <1>3, ReplayAssumption DEF Target, Actions
<1>5. delta \in Int /\ ledger.position + delta = Target(action)
  BY <1>3, <1>4 DEF Delta
<1>6. delta # 0
  BY DEF Signals
<1>7. action \in {"long", "short"}
  BY <1>2, <1>3, <1>6 DEF Actions, Delta, Target
<1>8. /\ request.id = pending.decision.sequence /\ request.type = "market"
      /\ request.side = IF delta > 0 THEN "buy" ELSE "sell"
      /\ request.quantity = Magnitude(delta)
      /\ request.limit_price = None /\ request.reduce_only = FALSE
      /\ request = [id |-> request.id, side |-> request.side, type |-> request.type,
                    quantity |-> request.quantity, limit_price |-> request.limit_price,
                    reduce_only |-> request.reduce_only]
  BY DEF OrderOfDecision
<1> HIDE DEF delta, action
<1>9. /\ request.quantity \in Nat /\ request.side \in Sides
      /\ SignedQuantity(request.side, request.quantity) = delta
  BY <1>5, <1>8 DEF Magnitude, Sides, SignedQuantity
<1>10. request.id \in Ids /\ request.limit_price \in Int \cup {None} /\ request.reduce_only \in BOOLEAN
  BY <1>1, <1>2, <1>8 DEF Ids
<1>11. request \in OrderRequests(Ids)
  BY <1>8, <1>9, <1>10 DEF OrderRequests
<1> QED
  BY <1>1, <1>2, <1>3, <1>5, <1>7, <1>8, <1>9, <1>11 DEF action

(* The first half: with a latency the order is stored and nothing else happens. *)
LEMMA FirstHalf ==
    ASSUME ReplayInv, NEW placed, placed = BookAfterDecision
    PROVE  /\ BookInv(placed) /\ Balanced(placed)
           /\ ~OrderTaken => placed = Book
           /\ OrderTaken =>
                /\ Signals /\ SubmitReason(OrderOfDecision, pending.time) = "accept"
                /\ AckLatency > 0 => placed = Stored(OrderOfDecision, pending.time)
<1>1. CASE ~OrderTaken
  BY <1>1 DEF BookAfterDecision, ReplayInv, ExchangeOK
<1>2. CASE OrderTaken
  <2> DEFINE request == OrderOfDecision
             stored == Stored(request, pending.time)
  <2>1. /\ Signals /\ SubmitReason(request, pending.time) = "accept"
        /\ placed = AfterSubmit(request, pending.time)
    BY <1>2 DEF OrderTaken, BookAfterDecision
  <2> HIDE DEF request, stored
  <2>2. request \in OrderRequests(Ids) /\ pending.time \in Int
    BY <2>1, OrderAsked DEF request
  <2>3. BookInv(placed) /\ Balanced(placed) /\ (AckLatency # 0 => placed = stored)
    BY <2>1, <2>2, SubmitReaches DEF ReplayInv, ExchangeOK, stored
  <2> QED
    BY <1>2, <2>1, <2>3 DEF request, stored
<1> QED
  BY <1>1, <1>2

(* The second half is an event. *)
LEMMA SecondHalf ==
    ASSUME ReplayInv, NEW row \in Rows, AcceptRow(row), NEW event, event = EventOf(row),
           NEW placed, placed = BookAfterDecision
    PROVE  /\ event \in ShownEvents /\ event \in MarketEvents /\ event # None
           /\ market' = event /\ event.receive_time \in Int
           /\ market # None => event.sequence > market.sequence
           /\ Book' = AfterEvent(placed, event)
           /\ BookInv(Book') /\ Balanced(Book')
           /\ EventStep(placed, Book', event)
           /\ orders' = Book'.orders /\ fills' = Book'.fills /\ ledger' = Book'.ledger
<1> DEFINE after == AfterEvent(placed, event)
<1>1. /\ RowValid(row) /\ EventAccepted(event) /\ market' = event /\ Becomes(after)
  BY DEF AcceptRow
<1>2. /\ event \in ShownEvents /\ event \in MarketEvents /\ event # None
      /\ event.receive_time \in Int
  BY <1>1, RowShows
<1>3. BookInv(placed) /\ Balanced(placed)
  BY FirstHalf
<1> HIDE DEF after
<1>4. BookInv(after) /\ EventStep(placed, after, event) /\ Balanced(after)
  BY <1>2, <1>3, EventSettles DEF after
<1>5. Book' = after /\ orders' = after.orders /\ fills' = after.fills /\ ledger' = after.ledger
  BY <1>1, <1>4, BookBecomes
<1> QED
  BY <1>1, <1>2, <1>4, <1>5 DEF EventAccepted, after

-----------------------------------------------------------------------------
(* The steps of the loop. *)

LEMMA CountersTyped ==
    ASSUME NEW m \in Metrics
    PROVE  /\ m.events \in Int /\ m.decisions \in Int /\ m.signals \in Int
           /\ m.accepted \in Int /\ m.rejected \in Int /\ m.ignored \in Int
           /\ m.initial \in Int /\ m.peak \in Int /\ m.drawdown \in Int
           /\ m.gross_profit \in Int /\ m.gross_loss \in Int /\ m.pnl \in Int
BY DEF Metrics, Counters

LEMMA CountedDecision ==
    ASSUME ReplayInv
    PROVE  /\ MetricsAfterDecision \in Metrics
           /\ Decided \in Seq(MadeDecisions)
<1>1. metrics \in Metrics /\ history \in Histories
  BY DEF ReplayInv
<1>2. MetricsAfterDecision \in Metrics
  <2> DEFINE signal == IF Signals THEN 1 ELSE 0
             taken == IF OrderTaken THEN 1 ELSE 0
             refused == IF Signals /\ ~OrderTaken THEN 1 ELSE 0
  <2>1. signal \in Int /\ taken \in Int /\ refused \in Int
    OBVIOUS
  <2>2. MetricsAfterDecision =
           [metrics EXCEPT !.signals = metrics.signals + signal,
                           !.accepted = metrics.accepted + taken,
                           !.rejected = metrics.rejected + refused]
    BY Zenon DEF MetricsAfterDecision
  <2>3. metrics.signals \in Int /\ metrics.accepted \in Int /\ metrics.rejected \in Int
    BY <1>1, CountersTyped
  <2>4. /\ metrics.signals + signal \in Int /\ metrics.accepted + taken \in Int
        /\ metrics.rejected + refused \in Int
    BY <2>1, <2>3
  <2> QED
    BY <1>1, <2>2, <2>4, Zenon DEF Metrics
<1>3. CASE OrderTaken
  <2> DEFINE made == [time |-> pending.time, action |-> pending.decision.action]
  <2>1. made \in MadeDecisions
    BY <1>3, OrderAsked DEF OrderTaken, MadeDecisions, Actions
  <2>2. Decided = Append(history.decided, made)
    BY <1>3 DEF Decided
  <2>3. history.decided \in Seq(MadeDecisions)
    BY <1>1 DEF Histories
  <2> HIDE DEF made
  <2> QED
    BY <1>2, <2>1, <2>2, <2>3
<1>4. CASE ~OrderTaken
  BY <1>1, <1>2, <1>4 DEF Decided, Histories
<1> QED
  BY <1>3, <1>4

(* What the model says about a row becomes pending as it passed the gate. *)
LEMMA DecisionPends ==
    ASSUME ReplayInv, NEW row \in Rows, AcceptRow(row), NEW event, event = EventOf(row)
    PROVE  \/ pending' = None /\ detail' = detail
           \/ \E decision \in Decisions :
                 /\ pending' = [decision |-> Gated(decision), time |-> event.receive_time]
                 /\ pending' \in [decision : Decisions, time : Int]
                 /\ pending' # None
                 /\ pending'.decision.sequence = event.sequence
                 /\ detail' = Append(detail, DecisionDetail(decision))
                 /\ decision.succeeded \/ decision.probability = Million
<1>1. event.sequence \in Nat /\ event.receive_time \in Int
  BY RowShows DEF AcceptRow
<1>2. CASE DecisionDue(event.sequence)
  <2>1. PICK decision \in DecisionsOn(event.sequence) :
           /\ pending' = [decision |-> Gated(decision), time |-> event.receive_time]
           /\ detail' = Append(detail, DecisionDetail(decision))
    BY <1>2 DEF AcceptRow
  <2>2. /\ decision \in Decisions /\ decision.sequence = event.sequence
        /\ decision.succeeded \/ decision.probability = Million
    BY <1>1, <2>1, ModelDecides DEF ReplayInv
  <2>3. Gated(decision) \in Decisions /\ Gated(decision).sequence = event.sequence
    BY <2>2, GateKeeps
  <2>4. pending' \in [decision : Decisions, time : Int]
    BY <1>1, <2>1, <2>3
  <2>5. pending' # None
    BY <2>4, EmptyAssumption
  <2> QED
    BY <2>1, <2>2, <2>3, <2>4, <2>5
<1>3. CASE ~DecisionDue(event.sequence)
  BY <1>3 DEF AcceptRow
<1> QED
  BY <1>2, <1>3

LEMMA EquityTyped == ReplayInv => ledger.equity \in Int
BY BookFields DEF ReplayInv, ExchangeOK, BookInv, Books, Ledgers

LEMMA AcceptKeepsReplayInv ==
    ASSUME ReplayInv, NEW row \in Rows, AcceptRow(row)
    PROVE  ReplayInv'
<1> DEFINE event == EventOf(row)
           placed == BookAfterDecision
<1>1. /\ event \in ShownEvents /\ event # None /\ market' = event
      /\ BookInv(Book') /\ Balanced(Book')
      /\ ledger' = Book'.ledger
  <2>1. event = EventOf(row) /\ placed = BookAfterDecision
    OBVIOUS
  <2> HIDE DEF event, placed
  <2> QED
    BY <2>1, SecondHalf, Zenon
<1>2. ExchangeOK'
  BY <1>1 DEF ExchangeOK
<1>3. event.receive_time \in Int
  BY RowShows DEF AcceptRow
<1>4. PendingOK'
  <2>1. \/ pending' = None
        \/ \E decision \in Decisions :
              /\ pending' = [decision |-> Gated(decision), time |-> event.receive_time]
              /\ pending' \in [decision : Decisions, time : Int]
              /\ pending'.decision.sequence = event.sequence
    BY DecisionPends
  <2> HIDE DEF event
  <2> QED
    BY <1>1, <2>1 DEF PendingOK
<1>5. TapeOK' /\ model' \in Models
  BY DEF ReplayInv, AcceptRow, TapeOK
<1>6. ledger'.equity \in Int
  BY <1>1 DEF BookInv, Books, Ledgers
<1>7. metrics' \in Metrics
  <2>1. MetricsAfterDecision \in Metrics /\ metrics \in Metrics
    BY CountedDecision DEF ReplayInv
  <2>2. PeakAfter(ledger'.equity) \in Int /\ DrawdownAfter(ledger'.equity) \in Int
    BY <1>6, <2>1, CountersTyped DEF PeakAfter, DrawdownAfter
  <2> DEFINE counted == IF pending' = None THEN 0 ELSE 1
             peak == PeakAfter(ledger'.equity)
             drawdown == DrawdownAfter(ledger'.equity)
             so_far == MetricsAfterDecision
  <2>3. metrics' = [so_far EXCEPT
                       !.events = so_far.events + 1,
                       !.decisions = so_far.decisions + counted,
                       !.peak = peak, !.drawdown = drawdown]
    <3>1. metrics' = Measured(ledger'.equity)
      BY DEF AcceptRow
    <3> QED
      BY <3>1, Zenon DEF Measured
  <2>4. /\ counted \in Int /\ so_far.events \in Int /\ so_far.decisions \in Int
        /\ so_far \in Metrics
    BY <2>1, CountersTyped
  <2>5. /\ so_far.events + 1 \in Int /\ so_far.decisions + counted \in Int
        /\ peak \in Int /\ drawdown \in Int
    BY <2>2, <2>4
  <2> HIDE DEF counted, peak, drawdown, so_far
  <2> QED
    BY <2>3, <2>4, <2>5, Zenon DEF Metrics
<1>8. history' \in Histories
  <2>1. Decided \in Seq(MadeDecisions) /\ history \in Histories
    BY CountedDecision DEF ReplayInv
  <2>2. /\ history'.equities = Append(history.equities, ledger'.equity)
        /\ history'.decided = Decided /\ history'.ties \in BOOLEAN
        /\ history' = [decided |-> history'.decided, equities |-> history'.equities,
                       ties |-> history'.ties]
    <3>1. \A ties : (ties <=> TRUE) \/ (ties <=> FALSE)
      OBVIOUS
    <3> QED
      BY <2>1 DEF AcceptRow, Histories
  <2>3. Append(history.equities, ledger'.equity) \in Seq(Int)
    BY <1>6, <2>1 DEF Histories
  <2> QED
    BY <2>1, <2>2, <2>3 DEF Histories
<1>9. FeatureInv'
  <2>1. FeatureInv /\ Update(event) /\ Mid(event) \in Int
    BY RowShows DEF ReplayInv, AcceptRow
  <2> QED
    BY <2>1, UpdateKeepsFeatureInv
<1> QED
  BY <1>2, <1>4, <1>5, <1>7, <1>8, <1>9 DEF ReplayInv

(* A refused row leaves the order of the pending decision. *)
LEMMA RefusedHalf ==
    ASSUME ReplayInv, NEW row \in Rows, RefuseRow(row), NEW placed, placed = BookAfterDecision
    PROVE  /\ market' = market /\ Book' = placed
           /\ BookInv(Book') /\ Balanced(Book')
           /\ orders' = placed.orders /\ fills' = placed.fills /\ ledger' = placed.ledger
<1>1. BookInv(placed) /\ Balanced(placed)
  BY FirstHalf
<1>2. Becomes(placed) /\ market' = market
  BY DEF RefuseRow
<1> QED
  BY <1>1, <1>2, BookBecomes

LEMMA RefuseKeepsReplayInv ==
    ASSUME ReplayInv, NEW row \in Rows, RefuseRow(row)
    PROVE  ReplayInv'
<1>1. ExchangeOK'
  BY RefusedHalf DEF ReplayInv, ExchangeOK
<1>2. PendingOK'
  BY DEF RefuseRow, PendingOK
<1>3. TapeOK' /\ model' \in Models
  BY DEF ReplayInv, RefuseRow, TapeOK
<1>4. metrics' \in Metrics
  <2>1. MetricsAfterDecision \in Metrics
    BY CountedDecision
  <2> QED
    BY <2>1 DEF RefuseRow, Metrics
<1>5. history' \in Histories
  <2>1. Decided \in Seq(MadeDecisions) /\ history \in Histories
    BY CountedDecision DEF ReplayInv
  <2> QED
    BY <2>1 DEF RefuseRow, Histories
<1>6. FeatureInv'
  BY DEF ReplayInv, RefuseRow, featureVars, FeatureInv, Rounds, ReturnOverLookback
<1> QED
  BY <1>1, <1>2, <1>3, <1>4, <1>5, <1>6 DEF ReplayInv

(* Nothing of the exchange and the ring changes. *)
LEMMA KeepsReplayInv ==
    ASSUME ReplayInv, UNCHANGED <<vars, featureVars, model, tape, pending, history>>,
           metrics' \in Metrics
    PROVE  ReplayInv'
<1>1. ExchangeOK' /\ Book' = Book
  BY DEF ReplayInv, ExchangeOK, vars, Book
<1>2. PendingOK' /\ TapeOK' /\ model' \in Models
  BY DEF ReplayInv, PendingOK, TapeOK, vars
<1>3. history' \in Histories
  BY DEF ReplayInv
<1>4. FeatureInv'
  BY DEF ReplayInv, featureVars, FeatureInv, Rounds, ReturnOverLookback
<1> QED
  BY <1>1, <1>2, <1>3, <1>4 DEF ReplayInv

LEMMA InitReplayInv == ReplayInit => ReplayInv
<1> SUFFICES ASSUME ReplayInit PROVE ReplayInv
  OBVIOUS
<1>1. ExchangeInv /\ market = None /\ pending = None
  BY InitExchangeInv DEF ReplayInit, Init
<1>2. ExchangeOK /\ PendingOK
  BY <1>1 DEF ExchangeInv, ExchangeOK, PendingOK
<1>3. TapeOK /\ model \in Models
  <2>1. PICK file \in TapeFiles :
           tape = IF model = "tape" /\ TapeLoads(file) THEN TapeOf(file) ELSE <<>>
    BY DEF ReplayInit
  <2>2. CASE model = "tape" /\ TapeLoads(file)
    BY <2>1, <2>2, LoadedTape DEF TapeOK, ReplayInit
  <2>3. CASE ~(model = "tape" /\ TapeLoads(file))
    BY <2>1, <2>3 DEF TapeOK, ReplayInit
  <2> QED
    BY <2>2, <2>3
<1>4. ledger.equity \in Int
  BY <1>1, BookFields DEF ExchangeInv, BookInv, Books, Ledgers
<1>5. metrics \in Metrics
  BY <1>4 DEF ReplayInit, Metrics, Counters
<1>6. history \in Histories
  BY <1>4 DEF ReplayInit, Histories
<1>7. FeatureInv
  BY InitFeatureInv DEF ReplayInit
<1> QED
  BY <1>2, <1>3, <1>5, <1>6, <1>7 DEF ReplayInv

-----------------------------------------------------------------------------
(* The end of the file. *)

(* The difference of two sums is the sum of the differences. *)
LEMMA SumsSubtract ==
    ASSUME NEW S, IsFiniteSet(S), NEW f, NEW p, NEW l,
           \A x \in S : p[x] \in Int /\ l[x] \in Int /\ f[x] = p[x] - l[x]
    PROVE  /\ SumFunctionOnSet(p, S) \in Int /\ SumFunctionOnSet(l, S) \in Int
           /\ SumFunctionOnSet(f, S) = SumFunctionOnSet(p, S) - SumFunctionOnSet(l, S)
<1>1. PICK g : IsSum(p, S, g) /\ SumFunctionOnSet(p, S) = g[S]
  BY SumIsSum
<1>2. PICK k : IsSum(l, S, k) /\ SumFunctionOnSet(l, S) = k[S]
  BY SumIsSum
<1>3. PICK d : IsSum(f, S, d) /\ SumFunctionOnSet(f, S) = d[S]
  BY SumIsSum
<1> DEFINE h == [s \in SUBSET S |-> g[s] - k[s]]
<1>4. \A s \in SUBSET S : g[s] \in Int /\ k[s] \in Int
  BY <1>1, <1>2, SumIsInt
<1>5. IsSum(f, S, h)
  <2>1. ASSUME NEW s \in SUBSET S, s # {}
        PROVE  LET c == CHOOSE x \in s : TRUE
               IN  g[s] - k[s] = f[c] + (g[s \ {c}] - k[s \ {c}])
    <3> DEFINE c == CHOOSE x \in s : TRUE
    <3>1. c \in s /\ s \ {c} \in SUBSET S
      BY <2>1
    <3>2. g[s] = p[c] + g[s \ {c}] /\ k[s] = l[c] + k[s \ {c}]
      BY <1>1, <1>2, <2>1 DEF IsSum
    <3>3. /\ g[s \ {c}] \in Int /\ k[s \ {c}] \in Int
          /\ p[c] \in Int /\ l[c] \in Int /\ f[c] = p[c] - l[c]
      BY <1>4, <3>1
    <3> QED
      BY <3>2, <3>3
  <2>2. g[{}] = 0 /\ k[{}] = 0
    BY <1>1, <1>2, SumTaken
  <2>3. ASSUME NEW s \in SUBSET S
        PROVE  h[s] = IF s = {} THEN 0
                      ELSE f[CHOOSE x \in s : TRUE] + h[s \ {CHOOSE x \in s : TRUE}]
    <3>1. CASE s = {}
      BY <2>2, <3>1
    <3>2. CASE s # {}
      <4> DEFINE c == CHOOSE x \in s : TRUE
      <4>1. g[s] - k[s] = f[c] + (g[s \ {c}] - k[s \ {c}])
        BY <2>1, <3>2
      <4>2. h[s] = g[s] - k[s] /\ h[s \ {c}] = g[s \ {c}] - k[s \ {c}]
        OBVIOUS
      <4> QED
        BY <3>2, <4>1, <4>2
    <3> QED
      BY <3>1, <3>2
  <2> QED
    BY <2>3, Zenon DEF IsSum
<1>6. d[S] = h[S]
  <2> HIDE DEF h
  <2> QED
    BY <1>3, <1>5, SumsAgree
<1>7. g[S] \in Int /\ k[S] \in Int /\ h[S] = g[S] - k[S]
  BY <1>4
<1> QED
  BY <1>1, <1>2, <1>3, <1>6, <1>7

(* Gross profit and gross loss are whole numbers, and their difference is what was *)
(* realised.                                                                 *)
LEMMA ProfitsLessLosses ==
    ASSUME BookInv(Book)
    PROVE  /\ Profits \in Int /\ Losses \in Int
           /\ SumFunction(RealizedPnls(fills)) = Profits - Losses
<1> DEFINE realized(n) == fills[n].realized_pnl
           p == [n \in DOMAIN fills |-> IF realized(n) > 0 THEN realized(n) ELSE 0]
           l == [n \in DOMAIN fills |-> IF realized(n) < 0 THEN -realized(n) ELSE 0]
           f == RealizedPnls(fills)
           S == DOMAIN fills
<1>1. fills \in Seq(FillRecords)
  BY BookFields DEF BookInv, Books
<1>2. IsFiniteSet(S)
  <2>1. S = 1 .. Len(fills) /\ Len(fills) \in Nat
    BY <1>1
  <2> QED
    BY <2>1, FS_Interval
<1>3. /\ DOMAIN p = S /\ DOMAIN l = S /\ DOMAIN f = S
      /\ Profits = SumFunctionOnSet(p, DOMAIN p) /\ Losses = SumFunctionOnSet(l, DOMAIN l)
      /\ SumFunction(f) = SumFunctionOnSet(f, DOMAIN f)
  BY DEF RealizedPnls, Profits, Losses, SumFunction
<1>4. ASSUME NEW n \in S PROVE p[n] \in Int /\ l[n] \in Int /\ f[n] = p[n] - l[n]
  <2>1. fills[n].realized_pnl \in Int
    <3>1. fills[n] \in FillRecords
      <4>1. n \in DOMAIN fills
        OBVIOUS
      <4> HIDE DEF p, l, f, S
      <4> QED
        BY <1>1, <4>1
    <3> QED
      BY <3>1 DEF FillRecords
  <2> QED
    BY <2>1 DEF RealizedPnls
<1> HIDE DEF p, l, f, S
<1>5. /\ SumFunctionOnSet(p, S) \in Int /\ SumFunctionOnSet(l, S) \in Int
      /\ SumFunctionOnSet(f, S) = SumFunctionOnSet(p, S) - SumFunctionOnSet(l, S)
  BY <1>2, <1>4, SumsSubtract
<1> QED
  BY <1>3, <1>5 DEF f

LEMMA FinishKeepsReplayInv ==
    ASSUME ReplayInv, Finish
    PROVE  ReplayInv'
<1>1. metrics \in Metrics /\ BookInv(Book)
  BY DEF ReplayInv, ExchangeOK
<1>2. Profits \in Int /\ Losses \in Int
  BY <1>1, ProfitsLessLosses
<1>3. ledger.equity - metrics.initial \in Int
  BY <1>1, BookFields, CountersTyped DEF BookInv, Books, Ledgers
<1>4. metrics' \in Metrics
  <2>1. metrics' = [metrics EXCEPT !.gross_profit = Profits, !.gross_loss = Losses,
                                   !.pnl = ledger.equity - metrics.initial]
    BY DEF Finish
  <2> QED
    BY <1>1, <1>2, <1>3, <2>1 DEF Metrics
<1> QED
  BY <1>4, KeepsReplayInv DEF Finish

LEMMA StepKeepsReplayInv == ReplayInv /\ [ReplayNext]_replayVars => ReplayInv'
<1> SUFFICES ASSUME ReplayInv, [ReplayNext]_replayVars PROVE ReplayInv'
  OBVIOUS
<1>1. ASSUME NEW row \in Rows, AcceptRow(row) PROVE ReplayInv'
  BY <1>1, AcceptKeepsReplayInv
<1>2. ASSUME NEW row \in Rows, RefuseRow(row) PROVE ReplayInv'
  BY <1>2, RefuseKeepsReplayInv
<1>3. ASSUME NEW row \in Rows, InvalidRow(row) PROVE ReplayInv'
  BY <1>3, KeepsReplayInv DEF InvalidRow, ReplayInv
<1>4. ASSUME Finish PROVE ReplayInv'
  BY <1>4, FinishKeepsReplayInv
<1>5. ASSUME UNCHANGED replayVars PROVE ReplayInv'
  BY <1>5, KeepsReplayInv DEF replayVars, ReplayInv
<1> QED
  BY <1>1, <1>2, <1>3, <1>4, <1>5 DEF ReplayNext

(* The exchange and the ring keep to their invariants inside the loop, and a       *)
(* pending decision was made on the last accepted row.                           *)
THEOREM ReplayInvariant == ReplaySpec => []ReplayInv
<1> QED
  BY InitReplayInv, StepKeepsReplayInv, PTL DEF ReplaySpec

(* Fed by the loop, the ring measures each return from Lookback accepted rows before. *)
THEOREM ReplayReturnOverLookback == ReplaySpec => []ReturnOverLookback
<1>1. ReplayInv => ReturnOverLookback
  BY DEF ReplayInv, FeatureInv
<1> QED
  BY <1>1, ReplayInvariant, PTL

-----------------------------------------------------------------------------
(* No look-ahead. *)

(* Each order was asked for by a decision on a row already accepted, and becomes   *)
(* active a latency after the time of that row.                                 *)
Traced(ordered, decided) ==
    /\ Len(decided) = Len(ordered)
    /\ \A i \in DOMAIN ordered :
          /\ market # None
          /\ ordered[i].request.id \in Nat /\ ordered[i].request.id <= market.sequence
          /\ ordered[i].active_time = decided[i].time + AckLatency

Recorded == Traced(orders, history.decided)

(* Placing the order of the pending decision, with a latency, adds it to the record *)
(* and does nothing else.                                                      *)
LEMMA PlacedRecorded ==
    ASSUME ReplayInv, Recorded, AckLatency > 0, NEW placed, placed = BookAfterDecision
    PROVE  /\ placed.fills = fills /\ placed.ledger = ledger
           /\ Traced(placed.orders, Decided)
           /\ market # None => market \in MarketEvents
<1>1. /\ ~OrderTaken => placed = Book
      /\ OrderTaken =>
           /\ Signals /\ SubmitReason(OrderOfDecision, pending.time) = "accept"
           /\ placed = Stored(OrderOfDecision, pending.time)
  BY FirstHalf
<1>2. market # None => market \in MarketEvents
  BY DEF ReplayInv, ExchangeOK, ShownEvents
<1>3. CASE ~OrderTaken
  BY <1>1, <1>2, <1>3, BookFields DEF Recorded, Decided
<1>4. CASE OrderTaken
  <2> DEFINE request == OrderOfDecision
             time == pending.time
             last == Len(orders) + 1
             order == NewOrder(request, time)
             made == [time |-> time, action |-> pending.decision.action]
  <2>1. /\ Signals /\ SubmitReason(request, time) = "accept"
        /\ placed = Stored(request, time)
        /\ Decided = Append(history.decided, made)
        /\ made.time = time
    BY <1>1, <1>4 DEF Decided
  <2>2. /\ market # None /\ market \in MarketEvents /\ time \in Int
        /\ request \in OrderRequests(Ids) /\ request.id = market.sequence /\ request.id \in Nat
    BY <2>1, OrderAsked
  <2>3. /\ order.request.id = request.id
        /\ order.active_time = time + AckLatency
    BY <2>2 DEF NewOrder, Normalized, OrderRequests
  <2>4. /\ placed.fills = fills /\ placed.ledger = ledger
        /\ placed.orders = Append(orders, order)
    BY <2>1 DEF Stored
  <2>5. orders \in Seq(OrderRecords) /\ history.decided \in Seq(MadeDecisions)
    BY BookFields DEF ReplayInv, ExchangeOK, BookInv, Books, Histories
  <2> HIDE DEF request, time, order, made
  <2>6. /\ Len(placed.orders) = last /\ Len(Decided) = last
        /\ DOMAIN placed.orders = 1 .. last /\ Len(orders) \in Nat
        /\ placed.orders[last] = order /\ Decided[last].time = time
    BY <2>1, <2>4, <2>5 DEF Recorded, Traced
  <2>7. ASSUME NEW i \in 1 .. Len(orders)
        PROVE  /\ placed.orders[i].request.id \in Nat
               /\ placed.orders[i].request.id <= market.sequence
               /\ placed.orders[i].active_time = Decided[i].time + AckLatency
    <3>1. i \in DOMAIN orders /\ i \in 1 .. Len(history.decided)
      BY <2>5 DEF Recorded, Traced
    <3>2. placed.orders[i] = orders[i] /\ Decided[i] = history.decided[i]
      BY <2>1, <2>4, <2>5, <2>7, <3>1
    <3> QED
      BY <3>1, <3>2 DEF Recorded, Traced
  <2>8. /\ placed.orders[last].request.id \in Nat
        /\ placed.orders[last].request.id <= market.sequence
        /\ placed.orders[last].active_time = Decided[last].time + AckLatency
    BY <2>2, <2>3, <2>6
  <2>9. ASSUME NEW i \in DOMAIN placed.orders
        PROVE  /\ placed.orders[i].request.id \in Nat
               /\ placed.orders[i].request.id <= market.sequence
               /\ placed.orders[i].active_time = Decided[i].time + AckLatency
    BY <2>6, <2>7, <2>8
  <2> QED
    BY <1>2, <2>2, <2>4, <2>6, <2>9 DEF Traced
<1> QED
  BY <1>3, <1>4

(* The row adds fills of recorded orders only, after their time. *)
LEMMA AcceptRecorded ==
    ASSUME ReplayInv, Recorded, AckLatency > 0, NEW row \in Rows, AcceptRow(row)
    PROVE  /\ Recorded'
           /\ \A n \in NewFills :
                 LET order == fills'[n].order_id
                 IN  /\ market'.sequence > orders'[order].request.id
                     /\ market'.receive_time > history'.decided[order].time
<1> DEFINE event == EventOf(row)
           placed == BookAfterDecision
<1>1. event = EventOf(row) /\ placed = BookAfterDecision
  OBVIOUS
<1> HIDE DEF event, placed
<1>2. /\ event \in MarketEvents /\ event # None
      /\ market' = event /\ event.receive_time \in Int
      /\ market # None => event.sequence > market.sequence
      /\ BookInv(Book')
      /\ EventStep(placed, Book', event)
      /\ orders' = Book'.orders /\ fills' = Book'.fills
  BY <1>1, SecondHalf, Zenon
<1>3. BookInv(placed)
  BY <1>1, FirstHalf, Zenon
<1>4. /\ placed.fills = fills /\ Traced(placed.orders, Decided)
      /\ market # None => market \in MarketEvents
  BY <1>1, PlacedRecorded, Zenon
<1>5. history'.decided = Decided
  BY DEF AcceptRow
<1>6. /\ DOMAIN orders' = DOMAIN placed.orders
      /\ \A i \in DOMAIN orders' :
            /\ orders'[i].request = placed.orders[i].request
            /\ orders'[i].active_time = placed.orders[i].active_time
  BY <1>2 DEF EventStep, Settles
<1>7. Len(orders') = Len(placed.orders)
  <2>1. orders' \in Seq(OrderRecords) /\ placed.orders \in Seq(OrderRecords)
    BY <1>2, <1>3 DEF BookInv, Books
  <2> QED
    BY <1>6, <2>1
<1>8. ASSUME NEW i \in DOMAIN orders'
      PROVE  /\ orders'[i].request.id \in Nat
             /\ orders'[i].request.id < event.sequence
             /\ orders'[i].active_time = Decided[i].time + AckLatency
  <2>1. /\ market # None
        /\ orders'[i].request.id \in Nat /\ orders'[i].request.id <= market.sequence
        /\ orders'[i].active_time = Decided[i].time + AckLatency
    BY <1>4, <1>6 DEF Traced
  <2>2. market.sequence \in Nat /\ event.sequence \in Nat
    BY <1>2, <1>4, <2>1 DEF MarketEvents
  <2> QED
    BY <1>2, <2>1, <2>2
<1>9. Recorded'
  <2>1. Len(Decided) = Len(orders')
    BY <1>4, <1>7 DEF Traced
  <2>2. event.sequence \in Nat
    BY <1>2 DEF MarketEvents
  <2>3. ASSUME NEW i \in DOMAIN orders'
        PROVE  /\ market' # None
               /\ orders'[i].request.id \in Nat /\ orders'[i].request.id <= market'.sequence
               /\ orders'[i].active_time = history'.decided[i].time + AckLatency
    BY <1>2, <1>5, <1>8, <2>2
  <2> QED
    BY <1>5, <2>1, <2>3 DEF Recorded, Traced
<1>10. ASSUME NEW n \in NewFills
       PROVE  /\ market'.sequence > orders'[fills'[n].order_id].request.id
              /\ market'.receive_time > history'.decided[fills'[n].order_id].time
  <2> DEFINE i == fills'[n].order_id
  <2>1. FillOn(fills'[n], orders'[i], event)
    BY <1>2, <1>4 DEF NewFills, EventStep
  <2>2. i \in DOMAIN orders'
    BY <1>2 DEF NewFills, BookInv, FillInv
  <2> HIDE DEF i
  <2>3. event.receive_time >= Decided[i].time + AckLatency
    BY <1>8, <2>1, <2>2 DEF FillOn
  <2>4. Decided[i].time \in Int
    <3>1. i \in 1 .. Len(orders')
      BY <1>2, <2>2 DEF BookInv, Books
    <3>2. Decided \in Seq(MadeDecisions) /\ Len(Decided) = Len(orders')
      BY <1>4, <1>7, CountedDecision DEF Traced
    <3>3. Decided[i] \in MadeDecisions
      BY <3>1, <3>2
    <3> QED
      BY <3>3 DEF MadeDecisions
  <2>5. event.sequence \in Nat /\ AckLatency \in Int
    BY <1>2, ExchangeAssumption DEF MarketEvents
  <2>6. event.receive_time > Decided[i].time
    BY <1>2, <2>3, <2>4, <2>5
  <2> QED
    BY <1>2, <1>5, <1>8, <2>2, <2>5, <2>6 DEF i
<1> QED
  BY <1>9, <1>10

LEMMA RefuseRecorded ==
    ASSUME ReplayInv, Recorded, AckLatency > 0, NEW row \in Rows, RefuseRow(row)
    PROVE  Recorded' /\ fills' = fills
<1> DEFINE placed == BookAfterDecision
<1>1. /\ market' = market /\ orders' = placed.orders /\ fills' = placed.fills
  BY RefusedHalf
<1>2. placed.fills = fills /\ Traced(placed.orders, Decided)
  BY PlacedRecorded
<1>3. history'.decided = Decided
  <2>1. history \in Histories
    BY DEF ReplayInv
  <2> QED
    BY <2>1 DEF RefuseRow, Histories
<1> HIDE DEF placed
<1> QED
  BY <1>1, <1>2, <1>3 DEF Recorded, Traced

(* The inductive invariant of the record, and what a step adds to it. *)
LEMMA RecordedStep ==
    ASSUME ReplayInv, Recorded, AckLatency > 0, ReplayNext
    PROVE  /\ Recorded'
           /\ \A n \in NewFills :
                 LET order == fills'[n].order_id
                 IN  /\ market'.sequence > orders'[order].request.id
                     /\ market'.receive_time > history'.decided[order].time
<1>1. ASSUME NEW row \in Rows, RefuseRow(row) PROVE Recorded' /\ NewFills = {}
  BY <1>1, RefuseRecorded DEF NewFills
<1>2. ASSUME UNCHANGED vars, UNCHANGED history PROVE Recorded' /\ NewFills = {}
  BY <1>2 DEF vars, Recorded, Traced, NewFills
<1> QED
  BY <1>1, <1>2, AcceptRecorded DEF ReplayNext, InvalidRow, Finish

LEMMA RecordedInvariant ==
    ASSUME AckLatency > 0
    PROVE  ReplaySpec => []Recorded
<1>1. ReplayInit => Recorded
  BY DEF ReplayInit, Init, Recorded, Traced
<1>2. ReplayInv /\ Recorded /\ [ReplayNext]_replayVars => Recorded'
  <2>1. ASSUME Recorded, UNCHANGED replayVars PROVE Recorded'
    BY <2>1 DEF replayVars, vars, Recorded, Traced
  <2> QED
    BY <2>1, RecordedStep
<1> QED
  BY <1>1, <1>2, ReplayInvariant, PTL DEF ReplaySpec

(* With a latency, as the program configures it, the replay does not look ahead. *)
THEOREM ReplayNoLookahead ==
    ASSUME AckLatency > 0
    PROVE  ReplaySpec => NoLookahead
<1>1. ASSUME ReplayInv, Recorded, [ReplayNext]_replayVars
      PROVE  [\A n \in NewFills :
                 LET order == fills'[n].order_id
                 IN  /\ market'.sequence > orders'[order].request.id
                     /\ market'.receive_time > history'.decided[order].time]_replayVars
  BY <1>1, RecordedStep
<1> QED
  BY <1>1, ReplayInvariant, RecordedInvariant, PTL DEF ReplaySpec, NoLookahead

-----------------------------------------------------------------------------
(* The drawdown. *)

(* The peak is the largest equity so far, the drawdown the largest fall so far. *)
Extremes(equities, peak, drawdown) ==
    /\ equities \in Seq(Int) /\ peak \in Int /\ drawdown \in Int
    /\ \E i \in DOMAIN equities : equities[i] = peak
    /\ \A i \in DOMAIN equities : equities[i] <= peak
    /\ \E i, j \in DOMAIN equities : i <= j /\ equities[i] - equities[j] = drawdown
    /\ \A i, j \in DOMAIN equities : i <= j => equities[i] - equities[j] <= drawdown

Measures == Extremes(history.equities, metrics.peak, metrics.drawdown)

LEMMA ExtremesFollow ==
    ASSUME NEW equities, NEW peak, NEW drawdown, Extremes(equities, peak, drawdown),
           NEW equity \in Int, NEW longer, longer = Append(equities, equity),
           NEW top, top = IF equity > peak THEN equity ELSE peak,
           NEW deepest, deepest = IF top - equity > drawdown THEN top - equity ELSE drawdown
    PROVE  Extremes(longer, top, deepest)
<1> DEFINE last == Len(equities) + 1
<1>1. equities \in Seq(Int) /\ peak \in Int /\ drawdown \in Int
  BY DEF Extremes
<1>2. /\ longer \in Seq(Int) /\ DOMAIN longer = DOMAIN equities \cup {last}
      /\ DOMAIN equities = 1 .. Len(equities) /\ Len(equities) \in Nat
      /\ longer[last] = equity
      /\ \A i \in DOMAIN equities : longer[i] = equities[i] /\ equities[i] \in Int
  BY <1>1
<1>3. top \in Int /\ deepest \in Int /\ top >= peak /\ top >= equity
  BY <1>1
<1>4. \A i \in DOMAIN equities : i < last /\ i \in Nat
  BY <1>2
<1> HIDE DEF last
<1>5. \E i \in DOMAIN longer : longer[i] = top
  <2>1. CASE equity > peak
    BY <1>2, <2>1
  <2>2. CASE ~(equity > peak)
    <3>1. PICK i \in DOMAIN equities : equities[i] = peak
      BY DEF Extremes
    <3> QED
      BY <1>2, <2>2, <3>1
  <2> QED
    BY <2>1, <2>2
<1>6. \A i \in DOMAIN longer : longer[i] <= top
  <2>1. \A i \in DOMAIN equities : equities[i] <= peak
    BY DEF Extremes
  <2> QED
    BY <1>1, <1>2, <1>3, <2>1
<1>7. \E i, j \in DOMAIN longer : i <= j /\ longer[i] - longer[j] = deepest
  <2>1. CASE top - equity > drawdown
    <3>1. PICK i \in DOMAIN longer : longer[i] = top
      BY <1>5
    <3>2. i <= last /\ last \in DOMAIN longer
      BY <1>2, <1>4, <3>1
    <3>3. longer[i] - longer[last] = deepest
      BY <1>2, <2>1, <3>1
    <3> QED
      BY <3>1, <3>2, <3>3
  <2>2. CASE ~(top - equity > drawdown)
    <3>1. PICK i \in DOMAIN equities, j \in DOMAIN equities :
             i <= j /\ equities[i] - equities[j] = drawdown
      BY DEF Extremes
    <3> QED
      BY <1>2, <2>2, <3>1
  <2> QED
    BY <2>1, <2>2
<1>8. ASSUME NEW i \in DOMAIN longer, NEW j \in DOMAIN longer, i <= j
      PROVE  longer[i] - longer[j] <= deepest
  <2>1. CASE j = last
    <3>1. longer[i] \in Int /\ longer[i] <= top /\ longer[j] = equity
      BY <1>2, <1>6, <2>1
    <3>2. top - equity <= deepest
      BY <1>1, <1>3
    <3> QED
      BY <1>3, <3>1, <3>2
  <2>2. CASE j # last
    <3>1. j \in DOMAIN equities /\ i # last
      BY <1>2, <1>4, <1>8, <2>2
    <3>2. i \in DOMAIN equities
      BY <1>2, <3>1
    <3>3. equities[i] - equities[j] <= drawdown
      BY <1>8, <3>1, <3>2 DEF Extremes
    <3>4. drawdown <= deepest
      BY <1>1, <1>3
    <3> QED
      BY <1>1, <1>2, <1>3, <3>1, <3>2, <3>3, <3>4
  <2> QED
    BY <2>1, <2>2
<1> QED
  BY <1>2, <1>3, <1>5, <1>6, <1>7, <1>8 DEF Extremes

(* The largest fall is the one the definition of the property takes. *)
LEMMA LargestFall ==
    ASSUME NEW equities, NEW peak, NEW drawdown, Extremes(equities, peak, drawdown),
           NEW falls,
           falls = {equities[p[1]] - equities[p[2]] : p \in
                       {p \in (DOMAIN equities) \X (DOMAIN equities) : p[1] <= p[2]}}
    PROVE  drawdown = Max(falls)
<1> DEFINE pairs == {p \in (DOMAIN equities) \X (DOMAIN equities) : p[1] <= p[2]}
<1>1. drawdown \in Int /\ equities \in Seq(Int)
  BY DEF Extremes
<1>2. ASSUME NEW fall \in falls PROVE fall \in Int /\ fall <= drawdown
  <2>1. PICK p \in pairs : fall = equities[p[1]] - equities[p[2]]
    OBVIOUS
  <2>2. p[1] \in DOMAIN equities /\ p[2] \in DOMAIN equities /\ p[1] <= p[2]
    OBVIOUS
  <2>3. equities[p[1]] \in Int /\ equities[p[2]] \in Int
    BY <1>1, <2>2
  <2> QED
    BY <2>1, <2>2, <2>3 DEF Extremes
<1>3. drawdown \in falls
  <2>1. PICK i \in DOMAIN equities, j \in DOMAIN equities :
           i <= j /\ equities[i] - equities[j] = drawdown
    BY DEF Extremes
  <2>2. <<i, j>> \in pairs /\ <<i, j>>[1] = i /\ <<i, j>>[2] = j
    BY <2>1
  <2> QED
    BY <2>1, <2>2
<1>4. \A x \in falls : drawdown >= x
  BY <1>1, <1>2
<1>5. Max(falls) \in falls /\ \A x \in falls : Max(falls) >= x
  BY <1>3, <1>4 DEF Max
<1>6. Max(falls) \in Int /\ Max(falls) <= drawdown
  BY <1>2, <1>5, Zenon
<1>7. Max(falls) >= drawdown
  BY <1>3, <1>5, Zenon
<1> QED
  BY <1>1, <1>6, <1>7

LEMMA AcceptMeasures ==
    ASSUME ReplayInv, Measures, NEW row \in Rows, AcceptRow(row)
    PROVE  Measures'
<1> DEFINE equity == ledger'.equity
<1>2. equity \in Int
  <2>1. ReplayInv'
    BY AcceptKeepsReplayInv
  <2>2. Book'.ledger \in Ledgers
    BY <2>1 DEF ReplayInv, ExchangeOK, BookInv, Books
  <2> QED
    BY <2>2 DEF Book, Ledgers
<1>3. history'.equities = Append(history.equities, equity)
  BY DEF AcceptRow
<1>4. metrics'.peak = PeakAfter(equity) /\ metrics'.drawdown = DrawdownAfter(equity)
  <2>1. MetricsAfterDecision \in Metrics
    BY CountedDecision
  <2>2. metrics' = Measured(equity)
    BY DEF AcceptRow
  <2> HIDE DEF equity
  <2> DEFINE so_far == MetricsAfterDecision
             events == so_far.events + 1
             decisions == so_far.decisions + (IF pending' = None THEN 0 ELSE 1)
  <2>3. metrics' = [so_far EXCEPT !.events = events, !.decisions = decisions,
                                  !.peak = PeakAfter(equity),
                                  !.drawdown = DrawdownAfter(equity)]
    BY <2>2 DEF Measured
  <2>4. so_far \in Metrics
    BY <2>1
  <2> HIDE DEF so_far, events, decisions
  <2> QED
    BY <2>3, <2>4 DEF Metrics, Counters
<1> HIDE DEF equity
<1>5. Extremes(history'.equities, metrics'.peak, metrics'.drawdown)
  <2> DEFINE equities == history.equities
             longer == history'.equities
             peak == metrics.peak
             top == metrics'.peak
             drawdown == metrics.drawdown
             deepest == metrics'.drawdown
  <2>1. Extremes(equities, peak, drawdown)
    BY DEF Measures
  <2>2. top = IF equity > peak THEN equity ELSE peak
    BY <1>4 DEF PeakAfter
  <2>3. deepest = IF top - equity > drawdown THEN top - equity ELSE drawdown
    BY <1>4 DEF DrawdownAfter
  <2>4. longer = Append(equities, equity)
    BY <1>3
  <2>5. Extremes(longer, top, deepest)
    <3> HIDE DEF equities, longer, peak, top, drawdown, deepest
    <3> QED
      BY <1>2, <2>1, <2>2, <2>3, <2>4, ExtremesFollow
  <2> QED
    BY <2>5
<1> QED
  BY <1>5 DEF Measures

LEMMA OthersMeasure ==
    ASSUME ReplayInv, Measures, ReplayNext, \A row \in Rows : ~AcceptRow(row)
    PROVE  Measures'
<1>1. metrics \in Metrics /\ history \in Histories
  BY DEF ReplayInv
<1>2. history'.equities = history.equities
  BY <1>1 DEF ReplayNext, RefuseRow, InvalidRow, Finish, Histories
<1>3. metrics'.peak = metrics.peak /\ metrics'.drawdown = metrics.drawdown
  <2>1. ASSUME NEW row \in Rows, RefuseRow(row)
        PROVE  metrics'.peak = metrics.peak /\ metrics'.drawdown = metrics.drawdown
    <3>1. MetricsAfterDecision \in Metrics
      BY CountedDecision
    <3>2. /\ MetricsAfterDecision.peak = metrics.peak
          /\ MetricsAfterDecision.drawdown = metrics.drawdown
      BY <1>1, Zenon DEF MetricsAfterDecision, Metrics, Counters
    <3>3. metrics' = [MetricsAfterDecision EXCEPT !.ignored = MetricsAfterDecision.ignored + 1]
      BY <2>1 DEF RefuseRow
    <3> QED
      BY <3>1, <3>2, <3>3 DEF Metrics, Counters
  <2>2. ASSUME Finish
        PROVE  metrics'.peak = metrics.peak /\ metrics'.drawdown = metrics.drawdown
    <3>1. metrics' = [metrics EXCEPT !.gross_profit = Profits, !.gross_loss = Losses,
                                     !.pnl = ledger.equity - metrics.initial]
      BY <2>2 DEF Finish
    <3> QED
      BY <1>1, <3>1 DEF Metrics, Counters
  <2> QED
    BY <2>1, <2>2 DEF ReplayNext, InvalidRow
<1> QED
  BY <1>2, <1>3 DEF Measures

(* For every file, model and tape the drawdown reported is the largest fall. *)
THEOREM ReplayDrawdownIsLargestFall == ReplaySpec => []DrawdownIsLargestFall
<1>1. ReplayInit => Measures
  <2> SUFFICES ASSUME ReplayInit PROVE Measures
    OBVIOUS
  <2>1. ledger.equity \in Int
    BY InitReplayInv, EquityTyped
  <2>2. /\ history.equities = <<ledger.equity>>
        /\ metrics.peak = ledger.equity /\ metrics.drawdown = 0
    BY DEF ReplayInit
  <2> QED
    BY <2>1, <2>2 DEF Measures, Extremes
<1>2. ReplayInv /\ Measures /\ [ReplayNext]_replayVars => Measures'
  <2>1. ASSUME Measures, UNCHANGED replayVars PROVE Measures'
    BY <2>1 DEF replayVars, Measures
  <2> QED
    BY <2>1, AcceptMeasures, OthersMeasure
<1>3. Measures => DrawdownIsLargestFall
  BY LargestFall DEF Measures, DrawdownIsLargestFall
<1> QED
  BY <1>1, <1>2, <1>3, ReplayInvariant, PTL DEF ReplaySpec

-----------------------------------------------------------------------------
(* The position. *)

(* As main of astra_replay configures the exchange: acknowledgement_latency_ns is *)
(* 1, so that the next row acknowledges an order, and quantity_step_units is 1,  *)
(* so that its quantity is not rounded.                                         *)
AtNextRow == AckLatency = 1 /\ QuantityStep = 1

(* The last order waits for the next row, and takes the position to the target of  *)
(* the decision it was made from.                                              *)
Reversing(book, decided) ==
    /\ LastWaits(book)
    /\ market # None
    /\ LET last == book.orders[Len(book.orders)]
       IN  /\ last.active_time <= market.receive_time + 1
           /\ book.ledger.position + SignedQuantity(last.request.side, last.remaining)
                = Sought(decided[Len(book.orders)].action)

OnTheWay(book, decided) == Ended(book) \/ Reversing(book, decided)

HeldOnTarget(account, log, decided) ==
    account.position =
        IF log = <<>> THEN 0 ELSE Sought(decided[log[Len(log)].order_id].action)

(* An order waits over a refused row only, which makes no new decision. *)
Following ==
    ~history.ties =>
       /\ HeldOnTarget(ledger, fills, history.decided)
       /\ OnTheWay(Book, history.decided)
       /\ pending # None => Ended(Book)

LEMMA PlacedOnTheWay ==
    ASSUME AtNextRow, ReplayInv, Recorded, ~history.ties, Following,
           NEW placed, placed = BookAfterDecision
    PROVE  /\ HeldOnTarget(placed.ledger, placed.fills, Decided)
           /\ OnTheWay(placed, Decided)
<1>1. AckLatency > 0
  BY DEF AtNextRow
<1>2. /\ ~OrderTaken => placed = Book
      /\ OrderTaken =>
           /\ Signals /\ SubmitReason(OrderOfDecision, pending.time) = "accept"
           /\ placed = Stored(OrderOfDecision, pending.time)
  BY <1>1, FirstHalf
<1>3. CASE ~OrderTaken
  BY <1>2, <1>3, BookFields DEF Following, Decided
<1>4. CASE OrderTaken
  <2> DEFINE request == OrderOfDecision
             time == pending.time
             last == Len(orders) + 1
             order == NewOrder(request, time)
             made == [time |-> time, action |-> pending.decision.action]
  <2>1. /\ Signals /\ SubmitReason(request, time) = "accept"
        /\ placed = Stored(request, time)
        /\ Ended(Book)
        /\ Decided = Append(history.decided, made)
        /\ made.action = pending.decision.action
    BY <1>2, <1>4 DEF Following, Signals, Decided
  <2>2. /\ market # None /\ market \in MarketEvents /\ time \in Int
        /\ time = market.receive_time
        /\ request \in OrderRequests(Ids) /\ request.type = "market"
        /\ request.quantity \in Nat
        /\ pending.decision.action \in {"long", "short"}
        /\ ledger.position + SignedQuantity(request.side, request.quantity)
             = Target(pending.decision.action)
    BY <2>1, OrderAsked
  <2>3. /\ BookInv(Book) /\ Balanced(Book) /\ market \in ShownEvents \cup {None}
    BY DEF ReplayInv, ExchangeOK
  <2> HIDE DEF request, time, order, last, made
  <2>4. /\ BookInv(placed)
        /\ placed.fills = fills /\ placed.ledger = ledger
        /\ last \notin DOMAIN orders
        /\ DOMAIN placed.orders = DOMAIN orders \cup {last}
        /\ placed.orders[last] = order
        /\ placed.orders[last].status = "pending"
        /\ \A i \in DOMAIN orders : placed.orders[i] = orders[i]
    BY <2>1, <2>2, <2>3, SubmitStores DEF order, last
  <2>5. Normalized(request).quantity = request.quantity
    <3>1. request.quantity \div 1 = request.quantity
      BY <2>2
    <3>2. TruncDiv(request.quantity, QuantityStep) * QuantityStep = request.quantity
      BY <2>2, <3>1 DEF TruncDiv, AtNextRow
    <3> QED
      BY <2>2, <3>2 DEF Normalized, OrderRequests
  <2>6. Normalized(request).side = request.side /\ Normalized(request).type = request.type
    BY <2>2 DEF Normalized, OrderRequests
  <2>7. /\ order.request.side = request.side /\ order.request.type = "market"
        /\ order.remaining = request.quantity
        /\ order.active_time = time + 1
    BY <2>2, <2>5, <2>6 DEF order, NewOrder, AtNextRow
  <2>8. /\ Len(placed.orders) = last /\ placed.orders # <<>>
    <3>1. orders \in Seq(OrderRecords)
      BY <2>3, BookFields DEF BookInv, Books
    <3>2. placed.orders = Append(orders, order)
      BY <2>1 DEF Stored, order
    <3> QED
      BY <3>1, <3>2 DEF last
  <2>9. LastWaits(placed)
    BY <2>1, <2>4, <2>7, <2>8, BookFields DEF LastWaits, Ended
  <2>10. /\ history.decided \in Seq(MadeDecisions) /\ Len(history.decided) = Len(orders)
         /\ orders \in Seq(OrderRecords) /\ fills \in Seq(FillRecords)
    BY BookFields DEF ReplayInv, ExchangeOK, BookInv, Books, Histories, Recorded, Traced
  <2>11. /\ Decided[last].action = pending.decision.action
         /\ \A i \in DOMAIN orders : Decided[i] = history.decided[i]
    BY <2>1, <2>10 DEF last
  <2>12. placed.ledger.position + SignedQuantity(order.request.side, order.remaining)
           = Sought(Decided[last].action)
    <3>1. placed.ledger.position + SignedQuantity(order.request.side, order.remaining)
            = Target(pending.decision.action)
      BY <2>2, <2>4, <2>7
    <3>2. Target(pending.decision.action) = Sought(pending.decision.action)
      BY <2>2 DEF Target, Sought
    <3> QED
      BY <2>11, <3>1, <3>2
  <2>13. order.active_time <= market.receive_time + 1
    BY <2>2, <2>7
  <2>14. OnTheWay(placed, Decided)
    BY <2>2, <2>4, <2>8, <2>9, <2>12, <2>13 DEF OnTheWay, Reversing
  <2>15. fills # <<>> => fills[Len(fills)].order_id \in DOMAIN orders
    <3> SUFFICES ASSUME fills # <<>> PROVE fills[Len(fills)].order_id \in DOMAIN orders
      OBVIOUS
    <3>1. Len(fills) \in DOMAIN fills
      BY <2>10
    <3> QED
      BY <2>3, <3>1, BookFields DEF BookInv, FillInv
  <2>16. HeldOnTarget(ledger, fills, history.decided)
    BY DEF Following
  <2>17. HeldOnTarget(placed.ledger, placed.fills, Decided)
    BY <2>4, <2>11, <2>15, <2>16 DEF HeldOnTarget
  <2> QED
    BY <2>14, <2>17
<1> QED
  BY <1>3, <1>4

(* A later row ends what is under way: on the old target or on the new one. *)
LEMMA LaterRowEnds ==
    ASSUME NEW decided,
           NEW b, BookInv(b), OnTheWay(b, decided), HeldOnTarget(b.ledger, b.fills, decided),
           market # None => market \in MarketEvents,
           NEW event \in ShownEvents, event \in MarketEvents,
           market # None => event.receive_time > market.receive_time,
           NEW c, c = AfterEvent(b, event)
    PROVE  Ended(c) /\ HeldOnTarget(c.ledger, c.fills, decided)
<1>1. CASE Ended(b)
  <2>1. c.orders = b.orders /\ c.fills = b.fills /\ c.ledger.position = b.ledger.position
    BY <1>1, IdleEvent
  <2> QED
    BY <1>1, <2>1 DEF Ended, HeldOnTarget
<1>2. CASE Reversing(b, decided)
  <2> DEFINE last == Len(b.orders)
  <2>1. /\ LastWaits(b) /\ market # None
        /\ b.orders[last].active_time <= market.receive_time + 1
        /\ b.ledger.position
             + SignedQuantity(b.orders[last].request.side, b.orders[last].remaining)
             = Sought(decided[last].action)
    BY <1>2 DEF Reversing
  <2>2. b.orders[last].active_time \in Int
    <3>1. b.orders \in Seq(OrderRecords) /\ b.orders # <<>>
      BY <2>1 DEF LastWaits, BookInv, Books
    <3>2. b.orders[last] \in OrderRecords
      BY <3>1
    <3> QED
      BY <3>2 DEF OrderRecords
  <2>3. event.receive_time >= b.orders[last].active_time
    <3>1. market.receive_time \in Int /\ event.receive_time \in Int
      BY <2>1 DEF MarketEvents
    <3> QED
      BY <2>1, <2>2, <3>1
  <2> HIDE DEF last
  <2>4. Finishes(b, c, last) /\ Ended(c)
    BY <2>1, <2>3, WaitingOrderFinishes DEF last
  <2>5. CASE c.fills = b.fills /\ c.ledger.position = b.ledger.position
    BY <2>4, <2>5 DEF HeldOnTarget
  <2>6. CASE /\ c.fills # <<>> /\ c.fills[Len(c.fills)].order_id = last
             /\ c.ledger.position
                  = b.ledger.position
                    + SignedQuantity(b.orders[last].request.side, b.orders[last].remaining)
    BY <2>1, <2>4, <2>6 DEF HeldOnTarget
  <2> QED
    BY <2>4, <2>5, <2>6 DEF Finishes
<1> QED
  BY <1>1, <1>2 DEF OnTheWay

LEMMA AcceptFollows ==
    ASSUME AtNextRow, ReplayInv, Recorded, Following, NEW row \in Rows, AcceptRow(row)
    PROVE  Following'
<1> SUFFICES ASSUME ~history'.ties
             PROVE  HeldOnTarget(ledger, fills, history.decided)' /\ Ended(Book)'
  BY DEF Following, OnTheWay
<1> DEFINE event == EventOf(row)
           placed == BookAfterDecision
           after == AfterEvent(placed, event)
<1>1. /\ event = EventOf(row) /\ placed = BookAfterDecision
      /\ after = AfterEvent(placed, event)
  OBVIOUS
<1>2. /\ ~history.ties /\ history'.decided = Decided
      /\ market # None => ~(market.receive_time >= event.receive_time)
  BY DEF AcceptRow
<1> HIDE DEF event, placed, after
<1>3. /\ event \in ShownEvents /\ event \in MarketEvents
      /\ Book' = AfterEvent(placed, event)
      /\ orders' = Book'.orders /\ fills' = Book'.fills /\ ledger' = Book'.ledger
  BY <1>1, SecondHalf, Zenon
<1>4. BookInv(placed)
  BY <1>1, FirstHalf, Zenon
<1>5. HeldOnTarget(placed.ledger, placed.fills, Decided) /\ OnTheWay(placed, Decided)
  BY <1>1, <1>2, PlacedOnTheWay, Zenon
<1>7. market # None => market \in MarketEvents
  BY DEF ReplayInv, ExchangeOK, ShownEvents
<1>8. market # None => event.receive_time > market.receive_time
  BY <1>2, <1>3, <1>7 DEF MarketEvents
<1>9. Ended(after) /\ HeldOnTarget(after.ledger, after.fills, Decided)
  BY <1>1, <1>3, <1>4, <1>5, <1>7, <1>8, LaterRowEnds, Zenon
<1>10. Book' = after /\ fills' = after.fills /\ ledger' = after.ledger
  BY <1>1, <1>3
<1> QED
  BY <1>2, <1>9, <1>10

LEMMA RefuseFollows ==
    ASSUME AtNextRow, ReplayInv, Recorded, Following, NEW row \in Rows, RefuseRow(row)
    PROVE  Following'
<1> SUFFICES ASSUME ~history'.ties
             PROVE  /\ HeldOnTarget(ledger, fills, history.decided)'
                    /\ OnTheWay(Book, history.decided)'
  BY DEF Following, RefuseRow
<1> DEFINE placed == BookAfterDecision
<1>1. placed = BookAfterDecision
  OBVIOUS
<1> HIDE DEF placed
<1>2. ~history.ties /\ history'.decided = Decided
  <2>1. history \in Histories
    BY DEF ReplayInv
  <2> QED
    BY <2>1 DEF RefuseRow, Histories
<1>3. market' = market /\ Book' = placed /\ fills' = placed.fills /\ ledger' = placed.ledger
  BY <1>1, RefusedHalf, Zenon
<1>4. HeldOnTarget(placed.ledger, placed.fills, Decided) /\ OnTheWay(placed, Decided)
  BY <1>1, <1>2, PlacedOnTheWay, Zenon
<1> QED
  BY <1>2, <1>3, <1>4 DEF OnTheWay, Reversing

LEMMA InitFollows == ReplayInit => Following
<1> SUFFICES ASSUME ReplayInit PROVE Following
  OBVIOUS
<1>1. /\ Book.orders = <<>> /\ fills = <<>> /\ ledger.position = 0 /\ pending = None
  BY BookFields DEF ReplayInit, Init, InitialLedger
<1>2. Ended(Book) /\ HeldOnTarget(ledger, fills, history.decided)
  BY <1>1 DEF Ended, HeldOnTarget
<1> QED
  BY <1>1, <1>2 DEF Following, OnTheWay

LEMMA StepFollows ==
    ASSUME AtNextRow, ReplayInv, Recorded, Following, [ReplayNext]_replayVars
    PROVE  Following'
<1>1. ASSUME UNCHANGED <<vars, pending, history>> PROVE Following'
  BY <1>1 DEF vars, Following, OnTheWay, Reversing, Book
<1> QED
  BY <1>1, AcceptFollows, RefuseFollows
     DEF ReplayNext, InvalidRow, Finish, replayVars

(* As the program is configured, while the times of the rows increase the position   *)
(* is flat until the first fill and then always the target, on its side, of the       *)
(* decision behind the last fill, whatever the exchange rejects and whichever rows    *)
(* are refused.                                                                *)
THEOREM ReplayPositionOnTarget ==
    ASSUME AtNextRow
    PROVE  ReplaySpec => []PositionOnTarget
<1>1. Following => PositionOnTarget
  BY DEF Following, HeldOnTarget, PositionOnTarget
<1>2. ReplaySpec => []Recorded
  BY RecordedInvariant DEF AtNextRow
<1> QED
  BY <1>1, <1>2, InitFollows, StepFollows, ReplayInvariant, PTL DEF ReplaySpec

-----------------------------------------------------------------------------
(* The report. *)

(* A decision with an error text would also count as gated if the threshold were    *)
(* above one: --probability-threshold-ppm is 550000 by default and its value is    *)
(* not checked (astra_replay/main.cpp).                                            *)
ThresholdBelowOne == Threshold <= Million

Details == [proposed : Actions, gate_hold : BOOLEAN, succeeded : BOOLEAN]

(* The decisions of a log that may become orders, that failed, that were gated, and  *)
(* that proposed an action.                                                     *)
Usable(log) == {i \in DOMAIN log : Tradable(log[i])}
Failed(log) == {i \in DOMAIN log : ~log[i].succeeded}
Held(log) == {i \in DOMAIN log : log[i].gate_hold}
Proposing(log, action) == {i \in DOMAIN log : log[i].proposed = action}

(* The pending decision may still become an order. *)
StillUsable ==
    /\ pending # None /\ pending.decision.succeeded
    /\ pending.decision.action \in {"long", "short"}

Waiting == IF StillUsable THEN 1 ELSE 0

ReportInv ==
    /\ metrics.signals = metrics.accepted + metrics.rejected
    /\ metrics.accepted = Len(orders)
    /\ metrics.ignored = ignored
    /\ written = Len(fills)
    /\ detail \in Seq(Details)
    /\ Len(detail) = metrics.decisions
    /\ \A i \in DOMAIN detail : detail[i].gate_hold => detail[i].succeeded
    /\ metrics.signals + Waiting <= Cardinality(Usable(detail))
    /\ metrics.initial = InitialLedger.cash
    /\ status = "finished" =>
          metrics.pnl = metrics.gross_profit - metrics.gross_loss
                          + ledger.unrealized_pnl - ledger.total_fee

LEMMA FiniteDomain ==
    ASSUME NEW E, NEW log \in Seq(E), NEW S \in SUBSET (DOMAIN log)
    PROVE  /\ IsFiniteSet(DOMAIN log) /\ Cardinality(DOMAIN log) = Len(log)
           /\ IsFiniteSet(S) /\ Cardinality(S) \in Nat
<1>1. DOMAIN log = 1 .. Len(log) /\ Len(log) \in Nat
  OBVIOUS
<1>2. IsFiniteSet(DOMAIN log) /\ Cardinality(DOMAIN log) = Len(log)
  <2> DEFINE n == Len(log)
  <2>1. n \in Nat
    BY <1>1
  <2> HIDE DEF n
  <2>2. IsFiniteSet(1 .. n) /\ Cardinality(1 .. n) = n
    BY <2>1, FS_Interval
  <2> QED
    BY <1>1, <2>2 DEF n
<1>3. IsFiniteSet(S)
  BY <1>2, FS_Subset
<1> QED
  BY <1>2, <1>3, FS_CardinalityType

(* A usable entry adds itself, another one nothing. *)
LEMMA UsableGrows ==
    ASSUME NEW log \in Seq(Details), NEW entry \in Details, NEW longer,
           longer = Append(log, entry)
    PROVE  Cardinality(Usable(longer)) = Cardinality(Usable(log)) + (IF Tradable(entry) THEN 1 ELSE 0)
<1> DEFINE last == Len(log) + 1
<1>1. /\ DOMAIN longer = DOMAIN log \cup {last} /\ last \notin DOMAIN log
      /\ longer[last] = entry /\ \A i \in DOMAIN log : longer[i] = log[i]
  OBVIOUS
<1>2. IsFiniteSet(Usable(log)) /\ Cardinality(Usable(log)) \in Nat
  BY FiniteDomain DEF Usable
<1> HIDE DEF last
<1>3. CASE Tradable(entry)
  <2>1. Usable(longer) = Usable(log) \cup {last} /\ last \notin Usable(log)
    BY <1>1, <1>3 DEF Usable
  <2> QED
    BY <1>2, <1>3, <2>1, FS_AddElement
<1>4. CASE ~Tradable(entry)
  <2>1. Usable(longer) = Usable(log)
    BY <1>1, <1>4 DEF Usable
  <2> QED
    BY <1>2, <1>4, <2>1
<1> QED
  BY <1>3, <1>4

(* What the two halves of a row count. *)
LEMMA CountedFields ==
    ASSUME ReplayInv, NEW counted, counted = MetricsAfterDecision
    PROVE  /\ counted \in Metrics
           /\ counted.signals = metrics.signals + (IF Signals THEN 1 ELSE 0)
           /\ counted.accepted = metrics.accepted + (IF OrderTaken THEN 1 ELSE 0)
           /\ counted.rejected = metrics.rejected + (IF Signals /\ ~OrderTaken THEN 1 ELSE 0)
           /\ counted.decisions = metrics.decisions /\ counted.ignored = metrics.ignored
           /\ counted.initial = metrics.initial
<1> DEFINE signals == metrics.signals + (IF Signals THEN 1 ELSE 0)
           accepted == metrics.accepted + (IF OrderTaken THEN 1 ELSE 0)
           rejected == metrics.rejected + (IF Signals /\ ~OrderTaken THEN 1 ELSE 0)
<1>1. metrics \in Metrics /\ counted \in Metrics
  BY CountedDecision DEF ReplayInv
<1>2. counted = [metrics EXCEPT !.signals = signals, !.accepted = accepted,
                                !.rejected = rejected]
  BY Zenon DEF MetricsAfterDecision
<1> HIDE DEF signals, accepted, rejected
<1>3. /\ counted.signals = signals /\ counted.accepted = accepted /\ counted.rejected = rejected
      /\ counted.decisions = metrics.decisions /\ counted.ignored = metrics.ignored
      /\ counted.initial = metrics.initial
  BY <1>1, <1>2 DEF Metrics, Counters
<1> QED
  BY <1>1, <1>3 DEF signals, accepted, rejected

LEMMA AcceptCounts ==
    ASSUME ReplayInv, NEW row \in Rows, AcceptRow(row)
    PROVE  /\ metrics'.signals = metrics.signals + (IF Signals THEN 1 ELSE 0)
           /\ metrics'.accepted = metrics.accepted + (IF OrderTaken THEN 1 ELSE 0)
           /\ metrics'.rejected = metrics.rejected + (IF Signals /\ ~OrderTaken THEN 1 ELSE 0)
           /\ metrics'.decisions = metrics.decisions + (IF pending' = None THEN 0 ELSE 1)
           /\ metrics'.ignored = metrics.ignored /\ metrics'.initial = metrics.initial
<1> DEFINE counted == MetricsAfterDecision
           events == counted.events + 1
           decisions == counted.decisions + (IF pending' = None THEN 0 ELSE 1)
           peak == PeakAfter(ledger'.equity)
           drawdown == DrawdownAfter(ledger'.equity)
<1>1. metrics' = [counted EXCEPT !.events = events, !.decisions = decisions,
                                 !.peak = peak, !.drawdown = drawdown]
  BY Zenon DEF AcceptRow, Measured
<1>2. counted = MetricsAfterDecision
  OBVIOUS
<1>3. decisions = counted.decisions + (IF pending' = None THEN 0 ELSE 1)
  OBVIOUS
<1> HIDE DEF counted, events, decisions, peak, drawdown
<1>4. /\ counted \in Metrics
      /\ counted.signals = metrics.signals + (IF Signals THEN 1 ELSE 0)
      /\ counted.accepted = metrics.accepted + (IF OrderTaken THEN 1 ELSE 0)
      /\ counted.rejected = metrics.rejected + (IF Signals /\ ~OrderTaken THEN 1 ELSE 0)
      /\ counted.decisions = metrics.decisions /\ counted.ignored = metrics.ignored
      /\ counted.initial = metrics.initial
  BY <1>2, CountedFields, Zenon
<1>5. /\ metrics'.signals = counted.signals /\ metrics'.accepted = counted.accepted
      /\ metrics'.rejected = counted.rejected /\ metrics'.decisions = decisions
      /\ metrics'.ignored = counted.ignored /\ metrics'.initial = counted.initial
  BY <1>1, <1>4 DEF Metrics, Counters
<1> QED
  BY <1>3, <1>4, <1>5

LEMMA RefuseCounts ==
    ASSUME ReplayInv, NEW row \in Rows, RefuseRow(row)
    PROVE  /\ metrics'.signals = metrics.signals + (IF Signals THEN 1 ELSE 0)
           /\ metrics'.accepted = metrics.accepted + (IF OrderTaken THEN 1 ELSE 0)
           /\ metrics'.rejected = metrics.rejected + (IF Signals /\ ~OrderTaken THEN 1 ELSE 0)
           /\ metrics'.decisions = metrics.decisions
           /\ metrics'.ignored = metrics.ignored + 1 /\ metrics'.initial = metrics.initial
<1> DEFINE counted == MetricsAfterDecision
           refused == counted.ignored + 1
<1>1. metrics' = [counted EXCEPT !.ignored = refused]
  BY DEF RefuseRow
<1>2. counted = MetricsAfterDecision /\ refused = counted.ignored + 1
  OBVIOUS
<1> HIDE DEF counted, refused
<1>4. /\ counted \in Metrics
      /\ counted.signals = metrics.signals + (IF Signals THEN 1 ELSE 0)
      /\ counted.accepted = metrics.accepted + (IF OrderTaken THEN 1 ELSE 0)
      /\ counted.rejected = metrics.rejected + (IF Signals /\ ~OrderTaken THEN 1 ELSE 0)
      /\ counted.decisions = metrics.decisions /\ counted.ignored = metrics.ignored
      /\ counted.initial = metrics.initial
  BY <1>2, CountedFields, Zenon
<1>5. /\ metrics'.signals = counted.signals /\ metrics'.accepted = counted.accepted
      /\ metrics'.rejected = counted.rejected /\ metrics'.decisions = counted.decisions
      /\ metrics'.ignored = refused /\ metrics'.initial = counted.initial
  BY <1>1, <1>4 DEF Metrics, Counters
<1> QED
  BY <1>2, <1>4, <1>5

(* The exchange has one order more for each signal that it accepted. *)
LEMMA PlacedCounts ==
    ASSUME ReplayInv, AckLatency > 0, NEW placed, placed = BookAfterDecision
    PROVE  /\ Len(placed.orders) = Len(orders) + (IF OrderTaken THEN 1 ELSE 0)
           /\ placed.fills = fills /\ placed.ledger = ledger
<1>1. /\ ~OrderTaken => placed = Book
      /\ OrderTaken => placed = Stored(OrderOfDecision, pending.time)
  BY FirstHalf
<1>2. orders \in Seq(OrderRecords) /\ Len(orders) \in Nat
  BY BookFields DEF ReplayInv, ExchangeOK, BookInv, Books
<1>3. CASE OrderTaken
  <2> DEFINE order == NewOrder(OrderOfDecision, pending.time)
  <2>1. placed = [orders |-> Append(orders, order), fills |-> fills, ledger |-> ledger]
    BY <1>1, <1>3 DEF Stored
  <2> HIDE DEF order
  <2> QED
    BY <1>2, <1>3, <2>1
<1>4. CASE ~OrderTaken
  BY <1>1, <1>2, <1>4, BookFields
<1> QED
  BY <1>3, <1>4

(* A signal was a usable decision. *)
LEMMA SignalsUsable == ReplayInv /\ Signals => StillUsable
BY OrderAsked DEF Signals, StillUsable

LEMMA AcceptReports ==
    ASSUME AckLatency > 0, ThresholdBelowOne, ReplayInv, ReportInv,
           NEW row \in Rows, AcceptRow(row)
    PROVE  ReportInv'
<1> DEFINE event == EventOf(row)
           placed == BookAfterDecision
<1>1. event = EventOf(row) /\ placed = BookAfterDecision
  OBVIOUS
<1> HIDE DEF event, placed
<1>2. /\ EventStep(placed, Book', event) /\ BookInv(Book')
      /\ orders' = Book'.orders /\ fills' = Book'.fills /\ ledger' = Book'.ledger
  BY <1>1, SecondHalf, Zenon
<1>3. Len(orders') = Len(orders) + (IF OrderTaken THEN 1 ELSE 0)
  <2>1. Len(placed.orders) = Len(orders) + (IF OrderTaken THEN 1 ELSE 0) /\ BookInv(placed)
    BY <1>1, PlacedCounts, FirstHalf, Zenon
  <2>2. orders' \in Seq(OrderRecords) /\ placed.orders \in Seq(OrderRecords)
    BY <1>2, <2>1 DEF BookInv, Books
  <2>3. Len(orders') = Len(placed.orders)
    BY <1>2, <2>2 DEF EventStep
  <2> QED
    BY <2>1, <2>3
<1>4. /\ metrics'.signals = metrics.signals + (IF Signals THEN 1 ELSE 0)
      /\ metrics'.accepted = metrics.accepted + (IF OrderTaken THEN 1 ELSE 0)
      /\ metrics'.rejected = metrics.rejected + (IF Signals /\ ~OrderTaken THEN 1 ELSE 0)
      /\ metrics'.decisions = metrics.decisions + (IF pending' = None THEN 0 ELSE 1)
      /\ metrics'.ignored = metrics.ignored /\ metrics'.initial = metrics.initial
  BY AcceptCounts
<1>5. /\ metrics.signals \in Int /\ metrics.accepted \in Int /\ metrics.rejected \in Int
      /\ metrics.decisions \in Int
  BY CountersTyped DEF ReplayInv
<1>6. ignored' = ignored /\ written' = Len(fills') /\ status' # "finished"
  BY DEF AcceptRow
<1>7. OrderTaken => Signals
  BY DEF OrderTaken
<1>8. /\ detail' \in Seq(Details)
      /\ Len(detail') = metrics'.decisions
      /\ \A i \in DOMAIN detail' : detail'[i].gate_hold => detail'[i].succeeded
      /\ Cardinality(Usable(detail')) = Cardinality(Usable(detail)) + Waiting'
  <2>1. detail \in Seq(Details) /\ Cardinality(Usable(detail)) \in Nat
    BY FiniteDomain DEF ReportInv, Usable
  <2>2. CASE pending' = None /\ detail' = detail
    <3>1. Waiting' = 0
      BY <2>2 DEF Waiting, StillUsable
    <3> QED
      BY <1>4, <1>5, <2>1, <2>2, <3>1 DEF ReportInv
  <2>3. ASSUME NEW decision \in Decisions,
               pending' = [decision |-> Gated(decision), time |-> event.receive_time],
               pending' # None,
               detail' = Append(detail, DecisionDetail(decision)),
               decision.succeeded \/ decision.probability = Million
        PROVE  /\ detail' \in Seq(Details)
               /\ Len(detail') = metrics'.decisions
               /\ \A i \in DOMAIN detail' : detail'[i].gate_hold => detail'[i].succeeded
               /\ Cardinality(Usable(detail')) = Cardinality(Usable(detail)) + Waiting'
    <3> DEFINE entry == DecisionDetail(decision)
    <3>1. /\ entry.proposed = decision.action /\ entry.gate_hold = GateHolds(decision)
          /\ entry.succeeded = decision.succeeded
          /\ entry = [proposed |-> entry.proposed, gate_hold |-> entry.gate_hold,
                      succeeded |-> entry.succeeded]
      BY DEF DecisionDetail
    <3>2. entry \in Details
      <4>1. entry.proposed \in Actions /\ entry.succeeded \in BOOLEAN
        BY <3>1 DEF Decisions
      <4>2. GateHolds(decision) \in BOOLEAN
        BY DEF GateHolds
      <4> QED
        BY <3>1, <4>1, <4>2 DEF Details
    <3>3. entry.gate_hold => entry.succeeded
      <4>3. Million \in Int
        BY SMT DEF Million
      <4>1. Million \in Int /\ Threshold \in Int
        BY <4>3, ReplayAssumption
      <4>2. decision.probability = Million => ~GateHolds(decision)
        BY <4>1 DEF GateHolds, ThresholdBelowOne
      <4> QED
        BY <2>3, <3>1, <4>2
    <3>4. Tradable(entry) <=> StillUsable'
      <4>1. /\ Gated(decision).succeeded = decision.succeeded
            /\ Gated(decision).action
                 = IF GateHolds(decision) THEN "hold" ELSE decision.action
        BY GateKeeps
      <4>2. /\ pending'.decision.succeeded = decision.succeeded
            /\ pending'.decision.action
                 = IF GateHolds(decision) THEN "hold" ELSE decision.action
        BY <2>3, <4>1
      <4>3. decision.succeeded \in BOOLEAN /\ decision.action \in {"long", "short", "hold"}
        BY DEF Decisions, Actions
      <4> QED
        BY <2>3, <3>1, <4>2, <4>3 DEF Tradable, StillUsable
    <3> HIDE DEF entry
    <3>5. /\ detail' = Append(detail, entry) /\ detail' \in Seq(Details)
          /\ Len(detail') = Len(detail) + 1
          /\ DOMAIN detail' = DOMAIN detail \cup {Len(detail) + 1}
          /\ detail'[Len(detail) + 1] = entry
          /\ \A i \in DOMAIN detail : detail'[i] = detail[i]
      <4>1. detail' = Append(detail, entry)
        BY <2>3 DEF entry
      <4> QED
        BY <2>1, <3>2, <4>1
    <3>6. \A i \in DOMAIN detail' : detail'[i].gate_hold => detail'[i].succeeded
      BY <3>3, <3>5 DEF ReportInv
    <3>7. Len(detail') = metrics'.decisions
      BY <1>4, <1>5, <2>3, <3>5 DEF ReportInv
    <3>8. Cardinality(Usable(detail')) = Cardinality(Usable(detail)) + Waiting'
      <4>1. Cardinality(Usable(detail'))
              = Cardinality(Usable(detail)) + (IF Tradable(entry) THEN 1 ELSE 0)
        BY <2>1, <3>2, <3>5, UsableGrows
      <4> QED
        BY <3>4, <4>1 DEF Waiting
    <3> QED
      BY <3>5, <3>6, <3>7, <3>8
  <2>4. \/ pending' = None /\ detail' = detail
        \/ \E decision \in Decisions :
              /\ pending' = [decision |-> Gated(decision), time |-> event.receive_time]
              /\ pending' # None
              /\ detail' = Append(detail, DecisionDetail(decision))
              /\ decision.succeeded \/ decision.probability = Million
    BY <1>1, DecisionPends
  <2> QED
    BY <2>2, <2>3, <2>4
<1>9. metrics'.signals + Waiting' <= Cardinality(Usable(detail'))
  <2>1. Signals => StillUsable
    BY SignalsUsable
  <2>2. metrics.signals + Waiting <= Cardinality(Usable(detail))
    BY DEF ReportInv
  <2>3. Cardinality(Usable(detail)) \in Nat
    BY FiniteDomain DEF ReportInv, Usable
  <2>4. metrics'.signals <= metrics.signals + Waiting
    BY <1>4, <1>5, <2>1 DEF Waiting
  <2>5. Waiting \in Nat /\ Waiting' \in Nat
    BY DEF Waiting
  <2>6. metrics'.signals \in Int
    BY <1>4, <1>5
  <2> QED
    BY <1>5, <1>8, <2>2, <2>3, <2>4, <2>5, <2>6
<1>10. /\ metrics'.signals = metrics'.accepted + metrics'.rejected
       /\ metrics'.accepted = Len(orders')
       /\ metrics'.ignored = ignored' /\ metrics'.initial = InitialLedger.cash
  BY <1>3, <1>4, <1>5, <1>6, <1>7 DEF ReportInv
<1> QED
  BY <1>6, <1>8, <1>9, <1>10 DEF ReportInv

LEMMA RefuseReports ==
    ASSUME AckLatency > 0, ReplayInv, ReportInv, NEW row \in Rows, RefuseRow(row)
    PROVE  ReportInv'
<1> DEFINE placed == BookAfterDecision
<1>1. placed = BookAfterDecision
  OBVIOUS
<1> HIDE DEF placed
<1>2. orders' = placed.orders /\ fills' = placed.fills /\ ledger' = placed.ledger
  BY <1>1, RefusedHalf, Zenon
<1>3. /\ Len(orders') = Len(orders) + (IF OrderTaken THEN 1 ELSE 0) /\ fills' = fills
  BY <1>1, <1>2, PlacedCounts
<1>4. /\ metrics'.signals = metrics.signals + (IF Signals THEN 1 ELSE 0)
      /\ metrics'.accepted = metrics.accepted + (IF OrderTaken THEN 1 ELSE 0)
      /\ metrics'.rejected = metrics.rejected + (IF Signals /\ ~OrderTaken THEN 1 ELSE 0)
      /\ metrics'.decisions = metrics.decisions
      /\ metrics'.ignored = metrics.ignored + 1 /\ metrics'.initial = metrics.initial
  BY RefuseCounts
<1>5. /\ metrics.signals \in Int /\ metrics.accepted \in Int /\ metrics.rejected \in Int
      /\ metrics.decisions \in Int
  BY CountersTyped DEF ReplayInv
<1>6. /\ ignored' = ignored + 1 /\ written' = written /\ status' # "finished"
      /\ detail' = detail /\ pending' = None
  BY DEF RefuseRow
<1>7. OrderTaken => Signals
  BY DEF OrderTaken
<1>8. metrics'.signals + Waiting' <= Cardinality(Usable(detail'))
  <2>1. Signals => StillUsable
    BY SignalsUsable
  <2>2. metrics.signals + Waiting <= Cardinality(Usable(detail))
    BY DEF ReportInv
  <2>3. Waiting' = 0
    BY <1>6 DEF Waiting, StillUsable
  <2>4. metrics'.signals <= metrics.signals + Waiting /\ Waiting \in Nat
    BY <1>4, <1>5, <2>1 DEF Waiting
  <2>5. Cardinality(Usable(detail)) \in Nat
    BY FiniteDomain DEF ReportInv, Usable
  <2>6. metrics'.signals \in Int
    BY <1>4, <1>5
  <2> QED
    BY <1>5, <1>6, <2>2, <2>3, <2>4, <2>5, <2>6
<1> QED
  BY <1>3, <1>4, <1>5, <1>6, <1>7, <1>8 DEF ReportInv

(* The profit reported at the end. *)
LEMMA FinishReports ==
    ASSUME ReplayInv, ReportInv, Finish
    PROVE  ReportInv'
<1>1. /\ metrics \in Metrics /\ BookInv(Book) /\ Balanced(Book)
  BY DEF ReplayInv, ExchangeOK
<1>2. /\ Profits \in Int /\ Losses \in Int
      /\ SumFunction(RealizedPnls(fills)) = Profits - Losses
  BY <1>1, ProfitsLessLosses
<1>3. /\ ledger.cash = InitialLedger.cash + ledger.realized_pnl - ledger.total_fee
      /\ ledger.equity = ledger.cash + ledger.unrealized_pnl
      /\ ledger.realized_pnl = Profits - Losses
  BY <1>1, <1>2, BookFields DEF Balanced, Bookkept
<1>4. /\ ledger.cash \in Int /\ ledger.equity \in Int /\ ledger.realized_pnl \in Int
      /\ ledger.unrealized_pnl \in Int /\ ledger.total_fee \in Int
      /\ metrics.initial \in Int /\ InitialLedger.cash = metrics.initial
  BY <1>1, BookFields, CountersTyped DEF BookInv, Books, Ledgers, ReportInv
<1> DEFINE profits == Profits
           losses == Losses
           pnl == ledger.equity - metrics.initial
<1>5. metrics' = [metrics EXCEPT !.gross_profit = profits, !.gross_loss = losses, !.pnl = pnl]
  BY DEF Finish
<1>6. pnl = profits - losses + ledger.unrealized_pnl - ledger.total_fee
  BY <1>2, <1>3, <1>4
<1> HIDE DEF profits, losses, pnl
<1>7. /\ metrics'.signals = metrics.signals /\ metrics'.accepted = metrics.accepted
      /\ metrics'.rejected = metrics.rejected /\ metrics'.decisions = metrics.decisions
      /\ metrics'.ignored = metrics.ignored /\ metrics'.initial = metrics.initial
      /\ metrics'.gross_profit = profits /\ metrics'.gross_loss = losses /\ metrics'.pnl = pnl
  BY <1>1, <1>5 DEF Metrics, Counters
<1>8. UNCHANGED <<vars, pending, detail, written>>
  BY DEF Finish
<1>9. Waiting' = Waiting
  BY <1>8 DEF Waiting, StillUsable
<1> QED
  BY <1>6, <1>7, <1>8, <1>9 DEF ReportInv, vars

LEMMA StepReports ==
    ASSUME AckLatency > 0, ThresholdBelowOne, ReplayInv, ReportInv, [ReplayNext]_replayVars
    PROVE  ReportInv'
<1>1. ASSUME UNCHANGED <<vars, pending, metrics, detail, written>>,
             status' = status \/ status' = "failed"
      PROVE  ReportInv'
  BY <1>1 DEF vars, ReportInv, Waiting, StillUsable
<1> QED
  BY <1>1, AcceptReports, RefuseReports, FinishReports DEF ReplayNext, InvalidRow, replayVars

LEMMA InitReports == ReplayInit => ReportInv
<1> SUFFICES ASSUME ReplayInit PROVE ReportInv
  OBVIOUS
<1>1. /\ orders = <<>> /\ fills = <<>> /\ ignored = 0 /\ written = 0 /\ detail = <<>>
      /\ pending = None /\ status # "finished"
      /\ metrics.signals = 0 /\ metrics.accepted = 0 /\ metrics.rejected = 0
      /\ metrics.decisions = 0 /\ metrics.ignored = 0 /\ metrics.initial = ledger.equity
      /\ ledger = InitialLedger
  BY DEF ReplayInit, Init
<1>2. InitialLedger.equity = InitialLedger.cash
  BY DEF InitialLedger
<1>3. Usable(detail) = {} /\ Waiting = 0
  BY <1>1 DEF Usable, Waiting, StillUsable
<1>4. Cardinality(Usable(detail)) = 0
  BY <1>3, FS_EmptySet
<1> QED
  BY <1>1, <1>2, <1>3, <1>4 DEF ReportInv

LEMMA ReportInvariant ==
    ASSUME AckLatency > 0, ThresholdBelowOne
    PROVE  ReplaySpec => []ReportInv
BY InitReports, StepReports, ReplayInvariant, PTL DEF ReplaySpec

(* A sum over two actions at most. *)
LEMMA SumOfTwo ==
    ASSUME NEW f, NEW P \in SUBSET {"long", "short"}, \A a \in P : f[a] \in Int
    PROVE  SumFunctionOnSet(f, P)
             = (IF "long" \in P THEN f["long"] ELSE 0)
                 + (IF "short" \in P THEN f["short"] ELSE 0)
<1>1. SumFunctionOnSet(f, {}) = 0 /\ IsFiniteSet({})
  BY SumOfNothing, FS_EmptySet
<1>2. ASSUME NEW a \in P PROVE SumFunctionOnSet(f, {a}) = f[a] /\ IsFiniteSet({a})
  <2> DEFINE none == {}
  <2>1. a \notin none /\ \A y \in none \cup {a} : f[y] \in Int
    OBVIOUS
  <2>2. none \cup {a} = {a} /\ none = {}
    OBVIOUS
  <2> HIDE DEF none
  <2>3. SumFunctionOnSet(f, none \cup {a}) = SumFunctionOnSet(f, none) + f[a]
    BY <1>1, <2>1, <2>2, SumAdds
  <2>4. f[a] \in Int
    BY <1>2
  <2>5. SumFunctionOnSet(f, none) = 0
    BY <1>1, <2>2, Zenon
  <2>6. SumFunctionOnSet(f, none \cup {a}) = f[a]
    BY <2>3, <2>4, <2>5
  <2>7. IsFiniteSet({a})
    BY FS_Singleton, Zenon
  <2> QED
    BY <2>2, <2>6, <2>7, Zenon
<1>3. CASE "long" \in P /\ "short" \in P
  <2> DEFINE first == {"long"}
  <2>1. "short" \notin first /\ \A y \in first \cup {"short"} : f[y] \in Int
    BY <1>3
  <2>2. first \cup {"short"} = P
    BY <1>3
  <2>3. IsFiniteSet(first) /\ SumFunctionOnSet(f, first) = f["long"]
    BY <1>2, <1>3
  <2> HIDE DEF first
  <2>4. SumFunctionOnSet(f, first \cup {"short"}) = SumFunctionOnSet(f, first) + f["short"]
    BY <2>1, <2>3, SumAdds
  <2> QED
    BY <1>3, <2>2, <2>3, <2>4
<1>4. CASE "long" \in P /\ "short" \notin P
  <2>1. P = {"long"} /\ f["long"] \in Int
    BY <1>4
  <2>2. SumFunctionOnSet(f, P) = f["long"]
    BY <1>2, <1>4, <2>1
  <2> QED
    BY <1>4, <2>1, <2>2
<1>5. CASE "long" \notin P /\ "short" \in P
  <2>1. P = {"short"} /\ f["short"] \in Int
    BY <1>5
  <2>2. SumFunctionOnSet(f, P) = f["short"]
    BY <1>2, <1>5, <2>1
  <2> QED
    BY <1>5, <2>1, <2>2
<1>6. CASE "long" \notin P /\ "short" \notin P
  <2>1. P = {}
    BY <1>6
  <2> QED
    BY <1>1, <1>6, <2>1
<1> QED
  BY <1>3, <1>4, <1>5, <1>6

(* The counts of a log: the usable decisions proposed a side, and the usable, the   *)
(* failed and the gated ones are apart.                                         *)
LEMMA LogCounts ==
    ASSUME NEW log \in Seq(Details),
           \A i \in DOMAIN log : log[i].gate_hold => log[i].succeeded
    PROVE  /\ Cardinality(Usable(log))
                <= Cardinality(Proposing(log, "long")) + Cardinality(Proposing(log, "short"))
           /\ Cardinality(Usable(log)) + Cardinality(Failed(log)) + Cardinality(Held(log))
                <= Len(log)
<1> DEFINE long == Proposing(log, "long")
           short == Proposing(log, "short")
           usable == Usable(log)
           failed == Failed(log)
           held == Held(log)
           all == DOMAIN log
<1>1. /\ {long, short, usable, failed, held} \subseteq SUBSET all
      /\ usable \subseteq long \cup short
      /\ usable \cap failed = {} /\ (usable \cup failed) \cap held = {}
      /\ long \cap short = {}
  <2>1. \A i \in DOMAIN log : log[i] \in Details
    OBVIOUS
  <2> QED
    BY <2>1 DEF Proposing, Usable, Failed, Held, Tradable, Details, Actions
<1>2. IsFiniteSet(all) /\ Cardinality(all) = Len(log)
  BY FiniteDomain
<1> HIDE DEF long, short, usable, failed, held, all
<1>3. ASSUME NEW S \in SUBSET all PROVE IsFiniteSet(S) /\ Cardinality(S) \in Nat
  <2>1. IsFiniteSet(S)
    BY <1>2, FS_Subset
  <2> QED
    BY <2>1, FS_CardinalityType
<1>4. /\ long \in SUBSET all /\ short \in SUBSET all /\ usable \in SUBSET all
      /\ failed \in SUBSET all /\ held \in SUBSET all
  BY <1>1
<1>5. ASSUME NEW S \in SUBSET all, NEW T \in SUBSET all, S \cap T = {}
      PROVE  Cardinality(S \cup T) = Cardinality(S) + Cardinality(T)
  <2>1. IsFiniteSet(S) /\ IsFiniteSet(T) /\ Cardinality(S) \in Nat /\ Cardinality(T) \in Nat
    BY <1>3
  <2>2. Cardinality(S \cup T) = Cardinality(S) + Cardinality(T) - Cardinality(S \cap T)
    BY <2>1, FS_Union
  <2>3. Cardinality(S \cap T) = 0
    BY <1>5, FS_EmptySet
  <2> QED
    BY <2>1, <2>2, <2>3
<1>6. Cardinality(usable) <= Cardinality(long) + Cardinality(short)
  <2>1. Cardinality(long \cup short) = Cardinality(long) + Cardinality(short)
    BY <1>1, <1>4, <1>5
  <2>2. IsFiniteSet(long \cup short)
    BY <1>3, <1>4
  <2>3. Cardinality(usable) <= Cardinality(long \cup short)
    BY <1>1, <2>2, FS_Subset
  <2> QED
    BY <2>1, <2>3
<1>7. Cardinality(usable) + Cardinality(failed) + Cardinality(held) <= Len(log)
  <2>1. Cardinality(usable \cup failed) = Cardinality(usable) + Cardinality(failed)
    BY <1>1, <1>4, <1>5
  <2>2. /\ usable \cup failed \in SUBSET all
        /\ (usable \cup failed) \cup held \in SUBSET all
    BY <1>4
  <2>3. Cardinality((usable \cup failed) \cup held)
          = Cardinality(usable \cup failed) + Cardinality(held)
    BY <1>1, <1>4, <1>5, <2>2
  <2>4. Cardinality((usable \cup failed) \cup held) <= Cardinality(all)
    BY <1>2, <2>2, FS_Subset
  <2> QED
    BY <1>2, <2>1, <2>3, <2>4
<1> QED
  BY <1>6, <1>7 DEF long, short, usable, failed, held

(* What the report counts is what the log holds. *)
LEMMA ReportCounts ==
    ASSUME detail \in Seq(Details), NEW counted, counted = DecisionTapeReport
    PROVE  /\ counted.decisions = Len(detail)
           /\ counted.errors = Cardinality(Failed(detail))
           /\ counted.gated_holds = Cardinality(Held(detail))
           /\ DOMAIN counted.proposed_actions = {detail[i].proposed : i \in DOMAIN detail}
           /\ \A action \in DOMAIN counted.proposed_actions :
                 counted.proposed_actions[action] = Cardinality(Proposing(detail, action))
BY DEF DecisionTapeReport, Failed, Held, Proposing

LEMMA DirectionalCount ==
    ASSUME detail \in Seq(Details), NEW counted, counted = DecisionTapeReport
    PROVE  SumFunctionOnSet(counted.proposed_actions,
                            DOMAIN counted.proposed_actions \ {"hold"})
             = Cardinality(Proposing(detail, "long")) + Cardinality(Proposing(detail, "short"))
<1> DEFINE f == counted.proposed_actions
           P == DOMAIN f \ {"hold"}
<1>1. /\ DOMAIN f = {detail[i].proposed : i \in DOMAIN detail}
      /\ \A action \in DOMAIN f : f[action] = Cardinality(Proposing(detail, action))
  BY ReportCounts
<1>2. ASSUME NEW action PROVE Cardinality(Proposing(detail, action)) \in Nat
  BY FiniteDomain DEF Proposing
<1>3. ASSUME NEW action, action \notin DOMAIN f
      PROVE  Cardinality(Proposing(detail, action)) = 0
  <2>1. Proposing(detail, action) = {}
    BY <1>1, <1>3 DEF Proposing
  <2> QED
    BY <2>1, FS_EmptySet
<1>4. DOMAIN f \subseteq Actions
  <2>1. \A i \in DOMAIN detail : detail[i] \in Details
    OBVIOUS
  <2> QED
    BY <1>1, <2>1 DEF Details
<1> HIDE DEF f
<1>5. P \in SUBSET {"long", "short"} /\ \A a \in P : f[a] \in Int
  <2>1. ASSUME NEW a \in P PROVE a \in {"long", "short"} /\ f[a] \in Int
    <3>1. a \in DOMAIN f /\ a # "hold"
      OBVIOUS
    <3>2. f[a] \in Nat
      BY <1>1, <1>2, <3>1, Zenon
    <3> QED
      BY <1>4, <3>1, <3>2 DEF Actions
  <2> HIDE DEF P
  <2> QED
    BY <2>1
<1>6. /\ "long" \in P => f["long"] = Cardinality(Proposing(detail, "long"))
      /\ "long" \notin P => Cardinality(Proposing(detail, "long")) = 0
      /\ "short" \in P => f["short"] = Cardinality(Proposing(detail, "short"))
      /\ "short" \notin P => Cardinality(Proposing(detail, "short")) = 0
  BY <1>1, <1>3
<1> HIDE DEF P
<1>7. SumFunctionOnSet(f, P)
        = Cardinality(Proposing(detail, "long")) + Cardinality(Proposing(detail, "short"))
  BY <1>5, <1>6, SumOfTwo
<1> QED
  BY <1>7 DEF f, P

(* The report adds up for every file, model, tape and length of run. *)
THEOREM ReplayReportReconciles ==
    ASSUME AckLatency > 0, ThresholdBelowOne
    PROVE  ReplaySpec => []ReportReconciles
<1>1. ReplayInv /\ ReportInv => ReportReconciles
  <2> SUFFICES ASSUME ReplayInv, ReportInv PROVE ReportReconciles
    OBVIOUS
  <2> DEFINE counted == DecisionTapeReport
             proposals == DOMAIN counted.proposed_actions \ {"hold"}
             directional == SumFunctionOnSet(counted.proposed_actions, proposals)
  <2>1. /\ detail \in Seq(Details)
        /\ \A i \in DOMAIN detail : detail[i].gate_hold => detail[i].succeeded
        /\ Len(detail) = metrics.decisions
        /\ metrics.signals + Waiting <= Cardinality(Usable(detail))
    BY DEF ReportInv
  <2>2. /\ counted.decisions = Len(detail)
        /\ counted.errors = Cardinality(Failed(detail))
        /\ counted.gated_holds = Cardinality(Held(detail))
    BY <2>1, ReportCounts
  <2>3. directional = Cardinality(Proposing(detail, "long"))
                        + Cardinality(Proposing(detail, "short"))
    BY <2>1, DirectionalCount
  <2> HIDE DEF counted, directional
  <2>4. /\ Cardinality(Usable(detail)) <= directional
        /\ Cardinality(Usable(detail)) + counted.errors + counted.gated_holds <= counted.decisions
    BY <2>1, <2>2, <2>3, LogCounts
  <2>5. /\ Cardinality(Usable(detail)) \in Nat /\ counted.errors \in Nat
        /\ counted.gated_holds \in Nat /\ directional \in Nat /\ counted.decisions \in Nat
    <3>1. \A S \in SUBSET (DOMAIN detail) : Cardinality(S) \in Nat
      BY <2>1, FiniteDomain
    <3>2. \A action : Proposing(detail, action) \in SUBSET (DOMAIN detail)
      BY DEF Proposing
    <3>3. /\ Usable(detail) \in SUBSET (DOMAIN detail)
          /\ Failed(detail) \in SUBSET (DOMAIN detail)
          /\ Held(detail) \in SUBSET (DOMAIN detail)
      BY DEF Usable, Failed, Held
    <3> QED
      BY <2>1, <2>2, <2>3, <3>1, <3>2, <3>3
  <2>6. metrics.signals <= Cardinality(Usable(detail)) /\ metrics.signals \in Int
    <3>1. Waiting \in Nat
      BY DEF Waiting
    <3>2. metrics.signals \in Int
      BY CountersTyped DEF ReplayInv
    <3> QED
      BY <2>1, <2>5, <3>1, <3>2
  <2>7. /\ counted.decisions = metrics.decisions
        /\ metrics.signals <= Cardinality({i \in DOMAIN detail : Tradable(detail[i])})
        /\ metrics.signals <= directional
        /\ metrics.signals + counted.errors + counted.gated_holds <= counted.decisions
    BY <2>1, <2>2, <2>4, <2>5, <2>6 DEF Usable
  <2> QED
    BY <2>7, Zenon DEF ReportInv, ReportReconciles, counted, directional
<1> QED
  BY <1>1, ReportInvariant, ReplayInvariant, PTL
=============================================================================
