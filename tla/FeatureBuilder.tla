--------------------------- MODULE FeatureBuilder ---------------------------
(***************************************************************************)
(* FeatureBuilder: what a model is told of an event.  Midpoints are kept in *)
(* a ring of Lookback places, so that the return of an event is measured    *)
(* from the midpoint Lookback events before it.                            *)
(***************************************************************************)
EXTENDS FixedPoint, Sequences

CONSTANTS
    Lookback,           \* midpoints_.size(), positive or the constructor throws
    FeatureParts        \* 1'000'000

ASSUME FeatureAssumption ==
    /\ Lookback \in Nat \ {0}
    /\ FeatureParts \in Nat

VARIABLES
    midpoints,      \* the ring
    next_index,     \* where the next midpoint goes
    size,           \* how many places are used
    features,       \* what the last update returned
    seen            \* every midpoint so far, which the code does not store

featureVars == <<midpoints, next_index, size, features, seen>>

InitFeatures ==
    /\ midpoints = [place \in 0 .. Lookback - 1 |-> 0]
    /\ next_index = 0
    /\ size = 0
    /\ features = [return |-> 0, imbalance |-> 0]
    /\ seen = <<>>

-----------------------------------------------------------------------------
Mid(event) == event.best_bid + (event.best_ask - event.best_bid) \div 2

(* clamp_to_i64. *)
Clamped(x) ==
    IF x > MaxUnits THEN MaxUnits
    ELSE IF x < -(MaxUnits + 1) THEN -(MaxUnits + 1) ELSE x

(* The change from one midpoint to another, in parts of the first. *)
Change(from, to) ==
    IF from > 0 THEN Clamped(TruncDiv((to - from) * FeatureParts, from)) ELSE 0

(* Mutant of Oldest: the place written last is read. *)
OldestPrevious == midpoints[(next_index + Lookback - 1) % Lookback]

(* A full ring overwrites its oldest place next. *)
Oldest == midpoints[next_index]

Return(event) ==
    IF size = Lookback THEN Change(Oldest, Mid(event)) ELSE 0

Imbalance(event) ==
    LET liquidity == event.bid_quantity + event.ask_quantity
    IN  IF liquidity > 0
        THEN Clamped(TruncDiv((event.bid_quantity - event.ask_quantity) * FeatureParts,
                              liquidity))
        ELSE 0

Update(event) ==
    /\ features' = [return |-> Return(event),
                    imbalance |-> Imbalance(event)]
    /\ midpoints' = [midpoints EXCEPT ![next_index] = Mid(event)]
    /\ next_index' = (next_index + 1) % Lookback
    /\ size' = Lesser(size + 1, Lookback)
    /\ seen' = Append(seen, Mid(event))

(* Any sequence of updates with quotes that the exchange accepts. *)
Quotes ==
    {event \in [best_bid : Nat, best_ask : Nat, bid_quantity : Nat, ask_quantity : Nat] :
        0 < event.best_bid /\ event.best_bid <= event.best_ask}

FeatureSpec ==
    InitFeatures /\ [][\E event \in Quotes : Update(event)]_featureVars

-----------------------------------------------------------------------------
(* The ring is a window: the return reported for an event compares its      *)
(* midpoint with that of the event exactly Lookback before, and is zero      *)
(* until there is one.                                                     *)
ReturnOverLookback ==
    seen # <<>> =>
        LET last == Len(seen)
        IN  features.return = IF last <= Lookback THEN 0
                              ELSE Change(seen[last - Lookback], seen[last])
=============================================================================
