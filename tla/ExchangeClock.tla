--------------------------- MODULE ExchangeClock ---------------------------
(***************************************************************************)
(* ExchangeClock: estimates the offset between the exchange's clock and the *)
(* host's as the smallest difference seen, and the age of an event as what  *)
(* its own difference exceeds that.  The gate (`stable') opens after a       *)
(* warm-up and while the age is small.                                      *)
(***************************************************************************)
EXTENDS Integers

CONSTANTS
    None,               \* an empty std::optional
    WarmupSamples,      \* warmup_samples_
    MaxResidual         \* maximum_residual_ns_

VARIABLES minimum_offset, clock     \* minimum_offset_ns_ and state_

InitClock ==
    /\ minimum_offset = None
    /\ clock = [offset |-> 0, adjusted_age |-> 0, samples |-> 0, stable |-> FALSE]

(* Nothing is learnt from an event that arrives before it happened, or by a *)
(* clock that is switched off.                                             *)
Unusable(exchange_time, receive_time) ==
    \/ exchange_time <= 0 \/ receive_time < exchange_time
    \/ MaxResidual <= 0 \/ WarmupSamples = 0

(* Mutant of SamplesAfter: the warm-up is never repeated. *)
SamplesAfterNoReset(observed) == clock.samples + 1

(* A drop of the offset by more than the residual starts the warm-up again. *)
SamplesAfter(observed) ==
    IF minimum_offset = None THEN 1
    ELSE IF observed < minimum_offset /\ minimum_offset - observed > MaxResidual THEN 1
    ELSE clock.samples + 1

MinimumAfter(observed) ==
    IF minimum_offset = None THEN observed
    ELSE IF observed < minimum_offset THEN observed ELSE minimum_offset

Learn(observed) ==
    LET age == observed - MinimumAfter(observed)
    IN  /\ minimum_offset' = MinimumAfter(observed)
        /\ clock' = [offset |-> MinimumAfter(observed),
                     adjusted_age |-> age,
                     samples |-> SamplesAfter(observed),
                     stable |-> /\ SamplesAfter(observed) >= WarmupSamples
                                /\ age <= MaxResidual]

Observe(exchange_time, receive_time) ==
    IF Unusable(exchange_time, receive_time)
    THEN clock' = [clock EXCEPT !.stable = FALSE] /\ UNCHANGED minimum_offset
    ELSE Learn(receive_time - exchange_time)
=============================================================================
