----------------------------- MODULE FixedPoint -----------------------------
(***************************************************************************)
(* The integer arithmetic shared by the ledger, the risk engine and the    *)
(* paper exchange.  Money, prices and quantities are int64 "units"; every  *)
(* product is computed in a 128-bit integer (`Wide') and has to fit an     *)
(* int64 again before it is stored.                                        *)
(*                                                                         *)
(* The widths are constants so that TLC can reach the limits: MaxUnits     *)
(* stands for 2^63 - 1 and MaxWide for 2^127 - 1.  The powers of ten that  *)
(* convert price units times quantity units to account units are           *)
(*   ScaleUp   = 10^(account_scale - price_scale - quantity_scale)         *)
(*   ScaleDown = 10^(price_scale + quantity_scale - account_scale)         *)
(* where a negative exponent counts as zero.                               *)
(***************************************************************************)
EXTENDS Integers

CONSTANTS MaxUnits, MaxWide, ScaleUp, ScaleDown

ASSUME WidthAssumption ==
    /\ MaxUnits \in Nat \ {0}
    /\ MaxWide \in Nat
    /\ MaxWide >= (MaxUnits + 1) * (MaxUnits + 1)

ASSUME ScaleAssumption ==
    /\ ScaleUp \in Nat \ {0}
    /\ ScaleDown \in Nat \ {0}
    /\ ScaleUp = 1 \/ ScaleDown = 1

Magnitude(x) == IF x < 0 THEN -x ELSE x

Sign(x) == IF x > 0 THEN 1 ELSE IF x < 0 THEN -1 ELSE 0

Lesser(x, y) == IF x < y THEN x ELSE y

(* Two's complement ranges: std::numeric_limits<std::int64_t> and __int128. *)
Units == -(MaxUnits + 1) .. MaxUnits

Fits(x) == x \in Units

FitsWide(x) == x \in -(MaxWide + 1) .. MaxWide

(* Integer division of C++ truncates toward zero; \div rounds down. *)
TruncDiv(x, y) == IF x >= 0 THEN x \div y ELSE -((-x) \div y)

(* |quantity| * price rescaled to account units; the caller checks Fits. *)
Notional(quantity, price) ==
    TruncDiv(Magnitude(quantity) * price * ScaleUp, ScaleDown)

NotionalFits(quantity, price) == Fits(Notional(quantity, price))

(* A product of units and a rate in parts per million, rounded up; with    *)
(* `parts' for the 1'000'000 of kPartsPerMillion.                           *)
CeilShare(amount, rate, parts) ==
    LET product == amount * rate
    IN  IF product = 0 THEN 0 ELSE TruncDiv(product - 1, parts) + 1
=============================================================================
