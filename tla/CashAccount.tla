---------------------------- MODULE CashAccount ----------------------------
(***************************************************************************)
(* What a perpetual ledger promises, without cost bases or realised        *)
(* profit: an account pays for what it buys, is paid for what it sells,    *)
(* pays its fees, and is worth at any price what it would hold after       *)
(* liquidating its position at that price.  A unit of quantity at a unit   *)
(* of price is worth Unit / Parts account units, and a value is rounded    *)
(* down to whole ones.  A trade that takes the position through zero is    *)
(* two: one that closes it and one that opens the other side.              *)
(***************************************************************************)
EXTENDS Integers

CONSTANTS Unit, Parts, Deposit, Quantities, Prices, Fees

VARIABLES position, paid, fees, worth, mark

account == <<position, paid, fees, worth, mark>>

(* The sign of a holding and the number of units in it. *)
Side(holding) == IF holding > 0 THEN 1 ELSE IF holding < 0 THEN -1 ELSE 0

Size(holding) == Side(holding) * holding

Value(size, price) == (size * price * Unit) \div Parts

(* How much of a trade closes what the account holds. *)
Closing(quantity) ==
    IF Side(quantity) # -Side(position) THEN 0
    ELSE IF Size(quantity) < Size(position) THEN Size(quantity)
    ELSE Size(position)

Worth(holding, spent, costs, price) ==
    Deposit - spent - costs + Side(holding) * Value(Size(holding), price)

Init ==
    /\ position = 0 /\ paid = 0 /\ fees = 0 /\ mark = 0
    /\ worth = Deposit

Trade(quantity, price, fee) ==
    /\ position' = position + quantity
    /\ paid' = paid + Side(quantity)
                        * (Value(Closing(quantity), price)
                             + Value(Size(quantity) - Closing(quantity), price))
    /\ fees' = fees + fee
    /\ mark' = price
    /\ worth' = Worth(position', paid', fees', price)

Reprice(price) ==
    /\ mark' = price
    /\ worth' = Worth(position, paid, fees, price)
    /\ UNCHANGED <<position, paid, fees>>

Next ==
    \/ \E quantity \in Quantities, price \in Prices, fee \in Fees :
          Trade(quantity, price, fee)
    \/ \E price \in Prices : Reprice(price)

Spec == Init /\ [][Next]_account
=============================================================================
