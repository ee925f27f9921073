---------------------------- MODULE LedgerProofs ----------------------------
(***************************************************************************)
(* Proofs about module Ledger, for every width, scale and set of calls.    *)
(***************************************************************************)
EXTENDS Ledger, TLAPS

(* Truncated division of an integer by a positive integer is an integer    *)
(* that keeps the sign and does not grow in magnitude.                      *)
LEMMA TruncDivRange ==
    ASSUME NEW x \in Int, NEW y \in Nat \ {0}
    PROVE  /\ TruncDiv(x, y) \in Int
           /\ x >= 0 => TruncDiv(x, y) >= 0 /\ TruncDiv(x, y) <= x
           /\ x <= 0 => TruncDiv(x, y) <= 0 /\ TruncDiv(x, y) >= x
  <1>1. \A n \in Nat : n \div y \in Nat /\ n \div y <= n
    BY SMT
  <1> QED BY <1>1 DEF TruncDiv

(* A notional is a natural number for every price a fill may have. *)
LEMMA NotionalRange ==
    ASSUME NEW quantity \in Int, NEW price \in Nat
    PROVE  Notional(quantity, price) \in Nat
  <1> DEFINE product == Magnitude(quantity) * price * ScaleUp
  <1>1. product \in Nat
    BY ScaleAssumption DEF Magnitude
  <1>2. ScaleDown \in Nat \ {0}
    BY ScaleAssumption
  <1> HIDE DEF product
  <1>3. TruncDiv(product, ScaleDown) \in Int /\ TruncDiv(product, ScaleDown) >= 0
    BY <1>1, <1>2, TruncDivRange
  <1> QED BY <1>3 DEF Notional, product

(* Division does not exceed a quotient that the dividend does not reach. *)
LEMMA TruncDivBound ==
    ASSUME NEW x \in Int, NEW y \in Nat \ {0}, NEW c \in Int
    PROVE  /\ 0 <= x /\ x <= c * y => TruncDiv(x, y) <= c
           /\ x <= 0 /\ c * y <= x => c <= TruncDiv(x, y)
  <1>1. ASSUME NEW n \in Nat, NEW k \in Int, n <= k * y PROVE n \div y <= k
    BY <1>1, SMT
  <1>2. ASSUME 0 <= x, x <= c * y PROVE TruncDiv(x, y) <= c
    BY <1>1, <1>2 DEF TruncDiv
  <1>3. ASSUME x <= 0, c * y <= x PROVE c <= TruncDiv(x, y)
    <2>1. -x \in Nat /\ -x <= (-c) * y
      BY <1>3
    <2>2. (-x) \div y <= -c
      BY <1>1, <2>1
    <2>3. x = 0 => 0 \div y = 0
      BY SMT
    <2> QED BY <1>3, <2>2, <2>3, SMT DEF TruncDiv
  <1> QED BY <1>2, <1>3

(* The cost allocated to a close has the sign of the cost and is part of it. *)
LEMMA AllocatedCostRange ==
    ASSUME NEW s \in LedgerRecord, NEW quantity \in Units, s.position # 0
    PROVE  /\ AllocatedCost(s, quantity) \in Int
           /\ s.position_cost >= 0 => /\ 0 <= AllocatedCost(s, quantity)
                                      /\ AllocatedCost(s, quantity) <= s.position_cost
           /\ s.position_cost <= 0 => /\ AllocatedCost(s, quantity) <= 0
                                      /\ s.position_cost <= AllocatedCost(s, quantity)
  <1> DEFINE held == Magnitude(s.position)
             closed == CloseQuantity(s, quantity)
             cost == s.position_cost
  <1>1. held \in Nat \ {0} /\ closed \in Nat /\ closed <= held /\ cost \in Int
    BY WidthAssumption DEF LedgerRecord, Units, Magnitude, CloseQuantity, Lesser
  <1>2. AllocatedCost(s, quantity) = TruncDiv(cost * closed, held)
    BY DEF AllocatedCost
  <1> HIDE DEF held, closed, cost
  <1>3. /\ cost * closed \in Int
        /\ cost >= 0 => 0 <= cost * closed /\ cost * closed <= cost * held
        /\ cost <= 0 => cost * closed <= 0 /\ cost * held <= cost * closed
    BY <1>1, SMT
  <1>4. /\ TruncDiv(cost * closed, held) \in Int
        /\ cost >= 0 => 0 <= TruncDiv(cost * closed, held)
        /\ cost <= 0 => TruncDiv(cost * closed, held) <= 0
    BY <1>1, <1>3, TruncDivRange
  <1>5. /\ cost >= 0 => TruncDiv(cost * closed, held) <= cost
        /\ cost <= 0 => cost <= TruncDiv(cost * closed, held)
    BY <1>1, <1>3, TruncDivBound
  <1> QED BY <1>2, <1>4, <1>5 DEF cost

LEMMA RealizedInt ==
    ASSUME NEW s \in LedgerRecord, NEW quantity \in Units, NEW price \in Nat
    PROVE  Realized(s, quantity, price) \in Int
  <1>1. CASE Adds(s, quantity)
    BY <1>1 DEF Realized
  <1>2. CASE ~Adds(s, quantity)
    <2>1. s.position # 0
      BY <1>2 DEF Adds
    <2>2. CloseQuantity(s, quantity) \in Int
      BY WidthAssumption DEF LedgerRecord, Units, CloseQuantity, Lesser, Magnitude
    <2>3. Notional(CloseQuantity(s, quantity), price) \in Nat
      BY <2>2, NotionalRange
    <2>4. Magnitude(AllocatedCost(s, quantity)) \in Int
      BY <2>1, AllocatedCostRange DEF Magnitude
    <2>5. Sign(s.position) \in {-1, 0, 1}
      BY DEF Sign
    <2>6. Realized(s, quantity, price)
            = Sign(s.position) * (Notional(CloseQuantity(s, quantity), price)
                                   - Magnitude(AllocatedCost(s, quantity)))
      BY <1>2 DEF Realized
    <2> QED BY <2>3, <2>4, <2>5, <2>6
  <1> QED BY <1>1, <1>2

LEMMA MarkedPnlInt ==
    ASSUME NEW s \in LedgerRecord, NEW price \in Nat
    PROVE  MarkedPnl(s, price) \in Int
  <1>1. s.position \in Int /\ s.position_cost \in Int
    BY WidthAssumption DEF LedgerRecord, Units
  <1>2. Notional(s.position, price) \in Nat
    BY <1>1, NotionalRange
  <1>3. Magnitude(s.position_cost) \in Int /\ Sign(s.position) \in {-1, 0, 1}
    BY <1>1 DEF Magnitude, Sign
  <1> QED BY <1>2, <1>3 DEF MarkedPnl

(* An accepted mark moves only the three marked fields. *)
LEMMA MarkOutcome ==
    ASSUME NEW s \in LedgerRecord, NEW price \in Units, MarkError(s, price) = "ok"
    PROVE  /\ price > 0
           /\ MarkedPnl(s, price) \in Units
           /\ Marked(s, price) \in LedgerRecord
           /\ Marked(s, price) = [s EXCEPT !.unrealized_pnl = MarkedPnl(s, price),
                                           !.equity = s.cash + MarkedPnl(s, price),
                                           !.last_mark_price = price]
  <1>1. price > 0 /\ MarkFits(s, price)
    BY WidthAssumption DEF MarkError, Units
  <1>2. MarkedPnl(s, price) \in Units /\ s.cash + MarkedPnl(s, price) \in Units
    BY <1>1 DEF MarkFits, Fits
  <1> QED BY <1>1, <1>2 DEF Marked, LedgerRecord

(* What an accepted fill leaves, field by field. *)
LEMMA FillOutcome ==
    ASSUME NEW s \in LedgerRecord,
           NEW quantity \in Units, NEW price \in Units, NEW fee \in Units,
           FillError(s, quantity, price, fee) = "ok",
           NEW t, t = AfterFill(s, quantity, price, fee)
    PROVE  /\ LedgerConfigured /\ quantity # 0 /\ price > 0 /\ fee >= 0
           /\ t \in LedgerRecord
           /\ t.position = s.position + quantity
           /\ t.position_cost = CostAfter(s, quantity, price)
           /\ t.average_entry_price = AveragePrice(t.position, t.position_cost)
           /\ t.realized_pnl = s.realized_pnl + Realized(s, quantity, price)
           /\ t.total_fee = s.total_fee + fee
           /\ t.cash = s.cash + Realized(s, quantity, price) - fee
           /\ t.unrealized_pnl = MarkedPnl(t, price)
           /\ t.equity = t.cash + t.unrealized_pnl
           /\ t.last_mark_price = price
  <1> DEFINE c == Candidate(s, quantity, price, fee)
  <1>1. /\ LedgerConfigured /\ quantity # 0 /\ price > 0 /\ fee >= 0
        /\ FillFits(s, quantity, price, fee)
    BY WidthAssumption DEF FillError, Units
  <1>2. c \in LedgerRecord /\ MarkFits(c, price)
    BY <1>1 DEF FillFits
  <1>3. t = Marked(c, price)
    BY DEF AfterFill
  <1>4. MarkError(c, price) = "ok"
    BY <1>1, <1>2, WidthAssumption DEF MarkError, Units
  <1>5. /\ c.position = s.position + quantity
        /\ c.position_cost = CostAfter(s, quantity, price)
        /\ c.average_entry_price = AveragePrice(c.position, c.position_cost)
        /\ c.realized_pnl = s.realized_pnl + Realized(s, quantity, price)
        /\ c.total_fee = s.total_fee + fee
        /\ c.cash = s.cash + Realized(s, quantity, price) - fee
    BY DEF Candidate, LedgerRecord
  <1> HIDE DEF c
  <1>6. /\ t \in LedgerRecord
        /\ t = [c EXCEPT !.unrealized_pnl = MarkedPnl(c, price),
                         !.equity = c.cash + MarkedPnl(c, price),
                         !.last_mark_price = price]
    BY <1>2, <1>3, <1>4, MarkOutcome
  <1>7. /\ t.position = c.position /\ t.position_cost = c.position_cost
        /\ t.average_entry_price = c.average_entry_price
        /\ t.realized_pnl = c.realized_pnl /\ t.total_fee = c.total_fee
        /\ t.cash = c.cash
        /\ t.unrealized_pnl = MarkedPnl(c, price)
        /\ t.equity = c.cash + MarkedPnl(c, price)
        /\ t.last_mark_price = price
    BY <1>2, <1>6 DEF LedgerRecord
  <1>8. MarkedPnl(t, price) = MarkedPnl(c, price)
    BY <1>7 DEF MarkedPnl
  <1> QED BY <1>1, <1>5, <1>6, <1>7, <1>8

-----------------------------------------------------------------------------
(* The cost of a record agrees with its position. *)
CostSigned(s) ==
    /\ s.position = 0 => s.position_cost = 0
    /\ s.position > 0 => s.position_cost >= 0
    /\ s.position < 0 => s.position_cost <= 0

(* A close of the whole position takes the whole cost. *)
LEMMA FullCloseAllocatesAll ==
    ASSUME NEW s \in LedgerRecord, NEW quantity \in Units, s.position # 0,
           Magnitude(quantity) >= Magnitude(s.position)
    PROVE  AllocatedCost(s, quantity) = s.position_cost
  <1> DEFINE held == Magnitude(s.position)
             cost == s.position_cost
  <1>1. held \in Nat \ {0} /\ cost \in Int
    BY WidthAssumption DEF LedgerRecord, Units, Magnitude
  <1>2. CloseQuantity(s, quantity) = held
    BY <1>1, WidthAssumption DEF CloseQuantity, Lesser, Units, Magnitude
  <1>3. AllocatedCost(s, quantity) = TruncDiv(cost * held, held)
    BY <1>2 DEF AllocatedCost
  <1> HIDE DEF held, cost
  <1>4. \A n \in Nat : (n * held) \div held = n
    BY <1>1, SMT
  <1>5. CASE cost >= 0
    <2>1. cost * held >= 0
      BY <1>1, <1>5, SMT
    <2> QED BY <1>1, <1>3, <1>4, <1>5, <2>1 DEF TruncDiv, cost
  <1>6. CASE cost < 0
    <2>1. cost * held < 0 /\ -(cost * held) = (-cost) * held
      BY <1>1, <1>6, SMT
    <2>2. (-(cost * held)) \div held = -cost
      BY <1>1, <1>4, <1>6, <2>1
    <2>3. TruncDiv(cost * held, held) = -((-(cost * held)) \div held)
      BY <1>1, <2>1 DEF TruncDiv
    <2> QED BY <1>1, <1>3, <2>2, <2>3 DEF cost
  <1> QED BY <1>1, <1>5, <1>6

(* Splitting a quantity loses at most one unit of its value to rounding,   *)
(* and nothing where values are not rounded.                               *)
LEMMA NotionalSplits ==
    ASSUME NEW x \in Nat, NEW y \in Nat, NEW price \in Nat
    PROVE  /\ Notional(x + y, price) - Notional(x, price) - Notional(y, price)
                 \in {0, 1}
           /\ ScaleDown = 1 => Notional(x + y, price)
                                 = Notional(x, price) + Notional(y, price)
  <1> DEFINE a == x * price * ScaleUp
             b == y * price * ScaleUp
  <1>1. a \in Nat /\ b \in Nat /\ (x + y) * price * ScaleUp = a + b
    BY ScaleAssumption, SMT
  <1>2. ScaleDown \in Nat \ {0}
    BY ScaleAssumption
  <1>3. /\ Notional(x, price) = a \div ScaleDown
        /\ Notional(y, price) = b \div ScaleDown
        /\ Notional(x + y, price) = (a + b) \div ScaleDown
    BY <1>1 DEF Notional, TruncDiv, Magnitude
  <1> HIDE DEF a, b
  <1>4. (a + b) \div ScaleDown - a \div ScaleDown - b \div ScaleDown \in {0, 1}
    BY <1>1, <1>2, SMT
  <1>5. ScaleDown = 1 => (a + b) \div ScaleDown = a \div ScaleDown + b \div ScaleDown
    BY <1>1, SMT
  <1> QED BY <1>3, <1>4, <1>5

LEMMA NotionalOfMagnitude ==
    ASSUME NEW x \in Int, NEW y \in Int, NEW price \in Nat,
           Magnitude(x) = Magnitude(y)
    PROVE  Notional(x, price) = Notional(y, price)
  BY DEF Notional

(* Which part of CostAfter applies. *)
LEMMA CostCases ==
    ASSUME NEW s \in LedgerRecord, NEW quantity \in Units, quantity # 0,
           NEW price \in Nat
    PROVE  /\ Adds(s, quantity) =>
                  /\ s.position + quantity # 0 /\ ~Reverses(s, quantity)
                  /\ CostAfter(s, quantity, price)
                       = s.position_cost + Sign(quantity) * Notional(quantity, price)
           /\ ~Adds(s, quantity) => s.position # 0 /\ Sign(quantity) = -Sign(s.position)
           /\ s.position + quantity = 0 =>
                  ~Reverses(s, quantity) /\ CostAfter(s, quantity, price) = 0
           /\ Reverses(s, quantity) =>
                  /\ s.position + quantity # 0 /\ ~Adds(s, quantity)
                  /\ CostAfter(s, quantity, price)
                       = Sign(s.position + quantity)
                           * Notional(s.position + quantity, price)
           /\ ~Adds(s, quantity) /\ s.position + quantity # 0 /\ ~Reverses(s, quantity)
                  => CostAfter(s, quantity, price)
                       = s.position_cost - AllocatedCost(s, quantity)
  <1>1. s.position \in Int /\ quantity \in Int
    BY WidthAssumption DEF LedgerRecord, Units
  <1>2. Adds(s, quantity) => s.position + quantity # 0 /\ ~Reverses(s, quantity)
    BY <1>1 DEF Adds, Reverses, Sign
  <1>3. s.position + quantity = 0 => ~Reverses(s, quantity)
    BY <1>1 DEF Reverses, Sign
  <1>4. ~Adds(s, quantity) => s.position # 0 /\ Sign(quantity) = -Sign(s.position)
    BY <1>1 DEF Adds, Sign
  <1> QED BY <1>2, <1>3, <1>4 DEF CostAfter

(* The cost of the position after a fill has the sign of the position. *)
LEMMA FillKeepsCostSigned ==
    ASSUME NEW s \in LedgerRecord, NEW quantity \in Units, NEW price \in Units,
           NEW fee \in Units, FillError(s, quantity, price, fee) = "ok",
           CostSigned(s),
           NEW t, t = AfterFill(s, quantity, price, fee)
    PROVE  CostSigned(t)
  <1>1. /\ t \in LedgerRecord /\ quantity # 0 /\ price \in Nat
        /\ t.position = s.position + quantity
        /\ t.position_cost = CostAfter(s, quantity, price)
    BY FillOutcome, WidthAssumption DEF Units
  <1>2. /\ s.position \in Int /\ quantity \in Int /\ s.position_cost \in Int
    BY WidthAssumption DEF LedgerRecord, Units
  <1>3. CASE Adds(s, quantity)
    <2>1. t.position_cost
            = s.position_cost + Sign(quantity) * Notional(quantity, price)
      BY <1>1, <1>3, CostCases
    <2>2. Notional(quantity, price) \in Nat
      BY <1>1, <1>2, NotionalRange
    <2> QED BY <1>1, <1>2, <1>3, <2>1, <2>2 DEF CostSigned, Adds, Sign
  <1>4. CASE s.position + quantity = 0
    BY <1>1, <1>4, CostCases DEF CostSigned
  <1>5. CASE Reverses(s, quantity)
    <2>1. t.position_cost = Sign(t.position) * Notional(t.position, price)
      BY <1>1, <1>5, CostCases
    <2>2. Notional(t.position, price) \in Nat /\ t.position \in Int
      <3>1. t.position \in Int
        BY <1>1, <1>2
      <3> QED BY <1>1, <3>1, NotionalRange
    <2>3. t.position > 0 => t.position_cost = Notional(t.position, price)
      BY <2>1, <2>2 DEF Sign
    <2>4. t.position < 0 => t.position_cost = -Notional(t.position, price)
      BY <2>1, <2>2 DEF Sign
    <2>5. t.position # 0
      BY <1>1, <1>5, CostCases
    <2> QED BY <2>2, <2>3, <2>4, <2>5 DEF CostSigned
  <1>6. CASE ~Adds(s, quantity) /\ s.position + quantity # 0 /\ ~Reverses(s, quantity)
    <2>1. t.position_cost = s.position_cost - AllocatedCost(s, quantity)
      BY <1>1, <1>6, CostCases
    <2>2. s.position # 0
      BY <1>6 DEF Adds
    <2>3. Sign(t.position) = Sign(s.position)
      BY <1>1, <1>2, <1>6, <2>2 DEF Reverses, Sign
    <2> QED BY <1>1, <1>2, <2>1, <2>2, <2>3, AllocatedCostRange DEF CostSigned, Sign
  <1> QED BY <1>3, <1>4, <1>5, <1>6

(* How much of a fill closes what the ledger holds. *)
Closing(s, quantity) ==
    IF Adds(s, quantity) THEN 0 ELSE CloseQuantity(s, quantity)

LEMMA NothingIsWorthNothing ==
    ASSUME NEW price \in Nat PROVE Notional(0, price) = 0
  <1>1. Magnitude(0) * price * ScaleUp = 0 /\ 0 \div ScaleDown = 0
    BY ScaleAssumption, SMT DEF Magnitude
  <1> QED BY <1>1 DEF Notional, TruncDiv

(* What a fill takes from realised profit less cost is the value of what it *)
(* closes and the value of what it opens, each rounded by itself.           *)
LEMMA FillPays ==
    ASSUME NEW s \in LedgerRecord, NEW quantity \in Units, NEW price \in Units,
           NEW fee \in Units, FillError(s, quantity, price, fee) = "ok",
           CostSigned(s),
           NEW t, t = AfterFill(s, quantity, price, fee)
    PROVE  /\ Closing(s, quantity) \in Nat
           /\ Closing(s, quantity) <= Magnitude(quantity)
           /\ ~Reverses(s, quantity) => Closing(s, quantity) \in {0, Magnitude(quantity)}
           /\ t.position_cost - t.realized_pnl
                = s.position_cost - s.realized_pnl
                    + Sign(quantity) * (Notional(Closing(s, quantity), price)
                        + Notional(Magnitude(quantity) - Closing(s, quantity), price))
  <1> DEFINE realized == Realized(s, quantity, price)
             allocated == AllocatedCost(s, quantity)
             closed == Closing(s, quantity)
             opened == Magnitude(quantity) - closed
             value(x) == Notional(x, price)
  <1>1. /\ t \in LedgerRecord /\ quantity # 0 /\ price \in Nat
        /\ t.position = s.position + quantity
        /\ t.position_cost = CostAfter(s, quantity, price)
        /\ t.realized_pnl = s.realized_pnl + realized
    BY FillOutcome, WidthAssumption DEF Units
  <1>2. /\ s.position \in Int /\ quantity \in Int /\ s.position_cost \in Int
        /\ s.realized_pnl \in Int /\ t.position_cost \in Int /\ realized \in Int
        /\ t.realized_pnl \in Int
    BY <1>1, RealizedInt, WidthAssumption DEF LedgerRecord, Units
  <1>3. Magnitude(quantity) \in Nat /\ Magnitude(Magnitude(quantity)) = Magnitude(quantity)
    BY <1>2 DEF Magnitude
  <1>4. value(0) = 0 /\ value(Magnitude(quantity)) = value(quantity)
          /\ value(quantity) \in Nat
    BY <1>1, <1>2, <1>3, NothingIsWorthNothing, NotionalOfMagnitude, NotionalRange
  <1>5. CASE Adds(s, quantity)
    <2>1. realized = 0
      BY <1>5 DEF Realized
    <2>2. t.position_cost = s.position_cost + Sign(quantity) * value(quantity)
      BY <1>1, <1>5, CostCases
    <2>3. closed = 0 /\ opened = Magnitude(quantity)
      BY <1>3, <1>5 DEF Closing
    <2>4. value(closed) + value(opened) = value(quantity)
      <3>1. value(closed) = 0 /\ value(opened) = value(quantity)
        BY <1>4, <2>3
      <3> HIDE DEF value
      <3> QED BY <1>4, <3>1
    <2>5. t.position_cost - t.realized_pnl
            = s.position_cost - s.realized_pnl + Sign(quantity) * value(quantity)
      <3> HIDE DEF value, realized
      <3> QED BY <1>1, <1>2, <1>4, <2>1, <2>2 DEF Sign
    <2> QED BY <1>3, <2>3, <2>4, <2>5
  <1>6. CASE ~Adds(s, quantity)
    <2>1. s.position # 0 /\ Sign(quantity) = -Sign(s.position)
      BY <1>1, <1>6, CostCases
    <2>2. allocated \in Int /\ Magnitude(allocated) = Sign(s.position) * allocated
      BY <1>2, <2>1, AllocatedCostRange DEF CostSigned, Magnitude, Sign
    <2>3. /\ closed = CloseQuantity(s, quantity) /\ closed \in Nat
          /\ closed <= Magnitude(quantity) /\ closed <= Magnitude(s.position)
      BY <1>2, <1>6 DEF Closing, CloseQuantity, Lesser, Magnitude
    <2>4. value(closed) \in Nat
      BY <1>1, <2>3, NotionalRange
    <2>5. realized = Sign(s.position) * (value(closed) - Magnitude(allocated))
      BY <1>6, <2>3 DEF Realized
    <2>6. Sign(s.position) \in {-1, 1}
      BY <1>2, <2>1 DEF Sign
    <2>7. realized = Sign(s.position) * value(closed) - allocated
      <3> HIDE DEF value, realized, allocated, closed
      <3> QED BY <2>2, <2>4, <2>5, <2>6
    <2>8. CASE ~Reverses(s, quantity)
      <3>1. closed = Magnitude(quantity) /\ opened = 0
        BY <1>2, <2>1, <2>3, <2>8 DEF Reverses, CloseQuantity, Lesser, Magnitude, Sign
      <3>2. value(closed) + value(opened) = value(closed)
        <4>1. value(opened) = 0
          BY <1>4, <3>1
        <4> HIDE DEF value
        <4> QED BY <2>4, <4>1
      <3>3. t.position_cost = s.position_cost - allocated
        <4>1. CASE t.position = 0
          <5>1. Magnitude(quantity) >= Magnitude(s.position)
            BY <1>1, <1>2, <4>1 DEF Magnitude
          <5>2. allocated = s.position_cost
            BY <2>1, <5>1, FullCloseAllocatesAll
          <5>3. t.position_cost = 0
            BY <1>1, <4>1, CostCases
          <5> QED BY <1>2, <5>2, <5>3
        <4>2. CASE t.position # 0
          BY <1>1, <1>6, <2>8, <4>2, CostCases
        <4> QED BY <4>1, <4>2
      <3>4. t.position_cost - t.realized_pnl
              = s.position_cost - s.realized_pnl + Sign(quantity) * value(closed)
        <4> HIDE DEF value, realized, allocated, closed
        <4> QED BY <1>1, <1>2, <2>1, <2>2, <2>4, <2>6, <2>7, <3>3
      <3> QED BY <2>3, <3>1, <3>2, <3>4
    <2>9. CASE Reverses(s, quantity)
      <3>1. /\ s.position > 0 => quantity < 0 /\ s.position + quantity < 0
            /\ s.position < 0 => quantity > 0 /\ s.position + quantity > 0
        <4>1. Sign(s.position + quantity) = -Sign(s.position)
          BY <2>9 DEF Reverses
        <4> QED BY <1>2, <2>1, <4>1 DEF Sign
      <3>2. /\ Sign(t.position) = Sign(quantity)
            /\ Magnitude(quantity) >= Magnitude(s.position)
            /\ Magnitude(t.position) = Magnitude(quantity) - Magnitude(s.position)
        BY <1>1, <1>2, <2>1, <3>1 DEF Magnitude, Sign
      <3>3. closed = Magnitude(s.position) /\ opened = Magnitude(t.position)
        BY <1>2, <2>3, <3>2 DEF CloseQuantity, Lesser, Magnitude
      <3>4. value(opened) = value(t.position) /\ value(opened) \in Nat
        <4>1. t.position \in Int /\ Magnitude(t.position) \in Int
          BY <1>1, <1>2 DEF Magnitude
        <4>2. Magnitude(Magnitude(t.position)) = Magnitude(t.position)
          BY <4>1 DEF Magnitude
        <4>3. value(Magnitude(t.position)) = value(t.position)
          BY <1>1, <4>1, <4>2, NotionalOfMagnitude
        <4>4. value(t.position) \in Nat
          BY <1>1, <4>1, NotionalRange
        <4> QED BY <3>3, <4>3, <4>4
      <3>5. allocated = s.position_cost
        BY <2>1, <3>2, FullCloseAllocatesAll
      <3>6. t.position_cost = Sign(quantity) * value(opened)
        <4>1. t.position_cost = Sign(t.position) * value(t.position)
          BY <1>1, <2>9, CostCases
        <4> QED BY <3>2, <3>4, <4>1
      <3>7. t.position_cost - t.realized_pnl
              = s.position_cost - s.realized_pnl
                  + Sign(quantity) * (value(closed) + value(opened))
        <4> HIDE DEF value, realized, allocated, closed, opened
        <4> QED BY <1>1, <1>2, <2>1, <2>2, <2>4, <2>6, <2>7, <3>4, <3>5, <3>6
      <3> QED BY <2>3, <2>9, <3>7
    <2> QED BY <2>8, <2>9
  <1> QED BY <1>5, <1>6

(* What a fill adds to realised profit less cost is what it paid, to within *)
(* the rounding of a reversal.                                              *)
LEMMA FillConserves ==
    ASSUME NEW s \in LedgerRecord, NEW quantity \in Units, NEW price \in Units,
           NEW fee \in Units, FillError(s, quantity, price, fee) = "ok",
           CostSigned(s),
           NEW t, t = AfterFill(s, quantity, price, fee),
           NEW slack,
           slack = (t.realized_pnl - t.position_cost)
                     - (s.realized_pnl - s.position_cost)
                     + Sign(quantity) * Notional(quantity, price)
    PROVE  /\ slack \in {-1, 0, 1}
           /\ ~Reverses(s, quantity) => slack = 0
           /\ ScaleDown = 1 => slack = 0
  <1> DEFINE closed == Closing(s, quantity)
             opened == Magnitude(quantity) - closed
             value(x) == Notional(x, price)
  <1>1. /\ t \in LedgerRecord /\ price \in Nat
        /\ s.realized_pnl \in Int /\ s.position_cost \in Int
        /\ t.realized_pnl \in Int /\ t.position_cost \in Int
        /\ quantity \in Int /\ Magnitude(quantity) \in Nat
        /\ Magnitude(Magnitude(quantity)) = Magnitude(quantity)
    <2>1. t \in LedgerRecord /\ price > 0
      BY FillOutcome
    <2>2. quantity \in Int /\ price \in Nat
      BY <2>1, WidthAssumption DEF Units
    <2> QED BY <2>1, <2>2, WidthAssumption DEF LedgerRecord, Units, Magnitude
  <1>2. /\ closed \in Nat /\ opened \in Nat /\ closed + opened = Magnitude(quantity)
        /\ ~Reverses(s, quantity) => closed = 0 \/ opened = 0
        /\ t.position_cost - t.realized_pnl
             = s.position_cost - s.realized_pnl
                 + Sign(quantity) * (value(closed) + value(opened))
    BY <1>1, FillPays
  <1>3. /\ value(quantity) \in Nat /\ value(closed) \in Nat /\ value(opened) \in Nat
        /\ value(0) = 0
        /\ value(closed + opened) = value(quantity)
    BY <1>1, <1>2, NotionalRange, NothingIsWorthNothing, NotionalOfMagnitude
  <1>4. /\ value(quantity) - value(closed) - value(opened) \in {0, 1}
        /\ ScaleDown = 1 => value(quantity) = value(closed) + value(opened)
    BY <1>1, <1>2, <1>3, NotionalSplits
  <1>5. ~Reverses(s, quantity) => value(quantity) = value(closed) + value(opened)
    <2>1. CASE closed = 0
      <3>1. opened = Magnitude(quantity) /\ value(closed) = 0
        BY <1>2, <1>3, <2>1
      <3>2. value(opened) = value(quantity)
        BY <1>1, <3>1, NotionalOfMagnitude
      <3> HIDE DEF value, opened, closed
      <3> QED BY <1>3, <3>1, <3>2
    <2>2. CASE opened = 0
      <3>1. closed = Magnitude(quantity) /\ value(opened) = 0
        BY <1>2, <1>3, <2>2
      <3>2. value(closed) = value(quantity)
        BY <1>1, <3>1, NotionalOfMagnitude
      <3> HIDE DEF value, opened, closed
      <3> QED BY <1>3, <3>1, <3>2
    <2> QED BY <1>2, <2>1, <2>2
  <1> DEFINE whole == value(quantity)
             first == value(closed)
             second == value(opened)
  <1>6. /\ whole \in Nat /\ first \in Nat /\ second \in Nat
        /\ whole - first - second \in {0, 1}
        /\ ScaleDown = 1 => whole = first + second
        /\ ~Reverses(s, quantity) => whole = first + second
        /\ slack = (t.realized_pnl - t.position_cost)
                     - (s.realized_pnl - s.position_cost) + Sign(quantity) * whole
        /\ t.position_cost - t.realized_pnl
             = s.position_cost - s.realized_pnl + Sign(quantity) * (first + second)
    BY <1>2, <1>3, <1>4, <1>5
  <1> HIDE DEF value, opened, closed, whole, first, second
  <1>7. slack = Sign(quantity) * (whole - first - second)
    <2> DEFINE side == Sign(quantity)
               gain == t.realized_pnl - s.realized_pnl
               cost == t.position_cost - s.position_cost
    <2>1. side \in {-1, 0, 1} /\ gain \in Int /\ cost \in Int
      BY <1>1 DEF Sign
    <2>2. slack = gain - cost + side * whole /\ cost - gain = side * (first + second)
      <3>1. side * whole \in Int /\ side * (first + second) \in Int
        BY <1>6, <2>1
      <3> DEFINE a == side * whole
                 b == side * (first + second)
      <3>2. /\ a \in Int /\ b \in Int
            /\ slack = (t.realized_pnl - t.position_cost)
                         - (s.realized_pnl - s.position_cost) + a
            /\ t.position_cost - t.realized_pnl = s.position_cost - s.realized_pnl + b
        BY <1>6, <3>1
      <3> HIDE DEF a, b
      <3>3. \A r1 \in Int, r2 \in Int, c1 \in Int, c2 \in Int :
                /\ (r2 - c2) - (r1 - c1) + a = (r2 - r1) - (c2 - c1) + a
                /\ c2 - r2 = c1 - r1 + b => (c2 - c1) - (r2 - r1) = b
        BY <3>2
      <3>4. slack = gain - cost + a
        BY <1>1, <3>2, <3>3
      <3>5. cost - gain = b
        BY <1>1, <3>2, <3>3
      <3> QED BY <3>4, <3>5 DEF a, b
    <2> HIDE DEF side, gain, cost
    <2>3. slack = side * (whole - first - second)
      BY <1>6, <2>1, <2>2
    <2> QED BY <2>3 DEF side
  <1>8. Sign(quantity) \in {-1, 0, 1}
    BY <1>1 DEF Sign
  <1> QED BY <1>6, <1>7, <1>8

-----------------------------------------------------------------------------
(* The inductive invariant: Bookkeeping holds by itself, RoundingBounded    *)
(* only where the cost has the position's sign, and all of them need the    *)
(* types.                                                                   *)
LedgerInv ==
    TypeOK /\ Bookkeeping /\ CostFollowsPosition /\ RoundingBounded

LEMMA InitialLedgerRecord == InitialLedger \in LedgerRecord
  <1>1. 0 \in Units /\ InitialCash \in Units
    BY WidthAssumption, CashAssumption DEF Units
  <1> QED BY <1>1 DEF InitialLedger, LedgerRecord

LEMMA InitLedgerInv == Init => LedgerInv
  <1> SUFFICES ASSUME Init PROVE LedgerInv
    OBVIOUS
  <1>1. /\ state = InitialLedger /\ state \in LedgerRecord /\ error = "ok"
        /\ history = [fills |-> 0, reversals |-> 0, paid |-> 0,
                      low |-> 0, high |-> 0, adds |-> 0, closes |-> 0]
    BY InitialLedgerRecord DEF Init
  <1>2. TypeOK
    BY <1>1 DEF TypeOK, LedgerErrors, HistoryRecord
  <1>3. Bookkeeping
    BY <1>1, WidthAssumption DEF Bookkeeping, InitialLedger, LedgerRecord, Units
  <1>4. CostFollowsPosition
    BY <1>1 DEF CostFollowsPosition, InitialLedger
  <1>5. RoundingBounded
    BY <1>1 DEF RoundingBounded, InitialLedger, Magnitude
  <1> QED BY <1>2, <1>3, <1>4, <1>5 DEF LedgerInv

LEMMA CostFollowsIsSigned == CostFollowsPosition => CostSigned(state)
  BY DEF CostFollowsPosition, CostSigned

(* An accepted fill preserves the invariant. *)
LEMMA FillKeepsInv ==
    ASSUME LedgerInv, NEW quantity \in Units, NEW price \in Units, NEW fee \in Units,
           ApplyFill(quantity, price, fee),
           FillError(state, quantity, price, fee) = "ok"
    PROVE  LedgerInv'
  <1>1. /\ state \in LedgerRecord /\ CostSigned(state)
        /\ history \in HistoryRecord
    BY CostFollowsIsSigned DEF LedgerInv, TypeOK
  <1>2. /\ state' = AfterFill(state, quantity, price, fee)
        /\ error' = "ok"
        /\ history' = Recorded(quantity, price)
    BY DEF ApplyFill
  <1>3. /\ quantity # 0 /\ price \in Nat /\ quantity \in Int
        /\ state' \in LedgerRecord
        /\ state'.position = state.position + quantity
        /\ state'.position_cost = CostAfter(state, quantity, price)
        /\ state'.average_entry_price
             = AveragePrice(state'.position, state'.position_cost)
        /\ state'.realized_pnl = state.realized_pnl + Realized(state, quantity, price)
        /\ state'.total_fee = state.total_fee + fee
        /\ state'.cash = state.cash + Realized(state, quantity, price) - fee
        /\ state'.unrealized_pnl = MarkedPnl(state', price)
        /\ state'.equity = state'.cash + state'.unrealized_pnl
    <2>1. state \in LedgerRecord /\ state' = AfterFill(state, quantity, price, fee)
      BY <1>1, <1>2
    <2>2. price > 0 /\ quantity # 0
      BY <2>1, FillOutcome
    <2>3. price \in Nat /\ quantity \in Int
      BY <2>2, WidthAssumption DEF Units
    <2>4. /\ state' \in LedgerRecord
          /\ state'.position = state.position + quantity
          /\ state'.position_cost = CostAfter(state, quantity, price)
          /\ state'.average_entry_price
               = AveragePrice(state'.position, state'.position_cost)
          /\ state'.realized_pnl = state.realized_pnl + Realized(state, quantity, price)
          /\ state'.total_fee = state.total_fee + fee
          /\ state'.cash = state.cash + Realized(state, quantity, price) - fee
          /\ state'.unrealized_pnl = MarkedPnl(state', price)
          /\ state'.equity = state'.cash + state'.unrealized_pnl
      BY <2>1, FillOutcome
    <2> QED BY <2>2, <2>3, <2>4
  <1>4. /\ Notional(quantity, price) \in Nat
        /\ Realized(state, quantity, price) \in Int
    BY <1>1, <1>3, NotionalRange, RealizedInt
  <1>5. TypeOK'
    <2>1. /\ history'.fills = history.fills + 1
          /\ history'.reversals \in Nat
          /\ history'.paid \in Int
      BY <1>1, <1>2, <1>4 DEF Recorded, Sign, HistoryRecord
    <2>2. Entry(quantity, price) \in [low : Int, high : Int, adds : Nat, closes : Nat]
      BY <1>1, <1>3 DEF Entry, Lesser, HistoryRecord
    <2>3. history' \in HistoryRecord
      BY <1>1, <1>2, <2>1, <2>2 DEF Recorded, HistoryRecord
    <2> QED BY <1>2, <1>3, <2>3 DEF TypeOK, LedgerErrors
  <1>6. Bookkeeping'
    <2>1. /\ state.cash \in Int /\ state.realized_pnl \in Int
          /\ state.total_fee \in Int /\ fee \in Int /\ InitialLedger.cash \in Int
      BY <1>1, InitialLedgerRecord, WidthAssumption DEF LedgerRecord, Units
    <2>2. state.cash = InitialLedger.cash + state.realized_pnl - state.total_fee
      BY DEF LedgerInv, Bookkeeping
    <2>3. state'.cash = InitialLedger.cash + state'.realized_pnl - state'.total_fee
      BY <1>3, <1>4, <2>1, <2>2
    <2>4. InitialLedger' = InitialLedger
      BY DEF InitialLedger, LedgerConfigured
    <2> QED BY <1>3, <2>3, <2>4 DEF Bookkeeping
  <1>7. CostFollowsPosition'
    <2>1. CostSigned(state')
      BY <1>1, <1>2, FillKeepsCostSigned
    <2>2. state'.position = 0 => state'.average_entry_price = 0
      BY <1>3 DEF AveragePrice
    <2>3. state'.position = 0 => state'.unrealized_pnl = 0
      <3> SUFFICES ASSUME state'.position = 0 PROVE state'.unrealized_pnl = 0
        OBVIOUS
      <3>1. Notional(state'.position, price) \in Nat
        BY <1>3, NotionalRange
      <3>2. Magnitude(state'.position_cost) \in Int
        BY <1>3, WidthAssumption DEF Magnitude, LedgerRecord, Units
      <3>3. Sign(state'.position) = 0
        BY DEF Sign
      <3> QED BY <1>3, <3>1, <3>2, <3>3 DEF MarkedPnl
    <2> QED BY <2>1, <2>2, <2>3 DEF CostFollowsPosition, CostSigned
  <1>8. RoundingBounded'
    <2> DEFINE slack == (state'.realized_pnl - state'.position_cost)
                          - (state.realized_pnl - state.position_cost)
                          + Sign(quantity) * Notional(quantity, price)
               drift == state.realized_pnl - state.position_cost + history.paid
    <2>1. slack \in {-1, 0, 1} /\ (~Reverses(state, quantity) => slack = 0)
      BY <1>1, <1>2, FillConserves
    <2>2. /\ state.realized_pnl \in Int /\ state.position_cost \in Int
          /\ state'.realized_pnl \in Int /\ state'.position_cost \in Int
          /\ Sign(quantity) * Notional(quantity, price) \in Int
      BY <1>1, <1>3, <1>4, WidthAssumption DEF LedgerRecord, Units, Sign
    <2>3. history'.paid = history.paid + Sign(quantity) * Notional(quantity, price)
      BY <1>2 DEF Recorded
    <2>4. /\ drift \in Int
          /\ state'.realized_pnl - state'.position_cost + history'.paid = drift + slack
      BY <1>1, <2>2, <2>3 DEF HistoryRecord
    <2>5. Magnitude(drift) <= history.reversals
      BY DEF LedgerInv, RoundingBounded
    <2>6. history'.reversals
            = history.reversals + (IF Reverses(state, quantity) THEN 1 ELSE 0)
      BY <1>2 DEF Recorded
    <2> HIDE DEF slack, drift
    <2>7. Magnitude(drift + slack) <= history'.reversals
      BY <1>1, <2>1, <2>4, <2>5, <2>6 DEF Magnitude, HistoryRecord
    <2> QED BY <2>4, <2>7 DEF RoundingBounded
  <1> QED BY <1>5, <1>6, <1>7, <1>8 DEF LedgerInv

(* An accepted mark preserves the invariant. *)
LEMMA MarkKeepsInv ==
    ASSUME LedgerInv, NEW price \in Units, MarkToMarket(price),
           MarkToMarketError(state, price) = "ok"
    PROVE  LedgerInv'
  <1>1. /\ state \in LedgerRecord
        /\ history \in HistoryRecord
        /\ history' = history /\ error' = "ok"
        /\ state' = Marked(state, price)
        /\ MarkError(state, price) = "ok"
    BY DEF LedgerInv, TypeOK, MarkToMarket, AfterMark, MarkToMarketError
  <1>2. /\ state' \in LedgerRecord /\ price > 0
        /\ state' = [state EXCEPT !.unrealized_pnl = MarkedPnl(state, price),
                                  !.equity = state.cash + MarkedPnl(state, price),
                                  !.last_mark_price = price]
    BY <1>1, MarkOutcome
  <1>3. /\ state'.position = state.position
        /\ state'.position_cost = state.position_cost
        /\ state'.average_entry_price = state.average_entry_price
        /\ state'.cash = state.cash /\ state'.realized_pnl = state.realized_pnl
        /\ state'.total_fee = state.total_fee
        /\ state'.unrealized_pnl = MarkedPnl(state, price)
        /\ state'.equity = state.cash + MarkedPnl(state, price)
    BY <1>1, <1>2 DEF LedgerRecord
  <1>4. TypeOK'
    BY <1>1, <1>2 DEF TypeOK, LedgerErrors
  <1>5. Bookkeeping'
    <2>1. InitialLedger' = InitialLedger
      BY DEF InitialLedger, LedgerConfigured
    <2> QED BY <1>3, <2>1 DEF LedgerInv, Bookkeeping
  <1>6. CostFollowsPosition'
    <2>1. state.position = 0 => MarkedPnl(state, price) = 0
      <3> SUFFICES ASSUME state.position = 0 PROVE MarkedPnl(state, price) = 0
        OBVIOUS
      <3>1. price \in Nat
        BY <1>2, WidthAssumption DEF Units
      <3>2. Notional(state.position, price) \in Nat
        BY <3>1, NotionalRange
      <3>3. Magnitude(state.position_cost) \in Int /\ Sign(state.position) = 0
        BY <1>1, WidthAssumption DEF Magnitude, Sign, LedgerRecord, Units
      <3> QED BY <3>2, <3>3 DEF MarkedPnl
    <2> QED BY <1>3, <2>1 DEF LedgerInv, CostFollowsPosition
  <1>7. RoundingBounded'
    BY <1>1, <1>3 DEF LedgerInv, RoundingBounded
  <1> QED BY <1>4, <1>5, <1>6, <1>7 DEF LedgerInv

(* A refused call leaves the ledger as it was, so nothing is disturbed. *)
LEMMA RefusalKeepsInv ==
    ASSUME LedgerInv, state' = state, history' = history, error' \in LedgerErrors
    PROVE  LedgerInv'
  <1>1. InitialLedger' = InitialLedger
    BY DEF InitialLedger, LedgerConfigured
  <1> QED
    BY <1>1 DEF LedgerInv, TypeOK, Bookkeeping, CostFollowsPosition, RoundingBounded

LEMMA StepKeepsLedgerInv == LedgerInv /\ [Next]_vars => LedgerInv'
  <1> SUFFICES ASSUME LedgerInv, [Next]_vars PROVE LedgerInv'
    OBVIOUS
  <1>1. ASSUME NEW quantity \in Quantities, NEW price \in Prices, NEW fee \in Fees,
               ApplyFill(quantity, price, fee)
        PROVE  LedgerInv'
    <2>1. quantity \in Units /\ price \in Units /\ fee \in Units
      BY CallAssumption
    <2>2. CASE FillError(state, quantity, price, fee) = "ok"
      BY <1>1, <2>1, <2>2, FillKeepsInv
    <2>3. CASE FillError(state, quantity, price, fee) # "ok"
      <3>1. state' = state /\ history' = history /\ error' \in LedgerErrors
        BY <1>1, <2>3 DEF ApplyFill, AfterFill, FillError, LedgerErrors
      <3> QED BY <3>1, RefusalKeepsInv
    <2> QED BY <2>2, <2>3
  <1>2. ASSUME NEW price \in Prices, MarkToMarket(price)
        PROVE  LedgerInv'
    <2>1. price \in Units
      BY CallAssumption
    <2>2. CASE MarkToMarketError(state, price) = "ok"
      BY <1>2, <2>1, <2>2, MarkKeepsInv
    <2>3. CASE MarkToMarketError(state, price) # "ok"
      <3>1. state' = state /\ history' = history /\ error' \in LedgerErrors
        BY <1>2, <2>3
           DEF MarkToMarket, AfterMark, MarkToMarketError, MarkError, LedgerErrors
      <3> QED BY <3>1, RefusalKeepsInv
    <2> QED BY <2>2, <2>3
  <1>3. CASE UNCHANGED vars
    <2>1. error \in LedgerErrors
      BY DEF LedgerInv, TypeOK
    <2> QED BY <1>3, <2>1, RefusalKeepsInv DEF vars
  <1> QED BY <1>1, <1>2, <1>3 DEF Next

THEOREM LedgerInvariant == Spec => []LedgerInv
  BY InitLedgerInv, StepKeepsLedgerInv, PTL DEF Spec

(* No sequence of calls leaves an amount outside the int64 range. *)
THEOREM LedgerTypeCorrect == Spec => []TypeOK
  <1>1. LedgerInv => TypeOK
    BY DEF LedgerInv
  <1> QED BY <1>1, LedgerInvariant, PTL

(* Cash, realised profit, fees and equity agree after every call. *)
THEOREM LedgerBookkeeping == Spec => []Bookkeeping
  <1>1. LedgerInv => Bookkeeping
    BY DEF LedgerInv
  <1> QED BY <1>1, LedgerInvariant, PTL

(* The cost basis is that of the position. *)
THEOREM LedgerCostFollowsPosition == Spec => []CostFollowsPosition
  <1>1. LedgerInv => CostFollowsPosition
    BY DEF LedgerInv
  <1> QED BY <1>1, LedgerInvariant, PTL

(* Profit is conserved up to one unit for each reversal. *)
THEOREM LedgerRoundingBounded == Spec => []RoundingBounded
  <1>1. LedgerInv => RoundingBounded
    BY DEF LedgerInv
  <1> QED BY <1>1, LedgerInvariant, PTL

-----------------------------------------------------------------------------
(* Refinement.  The account values and splits what it trades as the ledger does. *)
LEMMA AccountValues ==
    ASSUME NEW x \in Int, NEW price \in Nat
    PROVE  /\ Account!Side(x) = Sign(x)
           /\ Account!Size(x) = Magnitude(x)
           /\ Account!Value(Account!Size(x), price) = Notional(x, price)
  <1>1. Account!Side(x) = Sign(x)
    BY DEF Account!Side, Sign
  <1>2. Account!Size(x) = Magnitude(x)
    BY <1>1 DEF Account!Size, Sign, Magnitude
  <1>3. Magnitude(x) * price * ScaleUp >= 0
    BY ScaleAssumption DEF Magnitude
  <1> QED BY <1>1, <1>2, <1>3 DEF Account!Value, Notional, TruncDiv

LEMMA AccountCloses ==
    ASSUME state \in LedgerRecord, NEW quantity \in Units, quantity # 0
    PROVE  Account!Closing(quantity) = Closing(state, quantity)
  <1>1. state.position \in Int /\ quantity \in Int
    BY WidthAssumption DEF LedgerRecord, Units
  <1>2. /\ Account!Side(quantity) = Sign(quantity)
        /\ Account!Side(state.position) = Sign(state.position)
        /\ Account!Size(quantity) = Magnitude(quantity)
        /\ Account!Size(state.position) = Magnitude(state.position)
    BY <1>1 DEF Account!Side, Account!Size, Sign, Magnitude
  <1>3. Magnitude(quantity) \in Int /\ Magnitude(state.position) \in Int
    BY <1>1 DEF Magnitude
  <1>4. Adds(state, quantity) <=> Sign(quantity) # -Sign(state.position)
    BY <1>1 DEF Adds, Sign
  <1> QED
    BY <1>2, <1>3, <1>4 DEF Account!Closing, Closing, CloseQuantity, Lesser

(* The equity of a consistent ledger is what liquidation would leave. *)
LEMMA EquityIsWorth ==
    ASSUME NEW s \in LedgerRecord, NEW price \in Nat, CostSigned(s),
           s.cash = InitialLedger.cash + s.realized_pnl - s.total_fee,
           s.unrealized_pnl = MarkedPnl(s, price),
           s.equity = s.cash + s.unrealized_pnl
    PROVE  s.equity = Account!Worth(s.position, s.position_cost - s.realized_pnl,
                                    s.total_fee, price)
  <1> DEFINE value == Notional(s.position, price)
             size == Magnitude(s.position_cost)
  <1>1. /\ s.position \in Int /\ s.position_cost \in Int /\ s.cash \in Int
        /\ s.realized_pnl \in Int /\ s.total_fee \in Int /\ InitialLedger.cash \in Int
    BY InitialLedgerRecord, WidthAssumption DEF LedgerRecord, Units
  <1>2. value \in Nat
    BY <1>1, NotionalRange
  <1>3. Sign(s.position) * size = s.position_cost
    BY <1>1 DEF CostSigned, Sign, Magnitude
  <1>4. Sign(s.position) \in {-1, 0, 1} /\ size \in Int
    BY <1>1 DEF Sign, Magnitude
  <1>5. MarkedPnl(s, price) = Sign(s.position) * (value - size)
    BY DEF MarkedPnl
  <1>6. Account!Worth(s.position, s.position_cost - s.realized_pnl, s.total_fee, price)
          = InitialLedger.cash - (s.position_cost - s.realized_pnl) - s.total_fee
              + Sign(s.position) * value
    BY <1>1, AccountValues DEF Account!Worth
  <1>7. MarkedPnl(s, price) = Sign(s.position) * value - s.position_cost
    <2> DEFINE side == Sign(s.position)
    <2>1. side \in {-1, 0, 1} /\ side * size = s.position_cost
      BY <1>3, <1>4
    <2> HIDE DEF value, size, side
    <2>2. side * (value - size) = side * value - side * size
      BY <1>2, <1>4, <2>1
    <2> QED BY <1>5, <2>1, <2>2 DEF side
  <1>8. Sign(s.position) * value \in Int
    <2> HIDE DEF value
    <2> QED BY <1>2, <1>4
  <1> HIDE DEF value
  <1> QED BY <1>1, <1>6, <1>7, <1>8

LEMMA LedgerStepImplements ==
    LedgerInv /\ LedgerInv' /\ [Next]_vars => [Account!Next]_(Account!account)
  <1> SUFFICES ASSUME LedgerInv, LedgerInv', [Next]_vars
               PROVE  [Account!Next]_(Account!account)
    OBVIOUS
  <1>1. /\ state \in LedgerRecord /\ CostSigned(state)
        /\ state' \in LedgerRecord /\ CostSigned(state')
        /\ state'.cash = InitialLedger.cash + state'.realized_pnl - state'.total_fee
    <2>1. InitialLedger' = InitialLedger
      BY DEF InitialLedger, LedgerConfigured
    <2> QED BY <2>1 DEF LedgerInv, TypeOK, CostFollowsPosition, CostSigned, Bookkeeping
  <1>2. ASSUME NEW quantity \in Quantities, NEW price \in Prices, NEW fee \in Fees,
               ApplyFill(quantity, price, fee)
        PROVE  [Account!Next]_(Account!account)
    <2>1. quantity \in Units /\ price \in Units /\ fee \in Units
      BY CallAssumption
    <2>2. CASE FillError(state, quantity, price, fee) # "ok"
      <3>1. state' = state
        BY <1>2, <2>2 DEF ApplyFill, AfterFill
      <3> QED BY <3>1 DEF Account!account, InitialLedger
    <2>3. CASE FillError(state, quantity, price, fee) = "ok"
      <3>1. state' = AfterFill(state, quantity, price, fee)
        BY <1>2 DEF ApplyFill
      <3>2. /\ price > 0
            /\ state'.position = state.position + quantity
            /\ state'.total_fee = state.total_fee + fee
            /\ state'.unrealized_pnl = MarkedPnl(state', price)
            /\ state'.equity = state'.cash + state'.unrealized_pnl
            /\ state'.last_mark_price = price
        BY <1>1, <2>1, <2>3, <3>1, FillOutcome
      <3>3. price \in Nat /\ quantity \in Int
        BY <2>1, <3>2, WidthAssumption DEF Units
      <3>4. /\ Account!Closing(quantity) = Closing(state, quantity)
            /\ Closing(state, quantity) \in Nat
            /\ Magnitude(quantity) - Closing(state, quantity) \in Nat
            /\ state'.position_cost - state'.realized_pnl
                 = state.position_cost - state.realized_pnl
                     + Sign(quantity)
                         * (Notional(Closing(state, quantity), price)
                             + Notional(Magnitude(quantity) - Closing(state, quantity), price))
        <4>1. quantity # 0
          BY <1>1, <2>1, <2>3, <3>1, FillOutcome
        <4>2. /\ Closing(state, quantity) \in Nat
              /\ Closing(state, quantity) <= Magnitude(quantity)
              /\ state'.position_cost - state'.realized_pnl
                   = state.position_cost - state.realized_pnl
                       + Sign(quantity)
                           * (Notional(Closing(state, quantity), price)
                               + Notional(Magnitude(quantity) - Closing(state, quantity), price))
          BY <1>1, <2>1, <2>3, <3>1, FillPays
        <4>3. Magnitude(quantity) \in Nat
          BY <3>3 DEF Magnitude
        <4> QED BY <1>1, <2>1, <4>1, <4>2, <4>3, AccountCloses
      <3>5. state'.position_cost - state'.realized_pnl
              = state.position_cost - state.realized_pnl
                  + Account!Side(quantity)
                      * (Account!Value(Account!Closing(quantity), price)
                          + Account!Value(Account!Size(quantity)
                                           - Account!Closing(quantity), price))
        <4>1. \A n \in Nat : Account!Value(n, price) = Notional(n, price)
          <5> SUFFICES ASSUME NEW n \in Nat
                       PROVE  Account!Value(n, price) = Notional(n, price)
            OBVIOUS
          <5>1. Account!Size(n) = n
            BY AccountValues, <3>3 DEF Magnitude
          <5> QED BY <3>3, <5>1, AccountValues
        <4>2. Account!Side(quantity) = Sign(quantity)
                /\ Account!Size(quantity) = Magnitude(quantity)
          BY <3>3, AccountValues
        <4>3. /\ Account!Value(Account!Closing(quantity), price)
                   = Notional(Closing(state, quantity), price)
              /\ Account!Value(Account!Size(quantity) - Account!Closing(quantity), price)
                   = Notional(Magnitude(quantity) - Closing(state, quantity), price)
          BY <3>4, <4>1, <4>2
        <4> QED BY <3>4, <4>2, <4>3
      <3>6. state'.equity
              = Account!Worth(state'.position, state'.position_cost - state'.realized_pnl,
                              state'.total_fee, price)
        BY <1>1, <3>2, <3>3, EquityIsWorth
      <3>7. Account!Trade(quantity, price, fee)
        BY <3>2, <3>5, <3>6 DEF Account!Trade, Account!Worth, Account!Side,
           Account!Size, Account!Value, InitialLedger, LedgerConfigured
      <3> QED BY <3>7 DEF Account!Next
    <2> QED BY <2>2, <2>3
  <1>3. ASSUME NEW price \in Prices, MarkToMarket(price)
        PROVE  [Account!Next]_(Account!account)
    <2>1. CASE MarkToMarketError(state, price) # "ok"
      <3>1. state' = state
        BY <1>3, <2>1 DEF MarkToMarket, AfterMark
      <3> QED BY <3>1 DEF Account!account, InitialLedger
    <2>2. CASE MarkToMarketError(state, price) = "ok"
      <3>1. state' = Marked(state, price) /\ MarkError(state, price) = "ok"
        BY <1>3, <2>2 DEF MarkToMarket, AfterMark, MarkToMarketError
      <3>2. price \in Units
        BY CallAssumption
      <3>3. /\ price > 0
            /\ state' = [state EXCEPT !.unrealized_pnl = MarkedPnl(state, price),
                                      !.equity = state.cash + MarkedPnl(state, price),
                                      !.last_mark_price = price]
        BY <1>1, <3>1, <3>2, MarkOutcome
      <3>4. /\ state'.position = state.position
            /\ state'.position_cost = state.position_cost
            /\ state'.cash = state.cash /\ state'.realized_pnl = state.realized_pnl
            /\ state'.total_fee = state.total_fee
            /\ state'.unrealized_pnl = MarkedPnl(state, price)
            /\ state'.equity = state'.cash + MarkedPnl(state, price)
            /\ state'.last_mark_price = price
        BY <1>1, <3>3 DEF LedgerRecord
      <3>5. MarkedPnl(state', price) = MarkedPnl(state, price)
        BY <3>4 DEF MarkedPnl
      <3>6. price \in Nat
        BY <3>2, <3>3, WidthAssumption DEF Units
      <3>7. state'.equity
              = Account!Worth(state'.position, state'.position_cost - state'.realized_pnl,
                              state'.total_fee, price)
        BY <1>1, <3>4, <3>5, <3>6, EquityIsWorth
      <3>8. Account!Reprice(price)
        BY <3>4, <3>7 DEF Account!Reprice, Account!Worth, Account!Side,
           Account!Size, Account!Value, InitialLedger, LedgerConfigured
      <3> QED BY <3>8 DEF Account!Next
    <2> QED BY <2>1, <2>2
  <1>4. CASE UNCHANGED vars
    BY <1>4 DEF vars, Account!account, InitialLedger
  <1> QED BY <1>2, <1>3, <1>4 DEF Next

(* Whatever the scales, the ledger with its cost basis, realised and        *)
(* unrealised profit implements the plain cash account: no rounding stays   *)
(* behind but that of the values of what each fill closed and opened.       *)
THEOREM LedgerImplementsCashAccount == Spec => ImplementsCashAccount
  <1>1. Init => Account!Init
    BY DEF Init, Account!Init, InitialLedger
  <1>2. LedgerInv /\ LedgerInv' /\ [Next]_vars => [Account!Next]_(Account!account)
    BY LedgerStepImplements
  <1> QED
    BY <1>1, <1>2, LedgerInvariant, PTL
       DEF Spec, ImplementsCashAccount, Account!Spec

-----------------------------------------------------------------------------
(* Entry prices.  A cost is between the values of a holding at two prices when it is *)
(* short of the lower by at most E and past the higher by at most F.  Both are    *)
(* counted in parts of an account unit, of which ScaleDown make one; `units' is   *)
(* the holding times ScaleUp, so that units * price is its value in such parts.   *)
Between(cost, units, low, high, E, F) ==
    /\ low * units - E <= cost * ScaleDown
    /\ cost * ScaleDown <= high * units + F

LEMMA ProductGrows ==
    ASSUME NEW x \in Int, NEW y \in Int, x <= y, NEW n \in Nat
    PROVE  x * n \in Int /\ y * n \in Int /\ x * n <= y * n
  BY SMT

(* Buying more at a price takes the price into the range; the value paid is *)
(* rounded down.                                                            *)
LEMMA AddedBetween ==
    ASSUME NEW c \in Int, NEW u \in Nat, NEW low \in Int, NEW high \in Int,
           NEW E \in Nat, NEW F \in Nat,
           Between(c, u, low, high, E, F),
           NEW w \in Nat, NEW price \in Int, NEW value \in Int,
           price * w - (ScaleDown - 1) <= value * ScaleDown,
           value * ScaleDown <= price * w,
           NEW lowest \in Int, lowest <= low, lowest <= price,
           NEW highest \in Int, highest >= high, highest >= price
    PROVE  Between(c + value, u + w, lowest, highest, E + (ScaleDown - 1), F)
  <1> DEFINE lu == lowest * u
             lw == lowest * w
             hu == highest * u
             hw == highest * w
             pw == price * w
             from == low * u
             to == high * u
             cd == c * ScaleDown
             vd == value * ScaleDown
  <1>1. ScaleDown \in Nat
    BY ScaleAssumption
  <1>2. /\ {lu, lw, hu, hw, pw, from, to} \subseteq Int
        /\ lu <= from /\ lw <= pw /\ to <= hu /\ pw <= hw
    BY ProductGrows
  <1>3. cd \in Int /\ vd \in Int
    BY <1>1, SMT
  <1>4. /\ from - E <= cd /\ cd <= to + F
        /\ pw - (ScaleDown - 1) <= vd /\ vd <= pw
    BY DEF Between
  <1>5. /\ lowest * (u + w) = lu + lw /\ highest * (u + w) = hu + hw
        /\ (c + value) * ScaleDown = cd + vd
    BY <1>1, SMT
  <1>6. /\ (lu + lw) - (E + (ScaleDown - 1)) <= cd + vd
        /\ cd + vd <= hu + hw + F
    <2> HIDE DEF lu, lw, hu, hw, pw, from, to, cd, vd
    <2> QED BY <1>1, <1>2, <1>3, <1>4
  <1> QED BY <1>5, <1>6 DEF Between

(* A partial close keeps the range: the part of the cost it takes is rounded *)
(* down, so that less than one unit too many is left behind.                *)
LEMMA ClosedBetween ==
    ASSUME NEW c \in Nat, NEW n \in Nat \ {0}, NEW low \in Int, NEW high \in Int,
           NEW E \in Nat, NEW F \in Nat,
           Between(c, n * ScaleUp, low, high, E, F), NEW q \in Nat, q <= n
    PROVE  Between(c - TruncDiv(c * q, n), (n - q) * ScaleUp, low, high,
                   E, F + (ScaleDown - 1))
  <1> DEFINE k == low * ScaleUp
             m == high * ScaleUp
             left == n - q
             taken == TruncDiv(c * q, n)
             cd == c * ScaleDown
  <1>1. ScaleUp \in Int /\ ScaleDown \in Nat \ {0}
    BY ScaleAssumption
  <1>2. k \in Int /\ m \in Int /\ left \in Nat /\ left <= n /\ q = n - left /\ cd \in Int
    BY <1>1, SMT
  <1>3. \A x \in Int, j \in Int : x * (j * ScaleUp) = (x * ScaleUp) * j
    BY <1>1, SMT
  <1>4. k * n - E <= cd /\ cd <= m * n + F
    <2>1. low * (n * ScaleUp) = k * n /\ high * (n * ScaleUp) = m * n
      BY <1>3
    <2> QED BY <2>1 DEF Between
  <1>5. c * q \in Nat /\ taken = (c * q) \div n
    <2>1. c * q \in Nat
      BY SMT
    <2>2. \A x \in Nat : TruncDiv(x, n) = x \div n
      BY DEF TruncDiv
    <2> QED BY <2>1, <2>2
  <1>6. /\ low * (left * ScaleUp) = k * left
        /\ high * (left * ScaleUp) = m * left
    BY <1>2, <1>3
  <1> HIDE DEF k, m, left
  <1>7. taken \in Int /\ n * taken <= c * q /\ c * q < n * taken + n
    <2> DEFINE x == c * q
    <2>1. x \in Nat /\ taken = x \div n
      BY <1>5
    <2> HIDE DEF x, taken
    <2>2. taken \in Int /\ n * taken <= x /\ x < n * taken + n
      BY <2>1, SMT
    <2> QED BY <2>2 DEF x
  <1> HIDE DEF taken
  <1> DEFINE rest == c - taken
  <1>8. rest \in Int /\ c * left <= n * rest /\ n * rest <= c * left + (n - 1)
    <2>1. c * q = n * c - c * left /\ n * rest = n * c - n * taken
      BY <1>2, <1>7, SMT
    <2> DEFINE cq == c * q
               nt == n * taken
               nc == n * c
               cl == c * left
               nr == n * rest
    <2>2. /\ {cq, nt, nc, cl, nr} \subseteq Int
          /\ cq = nc - cl /\ nr = nc - nt /\ nt <= cq /\ cq < nt + n
      BY <1>2, <1>7, <2>1, SMT
    <2>3. cl <= nr /\ nr <= cl + (n - 1)
      <3> HIDE DEF cq, nt, nc, cl, nr
      <3> QED BY <2>2
    <2> QED BY <1>7, <2>3
  <1> HIDE DEF rest
  <1> DEFINE rd == rest * ScaleDown
             kl == k * left
             ml == m * left
  <1>9. rd \in Int /\ kl \in Int /\ ml \in Int
    BY <1>1, <1>2, <1>8, SMT
  <1>10. /\ (c * left) * ScaleDown <= n * rd
         /\ n * rd <= (c * left) * ScaleDown + (n - 1) * ScaleDown
    <2> DEFINE cl == c * left
               nr == n * rest
    <2>1. cl \in Int /\ nr \in Int /\ cl <= nr /\ nr <= cl + (n - 1)
      BY <1>2, <1>8, SMT
    <2>2. nr * ScaleDown = n * rd
      BY <1>1, <1>8, SMT
    <2> HIDE DEF cl, nr
    <2>3. cl * ScaleDown <= nr * ScaleDown /\ nr * ScaleDown <= (cl + (n - 1)) * ScaleDown
      BY <1>1, <2>1, ProductGrows
    <2>4. (cl + (n - 1)) * ScaleDown = cl * ScaleDown + (n - 1) * ScaleDown
      BY <1>1, <2>1, SMT
    <2> QED BY <2>2, <2>3, <2>4 DEF cl
  <1>11. (c * left) * ScaleDown = cd * left
    BY <1>1, <1>2, SMT
  <1>12. n * kl - E * left <= cd * left /\ cd * left <= n * ml + F * left
    <2> HIDE DEF cd
    <2>1. (k * n - E) * left <= cd * left /\ cd * left <= (m * n + F) * left
      <3>1. k * n - E \in Int /\ m * n + F \in Int
        BY <1>2, SMT
      <3> QED BY <1>2, <1>4, <3>1, ProductGrows
    <2>2. /\ (k * n - E) * left = n * kl - E * left
          /\ (m * n + F) * left = n * ml + F * left
      BY <1>2, SMT
    <2> QED BY <2>1, <2>2
  <1>13. E * left <= n * E /\ F * left <= n * F /\ (n - 1) * ScaleDown = n * ScaleDown - ScaleDown
    BY <1>1, <1>2, SMT
  <1>14. n * (kl - E) <= n * rd /\ n * rd < n * (ml + F + ScaleDown)
    <2> DEFINE nk == n * kl
               nm == n * ml
               ne == n * E
               nf == n * F
               el == E * left
               fl == F * left
               cl == cd * left
               nd == n * ScaleDown
               nr == n * rd
    <2>1. {nk, nm, ne, nf, el, fl, cl, nd, nr} \subseteq Int
      BY <1>1, <1>2, <1>9, SMT
    <2>2. /\ cl <= nr /\ nr <= cl + (nd - ScaleDown)
          /\ nk - el <= cl /\ cl <= nm + fl /\ el <= ne /\ fl <= nf
      BY <1>10, <1>11, <1>12, <1>13
    <2>3. n * (kl - E) = nk - ne /\ n * (ml + F + ScaleDown) = nm + nf + nd
      BY <1>1, <1>9, SMT
    <2>4. nk - ne <= nr /\ nr < nm + nf + nd
      <3> HIDE DEF nk, nm, ne, nf, el, fl, cl, nd, nr
      <3> QED BY <1>1, <2>1, <2>2
    <2> QED BY <2>3, <2>4
  <1>15. kl - E <= rd /\ rd <= ml + F + (ScaleDown - 1)
    <2> HIDE DEF rd, kl, ml
    <2> DEFINE x == kl - E
               y == ml + F + ScaleDown
    <2>1. x \in Int /\ y \in Int /\ n * x <= n * rd /\ n * rd < n * y
      BY <1>1, <1>9, <1>14
    <2>2. x <= rd /\ rd < y
      <3> HIDE DEF x, y
      <3> QED BY <1>9, <2>1, SMT
    <2> QED BY <1>1, <1>9, <2>2
  <1>16. rest * ScaleDown >= low * (left * ScaleUp) - E
            /\ rest * ScaleDown <= high * (left * ScaleUp) + (F + (ScaleDown - 1))
    <2>1. rd >= kl - E /\ rd <= ml + (F + (ScaleDown - 1))
      <3> HIDE DEF rd, kl, ml
      <3> QED BY <1>1, <1>9, <1>15
    <2> QED BY <1>6, <2>1
  <1> QED BY <1>16 DEF Between, rest, left, taken

(* The reported price, rounded down twice, is off by less than one more price *)
(* unit.                                                                     *)
LEMMA AverageBetween ==
    ASSUME NEW c \in Nat, NEW n \in Nat \ {0}, NEW low \in Int, NEW high \in Int,
           NEW E \in Nat, NEW F \in Nat,
           Between(c, n * ScaleUp, low, high, E, F),
           NEW price, price = TruncDiv(TruncDiv(c * ScaleDown, ScaleUp), n)
    PROVE  /\ price \in Int
           /\ (price - high) * (n * ScaleUp) <= F
           /\ (low - price) * (n * ScaleUp) < n * ScaleUp + E
  <1> DEFINE x == c * ScaleDown
             whole == x \div ScaleUp
  <1>1. ScaleUp \in Nat \ {0} /\ ScaleDown \in Nat
    BY ScaleAssumption
  <1>2. x \in Nat
    BY <1>1, SMT
  <1>3. TruncDiv(x, ScaleUp) = whole
    BY <1>2 DEF TruncDiv
  <1>4. low * (n * ScaleUp) - E <= x /\ x <= high * (n * ScaleUp) + F
    BY DEF Between
  <1>5. price = TruncDiv(whole, n)
    BY <1>3
  <1> HIDE DEF x
  <1>6. whole \in Nat /\ whole * ScaleUp <= x /\ x < whole * ScaleUp + ScaleUp
    BY <1>1, <1>2, SMT
  <1> HIDE DEF whole
  <1>7. price = whole \div n
    BY <1>5, <1>6 DEF TruncDiv
  <1>8. price \in Nat /\ price * n <= whole /\ whole + 1 <= price * n + n
    BY <1>6, <1>7, SMT
  <1> DEFINE u == n * ScaleUp
  <1>9. u \in Nat /\ low * u \in Int /\ high * u \in Int /\ price * u \in Int
    <2>1. u \in Nat
      BY <1>1, SMT
    <2> HIDE DEF u
    <2> QED BY <1>8, <2>1, SMT
  <1>10. price * u <= x /\ x < price * u + u
    <2> DEFINE pn == price * n
    <2>1. pn \in Int /\ pn <= whole /\ whole + 1 <= pn + n
      BY <1>8, SMT
    <2>2. pn * ScaleUp = price * u /\ (pn + n) * ScaleUp = price * u + u
      BY <1>1, <1>8, SMT
    <2>3. (whole + 1) * ScaleUp = whole * ScaleUp + ScaleUp
      BY <1>1, <1>6, SMT
    <2> HIDE DEF pn, u
    <2>4. pn * ScaleUp <= whole * ScaleUp /\ (whole + 1) * ScaleUp <= (pn + n) * ScaleUp
      BY <1>1, <1>6, <2>1, ProductGrows
    <2> DEFINE ws == whole * ScaleUp
               pu == price * u
    <2>5. ws \in Int /\ pu \in Int /\ pu <= ws /\ ws <= x /\ x < ws + ScaleUp
            /\ ws + ScaleUp <= pu + u
      BY <1>1, <1>6, <1>9, <2>2, <2>3, <2>4, SMT
    <2>6. pu <= x /\ x < pu + u
      <3> HIDE DEF ws, pu
      <3> QED BY <1>1, <1>2, <1>9, <2>5
    <2> QED BY <2>6
  <1>11. low * u - E <= x /\ x <= high * u + F
    BY <1>4
  <1> HIDE DEF u
  <1>12. /\ (price - high) * u = price * u - high * u
         /\ (low - price) * u = low * u - price * u
    BY <1>8, <1>9, SMT
  <1> DEFINE pu == price * u
             lu == low * u
             hu == high * u
  <1>13. /\ pu \in Int /\ lu \in Int /\ hu \in Int /\ pu <= x /\ x < pu + u
         /\ lu - E <= x /\ x <= hu + F
    BY <1>9, <1>10, <1>11
  <1>14. pu - hu <= F /\ lu - pu < u + E
    <2> HIDE DEF pu, lu, hu
    <2> QED BY <1>2, <1>9, <1>13
  <1> QED BY <1>8, <1>12, <1>14 DEF u

(* The invariant behind the average: it is the cost that stays near the range, and *)
(* the average is computed from it.                                           *)
CostWithinEntryPrices ==
    /\ state.average_entry_price = AveragePrice(state.position, state.position_cost)
    /\ Between(Magnitude(state.position_cost), Magnitude(state.position) * ScaleUp,
               history.low, history.high,
               (ScaleDown - 1) * history.adds, (ScaleDown - 1) * history.closes)

(* A value falls short of the product by less than one account unit. *)
LEMMA NotionalNearProduct ==
    ASSUME NEW x \in Int, NEW price \in Nat
    PROVE  /\ Notional(x, price) \in Nat
           /\ Magnitude(x) * ScaleUp \in Nat
           /\ price * (Magnitude(x) * ScaleUp) - (ScaleDown - 1)
                <= Notional(x, price) * ScaleDown
           /\ Notional(x, price) * ScaleDown <= price * (Magnitude(x) * ScaleUp)
  <1> DEFINE size == Magnitude(x)
             product == size * price * ScaleUp
  <1>1. size \in Nat /\ ScaleUp \in Nat /\ ScaleDown \in Nat \ {0}
    BY ScaleAssumption DEF Magnitude
  <1>2. Notional(x, price) = TruncDiv(product, ScaleDown)
    BY DEF Notional
  <1> HIDE DEF size
  <1>3. product = price * (size * ScaleUp) /\ product \in Nat /\ size * ScaleUp \in Nat
    BY <1>1, SMT
  <1> HIDE DEF product
  <1>4. Notional(x, price) = product \div ScaleDown
    BY <1>2, <1>3 DEF TruncDiv
  <1>5. /\ Notional(x, price) \in Nat
        /\ Notional(x, price) * ScaleDown <= product
        /\ product < Notional(x, price) * ScaleDown + ScaleDown
    <2> DEFINE value == product \div ScaleDown
    <2>1. /\ value \in Nat /\ value * ScaleDown <= product
          /\ product < value * ScaleDown + ScaleDown
      BY <1>1, <1>3, SMT
    <2> QED BY <1>4, <2>1
  <1>6. Notional(x, price) * ScaleDown \in Int
    BY <1>1, <1>5, SMT
  <1>7. product - (ScaleDown - 1) <= Notional(x, price) * ScaleDown
    BY <1>1, <1>3, <1>5, <1>6
  <1> QED BY <1>3, <1>5, <1>7 DEF size

LEMMA PositionMagnitudes ==
    ASSUME NEW p \in Int, NEW q \in Int, q # 0, NEW r, r = p + q
    PROVE  /\ p = 0 \/ Sign(p) = Sign(q) => Magnitude(r) = Magnitude(p) + Magnitude(q)
           /\ p # 0 /\ Sign(p) # Sign(q) /\ Sign(r) # -Sign(p) =>
                  /\ Magnitude(r) = Magnitude(p) - Magnitude(q)
                  /\ Magnitude(q) <= Magnitude(p)
  BY DEF Magnitude, Sign

(* A position opened at one price, from nothing or by a reversal. *)
LEMMA OpenedBetween ==
    ASSUME NEW x \in Int, NEW price \in Nat
    PROVE  Between(Notional(x, price), Magnitude(x) * ScaleUp, price, price,
                   (ScaleDown - 1) * 1, (ScaleDown - 1) * 0)
  <1> DEFINE units == Magnitude(x) * ScaleUp
             value == Notional(x, price)
  <1>1. /\ value \in Nat /\ units \in Nat
        /\ price * units - (ScaleDown - 1) <= value * ScaleDown
        /\ value * ScaleDown <= price * units
    BY NotionalNearProduct
  <1>2. (ScaleDown - 1) * 1 = ScaleDown - 1 /\ (ScaleDown - 1) * 0 = 0
    BY ScaleAssumption, SMT
  <1> HIDE DEF units, value
  <1>3. price * units \in Int
    BY <1>1, SMT
  <1>4. value * ScaleDown <= price * units + 0
    BY <1>1, <1>3
  <1>5. Between(value, units, price, price, ScaleDown - 1, 0)
    BY <1>1, <1>4 DEF Between
  <1> QED BY <1>2, <1>5 DEF units, value

LEMMA FillKeepsEntryPrices ==
    ASSUME LedgerInv, CostWithinEntryPrices,
           NEW quantity \in Units, NEW price \in Units, NEW fee \in Units,
           ApplyFill(quantity, price, fee),
           FillError(state, quantity, price, fee) = "ok"
    PROVE  CostWithinEntryPrices'
  <1> DEFINE held == Magnitude(state.position)
             cost == Magnitude(state.position_cost)
             size == Magnitude(quantity)
             entry == Entry(quantity, price)
             lost(n) == (ScaleDown - 1) * n
  <1>1. /\ state \in LedgerRecord /\ CostSigned(state)
        /\ history.low \in Int /\ history.high \in Int
        /\ history.adds \in Nat /\ history.closes \in Nat
    BY CostFollowsIsSigned DEF LedgerInv, TypeOK, HistoryRecord
  <1>2. /\ state' = AfterFill(state, quantity, price, fee)
        /\ history'.low = entry.low /\ history'.high = entry.high
        /\ history'.adds = entry.adds /\ history'.closes = entry.closes
    BY DEF ApplyFill, Recorded
  <1>3. /\ quantity # 0 /\ price \in Nat /\ quantity \in Int
        /\ state'.position = state.position + quantity
        /\ state'.position_cost = CostAfter(state, quantity, price)
        /\ state'.average_entry_price = AveragePrice(state'.position, state'.position_cost)
    <2>1. price > 0 /\ quantity # 0
      BY <1>1, <1>2, FillOutcome
    <2>2. price \in Nat /\ quantity \in Int
      BY <2>1, WidthAssumption DEF Units
    <2> QED
      BY <1>1, <1>2, <2>1, <2>2, FillOutcome
  <1>4. /\ state.position \in Int /\ state.position_cost \in Int
        /\ ScaleUp \in Nat /\ ScaleDown \in Nat \ {0}
        /\ held \in Nat /\ cost \in Nat /\ size \in Nat
    BY <1>1, <1>3, WidthAssumption, ScaleAssumption DEF LedgerRecord, Units, Magnitude
  <1>5. Between(cost, held * ScaleUp, history.low, history.high,
                lost(history.adds), lost(history.closes))
    BY DEF CostWithinEntryPrices
  <1>6. \A n \in Nat : lost(n) \in Nat /\ lost(n + 1) = lost(n) + (ScaleDown - 1)
    BY <1>4, SMT
  <1>7. SUFFICES Between(Magnitude(state'.position_cost),
                         Magnitude(state'.position) * ScaleUp,
                         entry.low, entry.high, lost(entry.adds), lost(entry.closes))
    <2> HIDE DEF entry
    <2> QED BY <1>2, <1>3 DEF CostWithinEntryPrices, Between
  <1>8. CASE state.position = 0 \/ Reverses(state, quantity)
    <2>1. /\ state'.position # 0 /\ state'.position \in Int
          /\ state'.position_cost = Sign(state'.position) * Notional(state'.position, price)
      <3>1. state'.position \in Int
        BY <1>3, <1>4
      <3>2. CASE Reverses(state, quantity)
        BY <1>1, <1>3, <3>1, <3>2, CostCases
      <3>3. CASE state.position = 0
        <4>1. Adds(state, quantity) /\ state.position_cost = 0
          BY <1>1, <3>3 DEF Adds, CostSigned
        <4>2. state'.position = quantity
          BY <1>3, <1>4, <3>3
        <4>3. state'.position_cost
                = state.position_cost + Sign(quantity) * Notional(quantity, price)
          BY <1>1, <1>3, <4>1, CostCases
        <4>4. Sign(quantity) * Notional(quantity, price) \in Int
          <5>1. Notional(quantity, price) \in Nat /\ Sign(quantity) \in {-1, 0, 1}
            BY <1>3, NotionalRange DEF Sign
          <5> QED BY <5>1
        <4> QED BY <1>3, <3>1, <4>1, <4>2, <4>3, <4>4
      <3> QED BY <1>8, <3>2, <3>3
    <2>2. Magnitude(state'.position_cost) = Notional(state'.position, price)
      <3>1. Notional(state'.position, price) \in Nat
        BY <1>3, <2>1, NotionalRange
      <3> QED BY <2>1, <3>1 DEF Sign, Magnitude
    <2>3. entry = [low |-> price, high |-> price, adds |-> 1, closes |-> 0]
      BY <1>3, <1>8, <2>1 DEF Entry
    <2>4. Between(Notional(state'.position, price), Magnitude(state'.position) * ScaleUp,
                  price, price, lost(1), lost(0))
      BY <1>3, <2>1, OpenedBetween
    <2> QED BY <2>2, <2>3, <2>4
  <1>9. CASE state.position # 0 /\ Adds(state, quantity)
    <2>1. /\ state'.position # 0 /\ ~Reverses(state, quantity)
          /\ state'.position_cost
               = state.position_cost + Sign(quantity) * Notional(quantity, price)
      BY <1>1, <1>3, <1>9, CostCases
    <2>2. Magnitude(state'.position) = held + size
      BY <1>3, <1>4, <1>9, PositionMagnitudes DEF Adds
    <2>3. Magnitude(state'.position) * ScaleUp = held * ScaleUp + size * ScaleUp
      <3> HIDE DEF held, size
      <3> QED BY <1>4, <2>2, SMT
    <2>4. Notional(quantity, price) \in Nat
      BY <1>3, NotionalRange
    <2>5. Magnitude(state'.position_cost) = cost + Notional(quantity, price)
      BY <1>1, <1>3, <1>4, <1>9, <2>1, <2>4 DEF Sign, Magnitude, CostSigned, Adds
    <2>6. /\ entry.low = Lesser(history.low, price)
          /\ entry.high = IF price > history.high THEN price ELSE history.high
          /\ entry.adds = history.adds + 1 /\ entry.closes = history.closes
      BY <1>3, <1>9, <2>1 DEF Entry
    <2>7. /\ entry.low \in Int /\ entry.low <= history.low /\ entry.low <= price
          /\ entry.high \in Int /\ entry.high >= history.high /\ entry.high >= price
      BY <1>1, <1>3, <2>6 DEF Lesser
    <2>8. /\ size * ScaleUp \in Nat
          /\ price * (size * ScaleUp) - (ScaleDown - 1) <= Notional(quantity, price) * ScaleDown
          /\ Notional(quantity, price) * ScaleDown <= price * (size * ScaleUp)
      BY <1>3, NotionalNearProduct
    <2>9. /\ lost(history.adds) \in Nat /\ lost(history.closes) \in Nat
          /\ lost(entry.adds) = lost(history.adds) + (ScaleDown - 1)
          /\ lost(entry.closes) = lost(history.closes)
      BY <1>1, <1>6, <2>6
    <2>10. held * ScaleUp \in Nat /\ cost \in Int /\ price \in Int
             /\ Notional(quantity, price) \in Int
      BY <1>3, <1>4, <2>4, SMT
    <2> HIDE DEF held, cost, size, entry, lost
    <2>11. Between(cost + Notional(quantity, price), held * ScaleUp + size * ScaleUp,
                   entry.low, entry.high,
                   lost(history.adds) + (ScaleDown - 1), lost(history.closes))
      BY <1>1, <1>5, <2>7, <2>8, <2>9, <2>10, AddedBetween, Zenon
    <2> QED BY <2>3, <2>5, <2>9, <2>11
  <1>10. CASE state.position + quantity = 0
    <2>1. state'.position = 0 /\ state'.position_cost = 0
      BY <1>1, <1>3, <1>10, CostCases
    <2>2. entry = [low |-> 0, high |-> 0, adds |-> 0, closes |-> 0]
      BY <1>10 DEF Entry
    <2>3. /\ Magnitude(0) = 0 /\ 0 * ScaleUp = 0 /\ 0 * ScaleDown = 0
          /\ (ScaleDown - 1) * 0 = 0 /\ 0 * (0 * ScaleUp) = 0
      BY <1>4, SMT DEF Magnitude
    <2>4. Between(0, 0, 0, 0, 0, 0)
      BY <1>4, SMT DEF Between
    <2> QED BY <2>1, <2>2, <2>3, <2>4
  <1>11. CASE ~Adds(state, quantity) /\ state.position + quantity # 0
                 /\ ~Reverses(state, quantity)
    <2>1. state'.position_cost = state.position_cost - AllocatedCost(state, quantity)
      BY <1>1, <1>3, <1>11, CostCases
    <2>2. state.position # 0 /\ Sign(state.position) # Sign(quantity)
      BY <1>11 DEF Adds
    <2>3. Sign(state.position + quantity) # -Sign(state.position)
      BY <1>11, <2>2 DEF Reverses
    <2>4. Magnitude(state'.position) = held - size /\ size <= held
      BY <1>3, <1>4, <2>2, <2>3, PositionMagnitudes
    <2>5. CloseQuantity(state, quantity) = size
      BY <1>4, <2>4 DEF CloseQuantity, Lesser
    <2>6. AllocatedCost(state, quantity) = TruncDiv(state.position_cost * size, held)
      BY <2>5 DEF AllocatedCost
    <2>7. held \in Nat \ {0}
      BY <1>4, <2>2 DEF Magnitude
    <2>8. /\ entry.low = history.low /\ entry.high = history.high
          /\ entry.adds = history.adds /\ entry.closes = history.closes + 1
      BY <1>3, <1>11, <2>2 DEF Entry
    <2>9. Magnitude(state'.position_cost) = cost - TruncDiv(cost * size, held)
      <3>1. CASE state.position_cost >= 0
        <4>1. cost = state.position_cost
          BY <1>4, <3>1 DEF Magnitude
        <4>2. /\ AllocatedCost(state, quantity) \in Int
              /\ state.position_cost - AllocatedCost(state, quantity) >= 0
          BY <1>1, <1>4, <2>2, <3>1, AllocatedCostRange
        <4>3. Magnitude(state'.position_cost)
                = state.position_cost - AllocatedCost(state, quantity)
          BY <1>4, <2>1, <4>2 DEF Magnitude
        <4> HIDE DEF cost, size, held
        <4>4. AllocatedCost(state, quantity) = TruncDiv(cost * size, held)
          BY <2>6, <4>1
        <4> QED
          BY <4>1, <4>3, <4>4
      <3>2. CASE state.position_cost < 0
        <4>1. cost = -state.position_cost
          BY <1>4, <3>2 DEF Magnitude
        <4>2. /\ AllocatedCost(state, quantity) \in Int
              /\ state.position_cost - AllocatedCost(state, quantity) <= 0
          BY <1>1, <1>4, <2>2, <3>2, AllocatedCostRange
        <4>3. state.position_cost * size = -(cost * size) /\ cost * size \in Nat
          BY <1>4, <4>1, SMT
        <4> DEFINE x == cost * size
        <4>4. x \in Nat /\ AllocatedCost(state, quantity) = TruncDiv(-x, held)
          BY <2>6, <4>3
        <4> HIDE DEF x, held
        <4>5. TruncDiv(-x, held) = -TruncDiv(x, held)
          <5>1. x = 0 => x \div held = 0
            BY <2>7, SMT
          <5>2. x \div held \in Int
            BY <2>7, <4>4, SMT
          <5> QED
            BY <4>4, <5>1, <5>2 DEF TruncDiv
        <4> HIDE DEF cost
        <4>6. TruncDiv(x, held) \in Int
          BY <2>7, <4>4, TruncDivRange
        <4>7. Magnitude(state'.position_cost)
                = -(state.position_cost - AllocatedCost(state, quantity))
          BY <1>4, <2>1, <4>2 DEF Magnitude
        <4> QED
          BY <1>4, <4>1, <4>2, <4>4, <4>5, <4>6, <4>7 DEF x
      <3> QED
        BY <1>4, <3>1, <3>2
    <2>10. /\ lost(history.adds) \in Nat /\ lost(history.closes) \in Nat
           /\ lost(entry.adds) = lost(history.adds)
           /\ lost(entry.closes) = lost(history.closes) + (ScaleDown - 1)
      BY <1>1, <1>6, <2>8
    <2> HIDE DEF held, cost, size, entry, lost
    <2>11. Between(cost - TruncDiv(cost * size, held), (held - size) * ScaleUp,
                   history.low, history.high,
                   lost(history.adds), lost(history.closes) + (ScaleDown - 1))
      BY <1>1, <1>4, <1>5, <2>4, <2>7, <2>10, ClosedBetween, Zenon
    <2> QED
      BY <2>4, <2>8, <2>9, <2>10, <2>11
  <1> QED
    BY <1>8, <1>9, <1>10, <1>11

LEMMA StepKeepsEntryPrices ==
    ASSUME LedgerInv, CostWithinEntryPrices, [Next]_vars
    PROVE  CostWithinEntryPrices'
  <1>1. ASSUME NEW quantity \in Quantities, NEW price \in Prices, NEW fee \in Fees,
               ApplyFill(quantity, price, fee)
        PROVE  CostWithinEntryPrices'
    <2>1. quantity \in Units /\ price \in Units /\ fee \in Units
      BY CallAssumption
    <2>2. CASE FillError(state, quantity, price, fee) = "ok"
      BY <1>1, <2>1, <2>2, FillKeepsEntryPrices
    <2>3. CASE FillError(state, quantity, price, fee) # "ok"
      BY <1>1, <2>3 DEF ApplyFill, AfterFill, CostWithinEntryPrices, Between
    <2> QED BY <2>2, <2>3
  <1>2. ASSUME NEW price \in Prices, MarkToMarket(price)
        PROVE  CostWithinEntryPrices'
    <2>1. /\ state'.position = state.position
          /\ state'.position_cost = state.position_cost
          /\ state'.average_entry_price = state.average_entry_price
          /\ history' = history
      BY <1>2 DEF MarkToMarket, AfterMark, Marked, LedgerInv, TypeOK, LedgerRecord
    <2> QED
      BY <2>1 DEF CostWithinEntryPrices, Between
  <1>3. CASE UNCHANGED vars
    BY <1>3 DEF vars, CostWithinEntryPrices, Between
  <1> QED BY <1>1, <1>2, <1>3 DEF Next

(* The entry price reported is one at which the position could have been     *)
(* built, but for less than one account unit for each fill that added and for *)
(* each partial close, whatever the scales and however many fills there were. *)
THEOREM LedgerAverageWithinEntryPrices == Spec => []AverageWithinEntryPrices
  <1>1. Init => CostWithinEntryPrices
    <2>1. /\ Magnitude(0) = 0 /\ 0 * ScaleUp = 0 /\ 0 * ScaleDown = 0
          /\ (ScaleDown - 1) * 0 = 0 /\ 0 * (0 * ScaleUp) = 0
      BY ScaleAssumption, SMT DEF Magnitude
    <2> QED
      BY <2>1 DEF Init, InitialLedger, CostWithinEntryPrices, Between, AveragePrice
  <1>2. LedgerInv /\ CostWithinEntryPrices /\ [Next]_vars => CostWithinEntryPrices'
    BY StepKeepsEntryPrices
  <1>3. LedgerInv /\ CostWithinEntryPrices => AverageWithinEntryPrices
    <2> SUFFICES ASSUME LedgerInv, CostWithinEntryPrices, state.position # 0
                 PROVE  LET units == Magnitude(state.position) * ScaleUp
                            price == state.average_entry_price
                        IN  /\ (price - history.high) * units
                                   <= (ScaleDown - 1) * history.closes
                            /\ (history.low - price) * units
                                   < units + (ScaleDown - 1) * history.adds
      BY DEF AverageWithinEntryPrices
    <2>1. /\ state.position \in Int /\ state.position_cost \in Int
          /\ history.low \in Int /\ history.high \in Int
          /\ history.adds \in Nat /\ history.closes \in Nat
      BY WidthAssumption DEF LedgerInv, TypeOK, LedgerRecord, Units, HistoryRecord
    <2>2. /\ Magnitude(state.position) \in Nat \ {0}
          /\ Magnitude(state.position_cost) \in Nat
      BY <2>1 DEF Magnitude
    <2>3. state.average_entry_price
            = TruncDiv(TruncDiv(Magnitude(state.position_cost) * ScaleDown, ScaleUp),
                       Magnitude(state.position))
      BY DEF CostWithinEntryPrices, AveragePrice
    <2>4. \A n \in Nat : (ScaleDown - 1) * n \in Nat
      BY ScaleAssumption, SMT
    <2>5. (ScaleDown - 1) * history.adds \in Nat /\ (ScaleDown - 1) * history.closes \in Nat
      BY <2>1, <2>4
    <2>6. Between(Magnitude(state.position_cost), Magnitude(state.position) * ScaleUp,
                  history.low, history.high,
                  (ScaleDown - 1) * history.adds, (ScaleDown - 1) * history.closes)
      BY DEF CostWithinEntryPrices
    <2> QED
      BY <2>1, <2>2, <2>3, <2>5, <2>6, AverageBetween
  <1> QED
    BY <1>1, <1>2, <1>3, LedgerInvariant, PTL DEF Spec
=============================================================================
