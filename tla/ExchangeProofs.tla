--------------------------- MODULE ExchangeProofs ---------------------------
(***************************************************************************)
(* Theorems about the exchange, for any events, requests, fees, latencies and *)
(* limits, and any number of orders.                                         *)
(*                                                                         *)
(* The totals are sums over the fill log and the passes of on_market_event are *)
(* recursive functions over the orders.  The first parts say how a sum grows   *)
(* and turn "every step of a pass stays in a set of books" into "the pass      *)
(* does"; then come what a step does to a book, the handlers and the theorems. *)
(***************************************************************************)
EXTENDS PaperExchange, TLAPS, FiniteSetTheorems, WellFoundedInduction

(* Induction over the natural numbers, with a set as the hypothesis. *)
LEMMA Induction ==
    ASSUME NEW P, 0 \in P, \A n \in Nat : n \in P => n + 1 \in P
    PROVE  Nat \subseteq P
<1> DEFINE T == Nat \ P
<1> SUFFICES ASSUME T # {} PROVE FALSE
  OBVIOUS
<1>1. PICK n \in T : \A k \in T : ~(k < n)
  <2>1. IsWellFoundedOn(OpToRel(<, Nat), Nat)
    BY NatLessThanWellFounded, Zenon
  <2>2. PICK n \in T : \A k \in T : <<k, n>> \notin OpToRel(<, Nat)
    BY <2>1, WFMin, Zenon
  <2> QED
    BY <2>2 DEF OpToRel
<1>2. n # 0 /\ n - 1 \in Nat /\ n - 1 \notin T
  BY <1>1
<1> QED
  BY <1>1, <1>2

-----------------------------------------------------------------------------
(* Sums. *)

LEMMA RestIsSmaller ==
    ASSUME NEW s, IsFiniteSet(s), NEW n \in Nat, Cardinality(s) = n + 1, NEW x \in s
    PROVE  Cardinality(s \ {x}) = n
BY FS_RemoveElement, FS_CardinalityType

(* g sums f over every subset of S, taking out one element after the other. *)
IsSum(f, S, g) ==
    g = [s \in SUBSET S |->
           IF s = {} THEN 0
           ELSE f[CHOOSE x \in s : TRUE] + g[s \ {CHOOSE x \in s : TRUE}]]

(* One element is taken out at a time. *)
LEMMA SumTaken ==
    ASSUME NEW f, NEW S, NEW g, IsSum(f, S, g)
    PROVE  /\ g[{}] = 0
           /\ \A s \in SUBSET S : s # {} =>
                 \E x \in s : g[s] = f[x] + g[s \ {x}]
<1>1. g[{}] = 0
  BY DEF IsSum
<1>2. ASSUME NEW s \in SUBSET S, s # {} PROVE \E x \in s : g[s] = f[x] + g[s \ {x}]
  <2> DEFINE c == CHOOSE x \in s : TRUE
  <2>1. c \in s
    BY <1>2
  <2>2. g[s] = f[c] + g[s \ {c}]
    BY <1>2 DEF IsSum
  <2> QED
    BY <2>1, <2>2
<1> QED
  BY <1>1, <1>2

LEMMA SumExists ==
    ASSUME NEW f, NEW S, IsFiniteSet(S)
    PROVE  \E g : IsSum(f, S, g)
<1> DEFINE Taken(g, s) ==
             IF s = {} THEN 0
             ELSE f[CHOOSE x \in s : TRUE] + g[s \ {CHOOSE x \in s : TRUE}]
           UpTo(n, g) ==
             /\ DOMAIN g = SUBSET S /\ g = [s \in SUBSET S |-> g[s]]
             /\ \A s \in SUBSET S : Cardinality(s) <= n => g[s] = Taken(g, s)
           P == {n \in Nat : \E g : UpTo(n, g)}
<1>1. \A s \in SUBSET S : IsFiniteSet(s) /\ Cardinality(s) \in Nat
  BY FS_Subset, FS_CardinalityType
<1>2. 0 \in P
  <2> DEFINE g == [s \in SUBSET S |-> 0]
  <2>1. ASSUME NEW s \in SUBSET S, Cardinality(s) <= 0 PROVE g[s] = Taken(g, s)
    <3>1. s = {}
      BY <1>1, <2>1, FS_EmptySet
    <3> QED
      BY <3>1
  <2>2. UpTo(0, g)
    BY <2>1
  <2> QED
    BY <2>2
<1>3. ASSUME NEW n \in Nat, n \in P PROVE n + 1 \in P
  <2>1. PICK h : UpTo(n, h)
    BY <1>3
  <2> DEFINE g == [s \in SUBSET S |-> IF Cardinality(s) = n + 1 THEN Taken(h, s) ELSE h[s]]
  <2>2. ASSUME NEW s \in SUBSET S, Cardinality(s) <= n + 1 PROVE g[s] = Taken(g, s)
    <3> DEFINE c == CHOOSE x \in s : TRUE
               rest == s \ {c}
    <3>1. CASE s = {}
      <4>1. Cardinality(s) = 0
        BY <3>1, FS_EmptySet
      <4>2. g[s] = h[s]
        BY <4>1
      <4>3. h[s] = 0
        <5>1. h[s] = Taken(h, s)
          <6>1. Cardinality(s) <= n
            BY <4>1
          <6> HIDE DEF Taken
          <6> QED
            BY <2>1, <6>1
        <5> QED
          BY <3>1, <5>1
      <4> HIDE DEF g
      <4> QED
        BY <3>1, <4>2, <4>3
    <3>2. CASE s # {}
      <4>1. c \in s
        BY <3>2
      <4>2. rest \in SUBSET S /\ Cardinality(rest) = Cardinality(s) - 1
        BY <1>1, <4>1, FS_RemoveElement
      <4>3. g[rest] = h[rest]
        BY <1>1, <2>2, <4>2
      <4>4. g[s] = Taken(h, s)
        <5>1. CASE Cardinality(s) = n + 1
          BY <5>1
        <5>2. CASE Cardinality(s) # n + 1
          <6>1. Cardinality(s) <= n
            BY <1>1, <2>2, <5>2
          <6>2. g[s] = h[s]
            BY <5>2
          <6> HIDE DEF g, Taken
          <6> QED
            BY <2>1, <6>1, <6>2
        <5> HIDE DEF g, Taken
        <5> QED
          BY <5>1, <5>2
      <4>5. Taken(h, s) = f[c] + h[rest]
        BY <3>2
      <4>6. Taken(g, s) = f[c] + g[rest]
        <5> HIDE DEF g
        <5> QED
          BY <3>2
      <4> HIDE DEF g, Taken, rest, c
      <4> QED
        BY <4>3, <4>4, <4>5, <4>6
    <3> QED
      BY <3>1, <3>2
  <2>3. UpTo(n + 1, g)
    <3>1. DOMAIN g = SUBSET S /\ g = [s \in SUBSET S |-> g[s]]
      OBVIOUS
    <3> HIDE DEF g, Taken
    <3> QED
      BY <2>2, <3>1
  <2> QED
    <3> HIDE DEF UpTo, g
    <3> QED
      BY <2>3
<1>4. Cardinality(S) \in P
  <2> HIDE DEF P
  <2> QED
    BY <1>1, <1>2, <1>3, Induction
<1>5. PICK g : UpTo(Cardinality(S), g)
  BY <1>4
<1>6. \A s \in SUBSET S : g[s] = Taken(g, s)
  <2>1. \A s \in SUBSET S : Cardinality(s) <= Cardinality(S)
    BY FS_Subset
  <2> HIDE DEF Taken
  <2> QED
    BY <1>5, <2>1
<1>7. g = [s \in SUBSET S |-> Taken(g, s)]
  <2> HIDE DEF Taken
  <2> QED
    BY <1>5, <1>6
<1> QED
  BY <1>7 DEF IsSum

LEMMA SumsAgree ==
    ASSUME NEW f, NEW S, IsFiniteSet(S), NEW g, IsSum(f, S, g),
           NEW h, NEW T, NEW k, IsSum(h, T, k)
    PROVE  \A s \in SUBSET S : s \subseteq T /\ (\A x \in s : f[x] = h[x]) => g[s] = k[s]
<1> DEFINE P == {n \in Nat : \A s \in SUBSET S :
                    /\ Cardinality(s) = n /\ s \subseteq T
                    /\ \A x \in s : f[x] = h[x]
                    => g[s] = k[s]}
<1>1. \A s \in SUBSET S : IsFiniteSet(s) /\ Cardinality(s) \in Nat
  BY FS_Subset, FS_CardinalityType
<1>2. 0 \in P
  <2>1. \A s \in SUBSET S : Cardinality(s) = 0 => s = {}
    BY <1>1, FS_EmptySet
  <2>2. g[{}] = 0 /\ k[{}] = 0
    BY SumTaken
  <2> QED
    BY <2>1, <2>2
<1>3. ASSUME NEW n \in Nat, n \in P PROVE n + 1 \in P
  <2>1. ASSUME NEW s \in SUBSET S, Cardinality(s) = n + 1, s \subseteq T,
               \A x \in s : f[x] = h[x]
        PROVE  g[s] = k[s]
    <3> DEFINE c == CHOOSE x \in s : TRUE
               rest == s \ {c}
    <3>1. s # {}
      BY <2>1, FS_EmptySet
    <3>2. c \in s
      BY <3>1
    <3>3. rest \in SUBSET S /\ Cardinality(rest) = n
      BY <1>1, <2>1, <3>2, RestIsSmaller
    <3>4. g[rest] = k[rest]
      BY <1>3, <2>1, <3>3
    <3>5. g[s] = f[c] + g[rest] /\ k[s] = h[c] + k[rest]
      BY <2>1, <3>1 DEF IsSum
    <3> HIDE DEF c, rest
    <3> QED
      BY <2>1, <3>2, <3>4, <3>5
  <2> QED
    BY <2>1
<1>4. Nat \subseteq P
  <2> HIDE DEF P
  <2> QED
    BY <1>2, <1>3, Induction
<1> QED
  BY <1>1, <1>4

LEMMA SumIsInt ==
    ASSUME NEW f, NEW S, IsFiniteSet(S), NEW g, IsSum(f, S, g), \A x \in S : f[x] \in Int
    PROVE  \A s \in SUBSET S : g[s] \in Int
<1> DEFINE P == {n \in Nat : \A s \in SUBSET S : Cardinality(s) = n => g[s] \in Int}
<1>1. \A s \in SUBSET S : IsFiniteSet(s) /\ Cardinality(s) \in Nat
  BY FS_Subset, FS_CardinalityType
<1>2. 0 \in P
  <2>1. \A s \in SUBSET S : Cardinality(s) = 0 => s = {}
    BY <1>1, FS_EmptySet
  <2>2. g[{}] = 0
    BY SumTaken
  <2> QED
    BY <2>1, <2>2
<1>3. ASSUME NEW n \in Nat, n \in P PROVE n + 1 \in P
  <2>1. ASSUME NEW s \in SUBSET S, Cardinality(s) = n + 1 PROVE g[s] \in Int
    <3>1. s # {}
      BY <2>1, FS_EmptySet
    <3>2. PICK x \in s : g[s] = f[x] + g[s \ {x}]
      BY <3>1, SumTaken
    <3>3. s \ {x} \in SUBSET S /\ Cardinality(s \ {x}) = n
      BY <1>1, <2>1, RestIsSmaller
    <3> QED
      BY <1>3, <3>2, <3>3
  <2> QED
    BY <2>1
<1>4. Nat \subseteq P
  <2> HIDE DEF P
  <2> QED
    BY <1>2, <1>3, Induction
<1> QED
  BY <1>1, <1>4

(* The order in which the elements are taken out does not matter. *)
LEMMA SumAnyOrder ==
    ASSUME NEW f, NEW S, IsFiniteSet(S), NEW g, IsSum(f, S, g), \A x \in S : f[x] \in Int
    PROVE  \A s \in SUBSET S : \A y \in s : g[s] = f[y] + g[s \ {y}]
<1> DEFINE P == {n \in Nat : \A s \in SUBSET S : Cardinality(s) = n =>
                    \A y \in s : g[s] = f[y] + g[s \ {y}]}
<1>1. \A s \in SUBSET S : IsFiniteSet(s) /\ Cardinality(s) \in Nat /\ g[s] \in Int
  BY FS_Subset, FS_CardinalityType, SumIsInt
<1>2. 0 \in P
  <2>1. \A s \in SUBSET S : Cardinality(s) = 0 => s = {}
    BY <1>1, FS_EmptySet
  <2> QED
    BY <2>1
<1>3. ASSUME NEW n \in Nat, n \in P PROVE n + 1 \in P
  <2>1. ASSUME NEW s \in SUBSET S, Cardinality(s) = n + 1, NEW y \in s
        PROVE  g[s] = f[y] + g[s \ {y}]
    <3>1. PICK x \in s : g[s] = f[x] + g[s \ {x}]
      BY SumTaken
    <3>2. CASE x # y
      <4> DEFINE rest == s \ {x, y}
      <4>1. /\ s \ {x} \in SUBSET S /\ Cardinality(s \ {x}) = n
            /\ s \ {y} \in SUBSET S /\ Cardinality(s \ {y}) = n
        BY <1>1, <2>1, RestIsSmaller
      <4>2. /\ (s \ {x}) \ {y} = rest /\ (s \ {y}) \ {x} = rest /\ rest \in SUBSET S
            /\ y \in s \ {x} /\ x \in s \ {y}
        BY <3>2
      <4>3. g[s \ {x}] = f[y] + g[rest]
        BY <1>3, <4>1, <4>2
      <4>4. g[s \ {y}] = f[x] + g[rest]
        BY <1>3, <4>1, <4>2
      <4>5. f[x] \in Int /\ f[y] \in Int /\ g[rest] \in Int
        BY <1>1, <4>2
      <4> HIDE DEF rest
      <4> QED
        BY <3>1, <4>3, <4>4, <4>5
    <3> QED
      BY <3>1, <3>2
  <2> QED
    BY <2>1
<1>4. Nat \subseteq P
  <2> HIDE DEF P
  <2> QED
    BY <1>2, <1>3, Induction
<1> QED
  BY <1>1, <1>4

LEMMA SumIsSum ==
    ASSUME NEW f, NEW S, IsFiniteSet(S)
    PROVE  \E g : IsSum(f, S, g) /\ SumFunctionOnSet(f, S) = g[S]
<1> DEFINE g == CHOOSE g : IsSum(f, S, g)
<1>1. IsSum(f, S, g)
  <2> HIDE DEF IsSum
  <2> QED
    BY SumExists
<1>2. SumFunctionOnSet(f, S) = g[S]
  BY DEF SumFunctionOnSet, FoldFunctionOnSet, MapThenFoldSet, IsSum
<1> QED
  <2> HIDE DEF g
  <2> QED
    BY <1>1, <1>2

LEMMA SumOfNothing ==
    ASSUME NEW f
    PROVE  SumFunctionOnSet(f, {}) = 0
<1>1. PICK g : IsSum(f, {}, g) /\ SumFunctionOnSet(f, {}) = g[{}]
  BY SumIsSum, FS_EmptySet
<1> QED
  BY <1>1, SumTaken

(* A sum reads a function only where it sums. *)
LEMMA SumReads ==
    ASSUME NEW f, NEW h, NEW S, IsFiniteSet(S), \A x \in S : f[x] = h[x]
    PROVE  SumFunctionOnSet(f, S) = SumFunctionOnSet(h, S)
<1>1. PICK g : IsSum(f, S, g) /\ SumFunctionOnSet(f, S) = g[S]
  BY SumIsSum
<1>2. PICK k : IsSum(h, S, k) /\ SumFunctionOnSet(h, S) = k[S]
  BY SumIsSum
<1>3. g[S] = k[S]
  BY <1>1, <1>2, SumsAgree
<1> QED
  BY <1>1, <1>2, <1>3

LEMMA SumAdds ==
    ASSUME NEW f, NEW S, IsFiniteSet(S), NEW x, x \notin S, \A y \in S \cup {x} : f[y] \in Int
    PROVE  /\ SumFunctionOnSet(f, S) \in Int
           /\ SumFunctionOnSet(f, S \cup {x}) = SumFunctionOnSet(f, S) + f[x]
<1> DEFINE T == S \cup {x}
<1>1. IsFiniteSet(T) /\ S \in SUBSET T /\ S \in SUBSET S /\ T \ {x} = S
  BY FS_AddElement
<1> HIDE DEF T
<1>2. PICK g : IsSum(f, S, g) /\ SumFunctionOnSet(f, S) = g[S]
  BY SumIsSum
<1>3. PICK k : IsSum(f, T, k) /\ SumFunctionOnSet(f, T) = k[T]
  BY <1>1, SumIsSum
<1>4. g[S] = k[S]
  BY <1>1, <1>2, <1>3, SumsAgree
<1>5. \A y \in T : f[y] \in Int
  BY DEF T
<1>6. k[T] = f[x] + k[S]
  BY <1>1, <1>3, <1>5, SumAnyOrder DEF T
<1>7. k[S] \in Int /\ f[x] \in Int
  BY <1>1, <1>3, <1>5, SumIsInt DEF T
<1> QED
  BY <1>2, <1>3, <1>4, <1>6, <1>7 DEF T

(* h has the terms of f on S, and one more. *)
AddsTerm(f, h, S, x) ==
    /\ IsFiniteSet(S) /\ x \notin S
    /\ \A y \in S \cup {x} : h[y] \in Int
    /\ \A y \in S : h[y] = f[y]

LEMMA SumGrows ==
    ASSUME NEW f, NEW h, NEW S, NEW x, AddsTerm(f, h, S, x)
    PROVE  SumFunctionOnSet(h, S \cup {x}) = SumFunctionOnSet(f, S) + h[x]
<1>1. SumFunctionOnSet(h, S \cup {x}) = SumFunctionOnSet(h, S) + h[x]
  <2>1. IsFiniteSet(S) /\ x \notin S /\ \A y \in S \cup {x} : h[y] \in Int
    BY DEF AddsTerm
  <2> QED
    BY <2>1, SumAdds, Zenon
<1>2. SumFunctionOnSet(h, S) = SumFunctionOnSet(f, S)
  <2>1. IsFiniteSet(S) /\ \A y \in S : h[y] = f[y]
    BY DEF AddsTerm
  <2> QED
    BY <2>1, SumReads, Zenon
<1> QED
  BY <1>1, <1>2

-----------------------------------------------------------------------------
(* Passes. *)

(* g is the run of the step function F over 1 .. n that begins with first. *)
IsRun(S, first, n, F, g) ==
    /\ g \in [0 .. n -> S]
    /\ g[0] = first
    /\ \A i \in 1 .. n : g[i] = F[<<g[i - 1], i>>]

LEMMA RunExists ==
    ASSUME NEW S, NEW first, NEW n, NEW F,
           first \in S, n \in Nat, F \in [S \X (1 .. n) -> S]
    PROVE  \E g : IsRun(S, first, n, F, g)
<1> DEFINE P == {k \in Nat : k <= n => \E g : IsRun(S, first, k, F, g)}
<1>1. 0 \in P
  <2>1. IsRun(S, first, 0, F, [i \in 0 .. 0 |-> first])
    BY DEF IsRun
  <2> QED
    BY <2>1
<1>2. ASSUME NEW k \in Nat, k \in P PROVE k + 1 \in P
  <2> SUFFICES ASSUME k + 1 <= n PROVE \E g : IsRun(S, first, k + 1, F, g)
    OBVIOUS
  <2>1. PICK g : IsRun(S, first, k, F, g)
    BY <1>2
  <2>2. /\ g \in [0 .. k -> S] /\ g[0] = first
        /\ \A i \in 1 .. k : g[i] = F[<<g[i - 1], i>>]
    BY <2>1 DEF IsRun
  <2> DEFINE h == [i \in 0 .. k + 1 |-> IF i = k + 1 THEN F[<<g[k], k + 1>>] ELSE g[i]]
  <2>3. h \in [0 .. k + 1 -> S] /\ h[0] = first
    BY <2>2
  <2>4. ASSUME NEW i \in 1 .. k + 1 PROVE h[i] = F[<<h[i - 1], i>>]
    <3>1. h[i - 1] = g[i - 1]
      OBVIOUS
    <3>2. i = k + 1 => h[i] = F[<<g[k], i>>]
      OBVIOUS
    <3>3. i # k + 1 => i \in 1 .. k /\ h[i] = g[i]
      OBVIOUS
    <3> HIDE DEF h
    <3> QED
      BY <2>2, <3>1, <3>2, <3>3
  <2> HIDE DEF h
  <2> QED
    BY <2>3, <2>4 DEF IsRun
<1> QED
  <2>1. n \in P
    <3> HIDE DEF P
    <3> QED
      BY <1>1, <1>2, Induction
  <2> QED
    BY <2>1

(* A pass that begins in a set and whose steps stay in it ends in it. *)
LEMMA PassStays ==
    ASSUME NEW S, NEW n \in Nat, NEW pass, pass[0] \in S,
           \A i \in 1 .. n : pass[i - 1] \in S => pass[i] \in S
    PROVE  pass[n] \in S
<1> DEFINE P == {k \in Nat : k <= n => pass[k] \in S}
<1>1. 0 \in P /\ \A k \in Nat : k \in P => k + 1 \in P
  OBVIOUS
<1>2. n \in P
  <2> HIDE DEF P
  <2> QED
    BY <1>1, Induction
<1> QED
  BY <1>2

(* The steps of the activation pass. *)
IsActivation(pass, book, event) ==
    /\ pass[0] = book
    /\ \A i \in 1 .. Len(book.orders) :
          pass[i] = IF DueToActivate(pass[i - 1].orders[i], event)
                    THEN Activate(pass[i - 1], i, event) ELSE pass[i - 1]
    /\ ActivationPass(book, event) = pass[Len(book.orders)]

LEMMA ActivationPassRuns ==
    ASSUME NEW S, NEW book, book \in S, NEW event, Len(book.orders) \in Nat,
           \A b \in S : \A i \in 1 .. Len(book.orders) :
              DueToActivate(b.orders[i], event) => Activate(b, i, event) \in S
    PROVE  \E pass : IsActivation(pass, book, event)
<1> DEFINE n == Len(book.orders)
           Step(b, i) == IF DueToActivate(b.orders[i], event) THEN Activate(b, i, event) ELSE b
           F == [x \in S \X (1 .. n) |-> Step(x[1], x[2])]
           IsPass(g) ==
             g = [i \in 0 .. n |->
                    IF i = 0 THEN book
                    ELSE IF DueToActivate(g[i - 1].orders[i], event)
                         THEN Activate(g[i - 1], i, event)
                         ELSE g[i - 1]]
           pass == CHOOSE g : IsPass(g)
<1>1. ActivationPass(book, event) = pass[n]
  BY DEF ActivationPass
<1>2. F \in [S \X (1 .. n) -> S]
  OBVIOUS
<1>3. PICK g : IsRun(S, book, n, F, g)
  <2> HIDE DEF F
  <2> QED
    BY <1>2, RunExists
<1>4. IsPass(g)
  <2>1. /\ g \in [0 .. n -> S] /\ g[0] = book
        /\ \A i \in 1 .. n : g[i] = F[<<g[i - 1], i>>]
    <3> HIDE DEF F
    <3> QED
      BY <1>3 DEF IsRun
  <2>2. ASSUME NEW i \in 1 .. n PROVE g[i] = Step(g[i - 1], i)
    <3>1. <<g[i - 1], i>> \in S \X (1 .. n)
      BY <2>1
    <3>2. F[<<g[i - 1], i>>] = Step(g[i - 1], i)
      BY <3>1
    <3> HIDE DEF F
    <3> QED
      BY <2>1, <3>2
  <2>3. \A i \in 0 .. n : i = 0 \/ i \in 1 .. n
    OBVIOUS
  <2> HIDE DEF F, n
  <2> QED
    BY <2>1, <2>2, <2>3
<1>5. IsPass(pass)
  <2> HIDE DEF IsPass
  <2> QED
    BY <1>4
<1>6. /\ pass[0] = book
      /\ \A i \in 1 .. n : pass[i] = Step(pass[i - 1], i)
  <2> HIDE DEF pass
  <2>1. pass[0] = book
    BY <1>5
  <2>2. ASSUME NEW i \in 1 .. n PROVE pass[i] = Step(pass[i - 1], i)
    <3>1. i \in 0 .. n /\ i # 0
      OBVIOUS
    <3> HIDE DEF n
    <3> QED
      BY <1>5, <3>1
  <2> QED
    BY <2>1, <2>2
<1> QED
  <2> HIDE DEF pass
  <2> QED
    BY <1>1, <1>6 DEF IsActivation

LEMMA ActivationPassStays ==
    ASSUME NEW S, NEW book, book \in S, NEW event, Len(book.orders) \in Nat,
           \A b \in S : \A i \in 1 .. Len(book.orders) :
              DueToActivate(b.orders[i], event) => Activate(b, i, event) \in S
    PROVE  ActivationPass(book, event) \in S
<1> DEFINE n == Len(book.orders)
<1>1. PICK pass : IsActivation(pass, book, event)
  BY ActivationPassRuns
<1>2. /\ pass[0] \in S
      /\ \A i \in 1 .. n : pass[i - 1] \in S => pass[i] \in S
      /\ ActivationPass(book, event) = pass[n]
  BY <1>1 DEF IsActivation
<1> HIDE DEF n
<1>3. n \in Nat
  BY DEF n
<1>4. pass[n] \in S
  BY <1>2, <1>3, PassStays
<1> QED
  BY <1>2, <1>4

LEMMA MatchPassStays ==
    ASSUME NEW S, NEW book, NEW event, Len(book.orders) \in Nat,
           HasTrade(event),
           [book |-> book, available |-> event.trade_quantity] \in S,
           \A p \in S : \A i \in 1 .. Len(book.orders) :
              p.available > 0 /\ Matchable(p.book.orders[i], event)
                => MatchOrder(p.book, p.available, i, event) \in S
    PROVE  \E p \in S : MatchPass(book, event) = p.book
<1> DEFINE n == Len(book.orders)
           first == [book |-> book, available |-> event.trade_quantity]
           Step(p, i) ==
             IF p.available > 0 /\ Matchable(p.book.orders[i], event)
             THEN MatchOrder(p.book, p.available, i, event) ELSE p
           F == [x \in S \X (1 .. n) |-> Step(x[1], x[2])]
           IsPass(g) ==
             g = [i \in 0 .. n |->
                    IF i = 0 THEN first
                    ELSE LET before == g[i - 1]
                         IN  IF before.available > 0 /\ Matchable(before.book.orders[i], event)
                             THEN MatchOrder(before.book, before.available, i, event)
                             ELSE before]
           pass == CHOOSE g : IsPass(g)
<1>1. MatchPass(book, event) = pass[n].book
  BY DEF MatchPass
<1>2. F \in [S \X (1 .. n) -> S]
  OBVIOUS
<1>3. PICK g : IsRun(S, first, n, F, g)
  <2> HIDE DEF F, first
  <2>1. first \in S
    BY DEF first
  <2> QED
    BY <1>2, <2>1, RunExists
<1>4. IsPass(g)
  <2>1. /\ g \in [0 .. n -> S] /\ g[0] = first
        /\ \A i \in 1 .. n : g[i] = F[<<g[i - 1], i>>]
    <3> HIDE DEF F, first
    <3> QED
      BY <1>3 DEF IsRun
  <2>2. ASSUME NEW i \in 1 .. n PROVE g[i] = Step(g[i - 1], i)
    <3>1. <<g[i - 1], i>> \in S \X (1 .. n)
      BY <2>1
    <3>2. F[<<g[i - 1], i>>] = Step(g[i - 1], i)
      BY <3>1
    <3> HIDE DEF F
    <3> QED
      BY <2>1, <3>2
  <2>3. \A i \in 0 .. n : i = 0 \/ i \in 1 .. n
    OBVIOUS
  <2> HIDE DEF F, n, first
  <2> QED
    BY <2>1, <2>2, <2>3
<1>5. IsPass(pass)
  <2> HIDE DEF IsPass
  <2> QED
    BY <1>4
<1>6. /\ pass[0] = first
      /\ \A i \in 1 .. n : pass[i] = Step(pass[i - 1], i)
  <2> HIDE DEF pass, first
  <2>1. pass[0] = first
    BY <1>5
  <2>2. ASSUME NEW i \in 1 .. n PROVE pass[i] = Step(pass[i - 1], i)
    <3>1. i \in 0 .. n /\ i # 0
      OBVIOUS
    <3> HIDE DEF n
    <3> QED
      BY <1>5, <3>1
  <2> QED
    BY <2>1, <2>2
<1>7. \A i \in 1 .. n : pass[i - 1] \in S => pass[i] \in S
  <2> HIDE DEF pass
  <2> QED
    BY <1>6
<1>8. pass[n] \in S
  <2> HIDE DEF pass, n
  <2>1. n \in Nat
    BY DEF n
  <2> QED
    BY <1>6, <1>7, <2>1, PassStays
<1> QED
  <2> HIDE DEF pass
  <2> QED
    BY <1>1, <1>8

-----------------------------------------------------------------------------
(* Books. *)

(* Client ids are the callers', or, in the programs, the sequence of an event.  *)
Ids == {request.id : request \in Requests} \cup Nat

Statuses == {"pending", "open", "partially_filled", "cancel_pending"} \cup Terminal

OrderRecords ==
    [request : OrderRequests(Ids), status : Statuses, remaining : Nat, filled : Nat,
     queue_ahead : Int, active_time : Int, cancel_due : Int \cup {None}]

FillRecords ==
    [order_id : Nat, market_sequence : Nat, side : Sides, quantity : Nat \ {0},
     price : Int, fee : Nat, maker : BOOLEAN, realized_pnl : Int]

Ledgers ==
    [cash : Int, position : Int, position_cost : Int,
     average_entry_price : Int, realized_pnl : Int, unrealized_pnl : Int,
     total_fee : Int, equity : Int, last_mark_price : Int]

Books == [orders : Seq(OrderRecords), fills : Seq(FillRecords), ledger : Ledgers]

(* No event shows a negative quantity.  parse_row of the replay refuses one     *)
(* (astra_replay/main.cpp); the exchange itself and the live feed do not.      *)
QuantitiesShown ==
    \A event \in Events : event.bid_quantity >= 0 /\ event.ask_quantity >= 0

(* Events of a feed that may be held to that. *)
ShownEvents ==
    {event \in MarketEvents :
        QuantitiesShown => event.bid_quantity >= 0 /\ event.ask_quantity >= 0}

LEMMA FeedShows == Events \subseteq ShownEvents
BY ExchangeAssumption DEF ShownEvents, QuantitiesShown

(* What one order says of itself: its quantity is split between what was filled, *)
(* what remains and, once it is cancelled, what was given up.                  *)
OrderInv(order) ==
    /\ order \in OrderRecords
    /\ order.request.type # "market" => order.request.limit_price \in Int
    /\ order.status = "cancel_pending" => order.cancel_due \in Int
    /\ order.status = "cancelled" =>
          order.remaining = 0 /\ order.filled < order.request.quantity
    /\ order.status # "cancelled" =>
          order.filled + order.remaining = order.request.quantity
    /\ order.status = "filled" => order.remaining = 0
    /\ order.status \notin {"filled", "cancelled"} => order.remaining > 0
    /\ order.status = "partially_filled" => order.filled > 0
    /\ order.status \in {"pending", "open"} => order.filled = 0
    /\ QuantitiesShown => order.queue_ahead >= 0

(* What a limit order accepts. *)
Honours(request, side, price, maker) ==
    /\ side = request.side
    /\ request.type # "market" =>
          /\ side = "buy" => price <= request.limit_price
          /\ side = "sell" => price >= request.limit_price
          /\ request.type = "post_only" => maker

FillInv(fill, ordered) ==
    /\ fill.order_id \in DOMAIN ordered
    /\ Honours(ordered[fill.order_id].request, fill.side, fill.price, fill.maker)

(* Cash is the deposit with what was realised and paid, equity is what it is worth. *)
Bookkept(account) ==
    /\ account.cash = InitialLedger.cash + account.realized_pnl - account.total_fee
    /\ account.equity = account.cash + account.unrealized_pnl

(* The fill log, the ledger and the orders tell the same story. *)
Balanced(book) ==
    /\ Bookkept(book.ledger)
    /\ book.ledger.position = SumFunction(SignedQuantities(book.fills))
    /\ book.ledger.realized_pnl = SumFunction(RealizedPnls(book.fills))
    /\ book.ledger.total_fee = SumFunction(Fees(book.fills))
    /\ \A i \in DOMAIN book.orders :
          book.orders[i].filled
            = SumFunctionOnSet(Quantities(book.fills), FillsOf(book.fills, i))

BookInv(book) ==
    /\ book \in Books
    /\ \A i \in DOMAIN book.orders : OrderInv(book.orders[i])
    /\ \A n \in DOMAIN book.fills : FillInv(book.fills[n], book.orders)

(* What the passes do to one order: they leave an ended one alone and do not     *)
(* cancel.                                                                  *)
Advances(before, after) ==
    /\ after.request = before.request
    /\ after.active_time = before.active_time
    /\ after.cancel_due = before.cancel_due
    /\ before.status \in Terminal => after = before
    /\ after.status = "cancelled" => before.status = "cancelled"

(* A maker fill is at the order's own price, against the aggressor. *)
OnTape(request, price, maker, event) ==
    maker => price = request.limit_price /\ request.side # event.aggressor

FillOn(fill, order, event) ==
    /\ fill.market_sequence = event.sequence
    /\ event.receive_time >= order.active_time
    /\ OnTape(order.request, fill.price, fill.maker, event)

(* What they do to a book on an event. *)
Progress(b, c, event) ==
    /\ DOMAIN c.orders = DOMAIN b.orders
    /\ \A i \in DOMAIN b.orders : Advances(b.orders[i], c.orders[i])
    /\ \A n \in DOMAIN b.fills : n \in DOMAIN c.fills /\ c.fills[n] = b.fills[n]
    /\ \A n \in DOMAIN c.fills \ DOMAIN b.fills :
          FillOn(c.fills[n], c.orders[c.fills[n].order_id], event)

Reaches(b, c, event) ==
    /\ BookInv(c)
    /\ Progress(b, c, event)
    /\ Balanced(b) => Balanced(c)

(* Books with the same fills and totals balance alike. *)
LEMMA BalanceKept ==
    ASSUME NEW b, Balanced(b), NEW c, c.fills = b.fills,
           c.ledger.position = b.ledger.position,
           c.ledger.realized_pnl = b.ledger.realized_pnl,
           c.ledger.total_fee = b.ledger.total_fee,
           Bookkept(b.ledger) => Bookkept(c.ledger),
           DOMAIN c.orders = DOMAIN b.orders,
           \A i \in DOMAIN b.orders : c.orders[i].filled = b.orders[i].filled
    PROVE  Balanced(c)
BY DEF Balanced

(* A fill that is logged, counted in its order and booked keeps the balance. *)
LEMMA BalanceLogged ==
    ASSUME NEW b, Balanced(b), b.fills \in Seq(FillRecords), NEW c,
           NEW fill \in FillRecords, c.fills = Append(b.fills, fill),
           c.ledger.position = b.ledger.position + SignedQuantity(fill.side, fill.quantity),
           c.ledger.realized_pnl = b.ledger.realized_pnl + fill.realized_pnl,
           c.ledger.total_fee = b.ledger.total_fee + fill.fee,
           Bookkept(b.ledger) => Bookkept(c.ledger),
           DOMAIN c.orders = DOMAIN b.orders,
           \A i \in DOMAIN b.orders :
              c.orders[i].filled
                = b.orders[i].filled + (IF fill.order_id = i THEN fill.quantity ELSE 0),
           \A i \in DOMAIN b.orders : b.orders[i].filled \in Int
    PROVE  Balanced(c)
<1> DEFINE last == Len(b.fills) + 1
           D == DOMAIN b.fills
<1>1. /\ DOMAIN c.fills = D \cup {last} /\ last \notin D /\ IsFiniteSet(D)
      /\ c.fills[last] = fill /\ \A n \in D : c.fills[n] = b.fills[n]
      /\ \A n \in D \cup {last} : c.fills[n] \in FillRecords
  <2>1. D = 1 .. Len(b.fills) /\ Len(b.fills) \in Nat
    OBVIOUS
  <2>2. IsFiniteSet(D)
    BY <2>1, FS_Interval
  <2> QED
    BY <2>1, <2>2
<1> HIDE DEF last, D
<1>2. \A n \in D \cup {last} :
         /\ SignedQuantities(c.fills)[n] \in Int /\ RealizedPnls(c.fills)[n] \in Int
         /\ Fees(c.fills)[n] \in Int /\ Quantities(c.fills)[n] \in Int
  <2>1. ASSUME NEW entry \in FillRecords
        PROVE  /\ entry.quantity \in Int /\ entry.realized_pnl \in Int /\ entry.fee \in Int
               /\ SignedQuantity(entry.side, entry.quantity) \in Int
    BY DEF FillRecords, SignedQuantity
  <2>2. \A n \in D \cup {last} :
          /\ SignedQuantities(c.fills)[n]
               = SignedQuantity(c.fills[n].side, c.fills[n].quantity)
          /\ RealizedPnls(c.fills)[n] = c.fills[n].realized_pnl
          /\ Fees(c.fills)[n] = c.fills[n].fee
          /\ Quantities(c.fills)[n] = c.fills[n].quantity
    BY <1>1 DEF SignedQuantities, RealizedPnls, Fees, Quantities
  <2> QED
    BY <1>1, <2>1, <2>2
<1>3. \A n \in D :
         /\ SignedQuantities(c.fills)[n] = SignedQuantities(b.fills)[n]
         /\ RealizedPnls(c.fills)[n] = RealizedPnls(b.fills)[n]
         /\ Fees(c.fills)[n] = Fees(b.fills)[n]
         /\ Quantities(c.fills)[n] = Quantities(b.fills)[n]
  BY <1>1 DEF SignedQuantities, RealizedPnls, Fees, Quantities, D
<1>4. /\ SignedQuantities(c.fills)[last] = SignedQuantity(fill.side, fill.quantity)
      /\ RealizedPnls(c.fills)[last] = fill.realized_pnl
      /\ Fees(c.fills)[last] = fill.fee /\ Quantities(c.fills)[last] = fill.quantity
  BY <1>1 DEF SignedQuantities, RealizedPnls, Fees, Quantities
<1>5. \A log : /\ DOMAIN SignedQuantities(log) = DOMAIN log
               /\ DOMAIN RealizedPnls(log) = DOMAIN log /\ DOMAIN Fees(log) = DOMAIN log
  BY DEF SignedQuantities, RealizedPnls, Fees
<1>6. c.ledger.position = SumFunction(SignedQuantities(c.fills))
  <2>1. SumFunctionOnSet(SignedQuantities(c.fills), D \cup {last})
          = SumFunctionOnSet(SignedQuantities(b.fills), D)
              + SignedQuantities(c.fills)[last]
    <3>1. AddsTerm(SignedQuantities(b.fills), SignedQuantities(c.fills), D, last)
      BY <1>1, <1>2, <1>3 DEF AddsTerm
    <3> QED
      BY <3>1, SumGrows
  <2> QED
    BY <1>1, <1>4, <1>5, <2>1 DEF Balanced, SumFunction, D
<1>7. c.ledger.realized_pnl = SumFunction(RealizedPnls(c.fills))
  <2>1. SumFunctionOnSet(RealizedPnls(c.fills), D \cup {last})
          = SumFunctionOnSet(RealizedPnls(b.fills), D) + RealizedPnls(c.fills)[last]
    <3>1. AddsTerm(RealizedPnls(b.fills), RealizedPnls(c.fills), D, last)
      BY <1>1, <1>2, <1>3 DEF AddsTerm
    <3> QED
      BY <3>1, SumGrows
  <2> QED
    BY <1>1, <1>4, <1>5, <2>1 DEF Balanced, SumFunction, D
<1>8. c.ledger.total_fee = SumFunction(Fees(c.fills))
  <2>1. SumFunctionOnSet(Fees(c.fills), D \cup {last})
          = SumFunctionOnSet(Fees(b.fills), D) + Fees(c.fills)[last]
    <3>1. AddsTerm(Fees(b.fills), Fees(c.fills), D, last)
      BY <1>1, <1>2, <1>3 DEF AddsTerm
    <3> QED
      BY <3>1, SumGrows
  <2> QED
    BY <1>1, <1>4, <1>5, <2>1 DEF Balanced, SumFunction, D
<1>9. ASSUME NEW i \in DOMAIN c.orders
      PROVE  c.orders[i].filled
               = SumFunctionOnSet(Quantities(c.fills), FillsOf(c.fills, i))
  <2> DEFINE own == FillsOf(b.fills, i)
  <2>1. own \subseteq D /\ IsFiniteSet(own)
    BY <1>1, FS_Subset DEF FillsOf, D
  <2>2. b.orders[i].filled = SumFunctionOnSet(Quantities(b.fills), own)
    BY DEF Balanced
  <2>3. CASE fill.order_id = i
    <3>1. FillsOf(c.fills, i) = own \cup {last}
      BY <1>1, <2>3 DEF FillsOf, D
    <3>2. SumFunctionOnSet(Quantities(c.fills), own \cup {last})
            = SumFunctionOnSet(Quantities(b.fills), own) + Quantities(c.fills)[last]
      <4> HIDE DEF own
      <4>1. AddsTerm(Quantities(b.fills), Quantities(c.fills), own, last)
        BY <1>1, <1>2, <1>3, <2>1 DEF AddsTerm
      <4> QED
        BY <4>1, SumGrows
    <3> QED
      BY <1>4, <2>2, <2>3, <3>1, <3>2
  <2>4. CASE fill.order_id # i
    <3>1. FillsOf(c.fills, i) = own
      BY <1>1, <2>4 DEF FillsOf, D
    <3>2. SumFunctionOnSet(Quantities(c.fills), own)
            = SumFunctionOnSet(Quantities(b.fills), own)
      <4> HIDE DEF own
      <4> QED
        BY <1>3, <2>1, SumReads
    <3> QED
      BY <2>2, <2>4, <3>1, <3>2
  <2> QED
    BY <2>3, <2>4
<1> QED
  BY <1>6, <1>7, <1>8, <1>9 DEF Balanced

LEMMA ReachesItself ==
    ASSUME NEW b, BookInv(b), NEW event
    PROVE  Reaches(b, b, event)
BY DEF Reaches, Progress, Advances

LEMMA ReachesOn ==
    ASSUME NEW a, NEW b, NEW c, NEW event, Reaches(a, b, event), Reaches(b, c, event)
    PROVE  Reaches(a, c, event)
<1>1. BookInv(b) /\ BookInv(c) /\ Progress(a, b, event) /\ Progress(b, c, event)
  BY DEF Reaches
<1>2. DOMAIN c.orders = DOMAIN a.orders /\ DOMAIN b.orders = DOMAIN a.orders
  BY <1>1 DEF Progress
<1>3. ASSUME NEW i \in DOMAIN a.orders PROVE Advances(a.orders[i], c.orders[i])
  <2>1. Advances(a.orders[i], b.orders[i]) /\ Advances(b.orders[i], c.orders[i])
    BY <1>1, <1>2 DEF Progress
  <2> QED
    BY <2>1 DEF Advances
<1>4. \A n \in DOMAIN a.fills : n \in DOMAIN c.fills /\ c.fills[n] = a.fills[n]
  BY <1>1 DEF Progress
<1>5. ASSUME NEW n \in DOMAIN c.fills \ DOMAIN a.fills
      PROVE  FillOn(c.fills[n], c.orders[c.fills[n].order_id], event)
  <2>1. CASE n \in DOMAIN b.fills
    <3>1. c.fills[n] = b.fills[n] /\ FillOn(b.fills[n], b.orders[b.fills[n].order_id], event)
      BY <1>1, <2>1 DEF Progress
    <3>2. b.fills[n].order_id \in DOMAIN b.orders
      BY <1>1, <2>1 DEF BookInv, FillInv
    <3>3. LET i == b.fills[n].order_id
          IN  /\ c.orders[i].active_time = b.orders[i].active_time
              /\ c.orders[i].request = b.orders[i].request
      BY <1>1, <3>2 DEF Progress, Advances
    <3> QED
      BY <3>1, <3>3 DEF FillOn
  <2>2. CASE n \notin DOMAIN b.fills
    BY <1>1, <2>2 DEF Progress
  <2> QED
    BY <2>1, <2>2
<1> QED
  BY <1>1, <1>2, <1>3, <1>4, <1>5 DEF Reaches, Progress

(* One order is replaced. *)
LEMMA Replaces ==
    ASSUME NEW b, BookInv(b), NEW i \in DOMAIN b.orders, NEW event,
           NEW order, OrderInv(order), Advances(b.orders[i], order), NEW c,
           c = [orders |-> [b.orders EXCEPT ![i] = order],
                fills |-> b.fills, ledger |-> b.ledger]
    PROVE  BookInv(c) /\ Progress(b, c, event)
<1>1. b.orders \in Seq(OrderRecords) /\ b \in Books /\ order \in OrderRecords
  BY DEF BookInv, Books, OrderInv
<1>2. /\ c.orders = [b.orders EXCEPT ![i] = order]
      /\ c.fills = b.fills /\ c.ledger = b.ledger
  OBVIOUS
<1>3. /\ c.orders \in Seq(OrderRecords) /\ DOMAIN c.orders = DOMAIN b.orders
      /\ c.orders[i] = order
      /\ \A j \in DOMAIN b.orders : j # i => c.orders[j] = b.orders[j]
  BY <1>1
<1>4. c \in Books
  BY <1>1, <1>3 DEF Books
<1>5. \A j \in DOMAIN b.orders : Advances(b.orders[j], c.orders[j])
  <2>1. \A j \in DOMAIN b.orders : j # i => Advances(b.orders[j], c.orders[j])
    BY <1>3 DEF Advances
  <2> QED
    BY <1>3, <2>1
<1>6. BookInv(c)
  <2>1. \A j \in DOMAIN c.orders : OrderInv(c.orders[j])
    BY <1>3 DEF BookInv
  <2>2. ASSUME NEW n \in DOMAIN c.fills PROVE FillInv(c.fills[n], c.orders)
    <3>1. FillInv(b.fills[n], b.orders)
      BY <1>2 DEF BookInv
    <3>2. c.orders[b.fills[n].order_id].request = b.orders[b.fills[n].order_id].request
      BY <1>5, <3>1 DEF FillInv, Advances
    <3> QED
      BY <1>2, <1>3, <3>1, <3>2 DEF FillInv
  <2> QED
    BY <1>4, <2>1, <2>2 DEF BookInv
<1> QED
  BY <1>2, <1>3, <1>5, <1>6 DEF Progress

LEMMA ReplaceReaches ==
    ASSUME NEW b, BookInv(b), NEW i \in DOMAIN b.orders, NEW event,
           NEW order, OrderInv(order), Advances(b.orders[i], order),
           order.filled = b.orders[i].filled
    PROVE  Reaches(b, [orders |-> [b.orders EXCEPT ![i] = order],
                       fills |-> b.fills, ledger |-> b.ledger], event)
<1> DEFINE c == [orders |-> [b.orders EXCEPT ![i] = order],
                 fills |-> b.fills, ledger |-> b.ledger]
<1>1. /\ c.fills = b.fills /\ c.ledger = b.ledger /\ DOMAIN c.orders = DOMAIN b.orders
      /\ \A j \in DOMAIN b.orders : c.orders[j].filled = b.orders[j].filled
  BY DEF BookInv, Books
<1> HIDE DEF c
<1>2. BookInv(c) /\ Progress(b, c, event)
  BY Replaces DEF c
<1>3. Balanced(b) => Balanced(c)
  BY <1>1, BalanceKept
<1> QED
  BY <1>2, <1>3 DEF Reaches, c

(* One order is replaced and a fill of it logged. *)
LEMMA LogReaches ==
    ASSUME NEW b, BookInv(b), NEW i \in DOMAIN b.orders, NEW event,
           NEW order, OrderInv(order), Advances(b.orders[i], order),
           NEW fill \in FillRecords, fill.order_id = i,
           Honours(order.request, fill.side, fill.price, fill.maker),
           FillOn(fill, order, event), NEW after \in Ledgers,
           order.filled = b.orders[i].filled + fill.quantity,
           after.position
             = b.ledger.position + SignedQuantity(fill.side, fill.quantity),
           after.realized_pnl = b.ledger.realized_pnl + fill.realized_pnl,
           after.total_fee = b.ledger.total_fee + fill.fee,
           Bookkept(b.ledger) => Bookkept(after)
    PROVE  Reaches(b, [orders |-> [b.orders EXCEPT ![i] = order],
                       fills |-> Append(b.fills, fill), ledger |-> after], event)
<1> DEFINE d == [orders |-> [b.orders EXCEPT ![i] = order],
                 fills |-> b.fills, ledger |-> b.ledger]
           c == [orders |-> [b.orders EXCEPT ![i] = order],
                 fills |-> Append(b.fills, fill), ledger |-> after]
           last == Len(b.fills) + 1
<1>1. BookInv(d) /\ Progress(b, d, event)
  <2> HIDE DEF d
  <2> QED
    BY Replaces DEF d
<1>2. b.fills \in Seq(FillRecords) /\ b.orders \in Seq(OrderRecords)
  BY DEF BookInv, Books
<1>3. /\ c.orders = d.orders /\ d.fills = b.fills /\ c.ledger = after
      /\ c.fills = Append(b.fills, fill)
      /\ d.orders[i] = order /\ i \in DOMAIN d.orders
      /\ DOMAIN d.orders = DOMAIN b.orders
      /\ \A j \in DOMAIN b.orders : j # i => d.orders[j] = b.orders[j]
  BY <1>2
<1> HIDE DEF c, d
<1>4. /\ c.fills \in Seq(FillRecords) /\ last \in Nat
      /\ DOMAIN c.fills = DOMAIN b.fills \cup {last} /\ c.fills[last] = fill
      /\ \A n \in DOMAIN b.fills : c.fills[n] = b.fills[n]
  BY <1>2, <1>3
<1>5. FillInv(fill, c.orders) /\ FillOn(fill, c.orders[fill.order_id], event)
  BY <1>3 DEF FillInv
<1>6. c \in Books
  <2>1. d.orders \in Seq(OrderRecords)
    BY <1>1 DEF BookInv, Books
  <2>2. c = [orders |-> d.orders, fills |-> c.fills, ledger |-> after]
    BY DEF c, d
  <2> QED
    BY <1>4, <2>1, <2>2 DEF Books
<1>7. \A n \in DOMAIN c.fills : FillInv(c.fills[n], c.orders)
  <2>1. \A n \in DOMAIN b.fills : FillInv(b.fills[n], c.orders)
    BY <1>1, <1>3 DEF BookInv
  <2> QED
    BY <1>4, <1>5, <2>1
<1>8. BookInv(c)
  BY <1>1, <1>3, <1>6, <1>7 DEF BookInv
<1>9. Progress(b, c, event)
  BY <1>1, <1>3, <1>4, <1>5 DEF Progress
<1>10. \A j \in DOMAIN b.orders : b.orders[j].filled \in Int
  BY DEF BookInv, OrderInv, OrderRecords
<1>11. \A j \in DOMAIN b.orders :
          c.orders[j].filled
            = b.orders[j].filled + (IF fill.order_id = j THEN fill.quantity ELSE 0)
  BY <1>3, <1>10
<1>12. Balanced(b) => Balanced(c)
  BY <1>2, <1>3, <1>10, <1>11, BalanceLogged
<1> QED
  BY <1>8, <1>9, <1>12 DEF Reaches, c

-----------------------------------------------------------------------------
(* Amounts are integers. *)

LEMMA TruncDivInt ==
    ASSUME NEW x \in Int, NEW y \in Nat \ {0}
    PROVE  TruncDiv(x, y) \in Int
<1>1. \A n \in Nat : n \div y \in Int
  BY SMT
<1> QED
  BY <1>1 DEF TruncDiv

LEMMA NotionalInt ==
    ASSUME NEW quantity \in Int, NEW price \in Int
    PROVE  Notional(quantity, price) \in Int
<1>1. Magnitude(quantity) * price * ScaleUp \in Int /\ ScaleDown \in Nat \ {0}
  BY ScaleAssumption DEF Magnitude
<1> HIDE DEF Magnitude
<1> QED
  BY <1>1, TruncDivInt DEF Notional

LEMMA RealizedInt ==
    ASSUME NEW s \in Ledgers, NEW quantity \in Int, NEW price \in Int
    PROVE  Realized(s, quantity, price) \in Int
<1>1. CASE Adds(s, quantity)
  BY <1>1 DEF Realized
<1>2. CASE ~Adds(s, quantity)
  <2>1. s.position \in Int /\ s.position # 0 /\ s.position_cost \in Int
    BY <1>2 DEF Adds, Ledgers
  <2>2. CloseQuantity(s, quantity) \in Int /\ Magnitude(s.position) \in Nat \ {0}
    BY <2>1 DEF CloseQuantity, Lesser, Magnitude
  <2>3. AllocatedCost(s, quantity) \in Int
    <3>1. s.position_cost * CloseQuantity(s, quantity) \in Int
      BY <2>1, <2>2
    <3> QED
      BY <2>2, <3>1, TruncDivInt DEF AllocatedCost
  <2>4. Notional(CloseQuantity(s, quantity), price) \in Int
    BY <2>2, NotionalInt
  <2>5. Magnitude(AllocatedCost(s, quantity)) \in Int /\ Sign(s.position) \in {-1, 0, 1}
    BY <2>1, <2>3 DEF Magnitude, Sign
  <2>6. Realized(s, quantity, price)
          = Sign(s.position) * (Notional(CloseQuantity(s, quantity), price)
                                 - Magnitude(AllocatedCost(s, quantity)))
    BY <1>2 DEF Realized
  <2> QED
    BY <2>4, <2>5, <2>6
<1> QED
  BY <1>1, <1>2

LEMMA UnitsAreInts == Units \subseteq Int
BY WidthAssumption DEF Units

(* What an accepted fill does to the totals of the ledger. *)
LEMMA FillOutcome ==
    ASSUME NEW s \in Ledgers, NEW quantity \in Int, NEW price \in Int, NEW fee \in Int,
           FillError(s, quantity, price, fee) = "ok",
           NEW t, t = AfterFill(s, quantity, price, fee)
    PROVE  /\ t \in Ledgers
           /\ quantity # 0 /\ price > 0 /\ fee >= 0
           /\ t.position = s.position + quantity
           /\ t.realized_pnl = s.realized_pnl + Realized(s, quantity, price)
           /\ t.total_fee = s.total_fee + fee
           /\ Bookkept(s) => Bookkept(t)
<1> DEFINE c == Candidate(s, quantity, price, fee)
<1>1. /\ quantity # 0 /\ price > 0 /\ fee >= 0
      /\ FillFits(s, quantity, price, fee)
  BY DEF FillError
<1>2. c \in LedgerRecord /\ Fits(MarkedPnl(c, price)) /\ Fits(c.cash + MarkedPnl(c, price))
  BY <1>1 DEF FillFits, MarkFits
<1>3. t = Marked(c, price)
  BY DEF AfterFill
<1>4. /\ c.position = s.position + quantity
      /\ c.realized_pnl = s.realized_pnl + Realized(s, quantity, price)
      /\ c.total_fee = s.total_fee + fee
      /\ c.cash = s.cash + Realized(s, quantity, price) - fee
  BY DEF Candidate, Ledgers
<1> HIDE DEF c
<1>5. c \in Ledgers
  BY <1>2, UnitsAreInts DEF LedgerRecord, Ledgers
<1>6. MarkedPnl(c, price) \in Int /\ c.cash + MarkedPnl(c, price) \in Int
  BY <1>2, UnitsAreInts DEF Fits
<1>7. /\ t \in Ledgers
      /\ t.position = c.position /\ t.realized_pnl = c.realized_pnl
      /\ t.total_fee = c.total_fee /\ t.cash = c.cash
      /\ t.equity = t.cash + t.unrealized_pnl
  BY <1>3, <1>5, <1>6 DEF Marked, Ledgers
<1>8. ASSUME Bookkept(s) PROVE Bookkept(t)
  <2>1. Realized(s, quantity, price) \in Int
    BY RealizedInt
  <2>2. s.realized_pnl \in Int /\ s.total_fee \in Int /\ InitialLedger.cash \in Int
    BY CashAssumption, UnitsAreInts DEF Ledgers, InitialLedger
  <2>3. s.cash = InitialLedger.cash + s.realized_pnl - s.total_fee
    BY <1>8 DEF Bookkept
  <2>4. t.cash = InitialLedger.cash + t.realized_pnl - t.total_fee
    BY <1>4, <1>7, <2>1, <2>2, <2>3
  <2> QED
    BY <1>7, <2>4 DEF Bookkept
<1> QED
  BY <1>1, <1>4, <1>7, <1>8

LEMMA MarkOutcome ==
    ASSUME NEW s \in Ledgers, NEW price \in Int, NEW t, t = AfterMark(s, price)
    PROVE  /\ t \in Ledgers
           /\ t.position = s.position /\ t.realized_pnl = s.realized_pnl
           /\ t.total_fee = s.total_fee
           /\ Bookkept(s) => Bookkept(t)
<1>1. CASE MarkToMarketError(s, price) = "ok"
  <2>1. MarkFits(s, price)
    BY <1>1 DEF MarkToMarketError, MarkError
  <2>2. MarkedPnl(s, price) \in Int /\ s.cash + MarkedPnl(s, price) \in Int
    BY <2>1, UnitsAreInts DEF MarkFits, Fits
  <2> QED
    BY <1>1, <2>2 DEF AfterMark, Marked, Ledgers, Bookkept
<1>2. CASE MarkToMarketError(s, price) # "ok"
  BY <1>2 DEF AfterMark
<1> QED
  BY <1>1, <1>2

-----------------------------------------------------------------------------
(* fill. *)

LEMMA ExecutedReaches ==
    ASSUME NEW b, BookInv(b), NEW i \in DOMAIN b.orders, NEW event \in MarketEvents,
           b.orders[i].status \notin Terminal,
           event.receive_time >= b.orders[i].active_time,
           NEW quantity \in Nat \ {0}, quantity <= b.orders[i].remaining,
           NEW price \in Int, NEW maker \in BOOLEAN,
           Honours(b.orders[i].request, b.orders[i].request.side, price, maker),
           OnTape(b.orders[i].request, price, maker, event),
           ~FillRefused(b, i, quantity, price, maker)
    PROVE  Reaches(b, Executed(b, i, quantity, price, maker, event), event)
<1> DEFINE before == b.orders[i]
           side == before.request.side
           signed == SignedQuantity(side, quantity)
           fee == Fee(quantity, price, maker)
           order == [before EXCEPT
                       !.remaining = before.remaining - quantity,
                       !.filled = before.filled + quantity,
                       !.status = IF before.remaining = quantity THEN "filled"
                                  ELSE "partially_filled"]
           fill == [order_id |-> i, market_sequence |-> event.sequence, side |-> side,
                    quantity |-> quantity, price |-> price, fee |-> fee, maker |-> maker,
                    realized_pnl |-> Realized(b.ledger, signed, price)]
           after == AfterFill(b.ledger, signed, price, fee)
<1>1. /\ OrderInv(before) /\ before \in OrderRecords /\ b.ledger \in Ledgers
      /\ b.orders \in Seq(OrderRecords)
  BY DEF BookInv, Books, OrderInv
<1>2. /\ side \in Sides /\ before.remaining \in Nat /\ before.filled \in Nat
      /\ before.request.quantity \in Int /\ before.status \in Statuses
  BY <1>1 DEF OrderRecords, OrderRequests
<1>3. signed \in Int
  BY <1>2 DEF SignedQuantity
<1>4. fee \in Int /\ FillError(b.ledger, signed, price, fee) = "ok"
  BY UnitsAreInts DEF FillRefused, Fits
<1>5. /\ after \in Ledgers /\ fee \in Nat
      /\ after.position = b.ledger.position + signed
      /\ after.realized_pnl = b.ledger.realized_pnl + Realized(b.ledger, signed, price)
      /\ after.total_fee = b.ledger.total_fee + fee
      /\ Bookkept(b.ledger) => Bookkept(after)
  <2> HIDE DEF after, fee, signed
  <2> QED
    BY <1>1, <1>3, <1>4, FillOutcome DEF after
<1>6. Realized(b.ledger, signed, price) \in Int
  <2> HIDE DEF signed
  <2> QED
    BY <1>1, <1>3, RealizedInt
<1>7. /\ order \in OrderRecords
      /\ order.request = before.request /\ order.active_time = before.active_time
      /\ order.cancel_due = before.cancel_due /\ order.queue_ahead = before.queue_ahead
      /\ order.remaining = before.remaining - quantity
      /\ order.filled = before.filled + quantity
      /\ order.status = IF before.remaining = quantity THEN "filled" ELSE "partially_filled"
  <2> DEFINE status == IF before.remaining = quantity THEN "filled" ELSE "partially_filled"
             remaining == before.remaining - quantity
             filled == before.filled + quantity
  <2>1. status \in Statuses /\ remaining \in Nat /\ filled \in Nat
    BY <1>2 DEF Statuses, Terminal
  <2> HIDE DEF status, remaining, filled
  <2>2. order = [before EXCEPT !.remaining = remaining, !.filled = filled, !.status = status]
    BY DEF status, remaining, filled
  <2> HIDE DEF order, before
  <2>3. /\ order \in OrderRecords
        /\ order.request = before.request /\ order.active_time = before.active_time
        /\ order.cancel_due = before.cancel_due /\ order.queue_ahead = before.queue_ahead
        /\ order.remaining = remaining /\ order.filled = filled /\ order.status = status
    BY <1>1, <2>1, <2>2 DEF OrderRecords
  <2> QED
    BY <2>3 DEF status, remaining, filled
<1>8. fill \in FillRecords
  <2>1. event.sequence \in Nat /\ i \in Nat
    BY <1>1 DEF MarketEvents
  <2> HIDE DEF fee, signed, side
  <2> QED
    BY <1>2, <1>5, <1>6, <2>1 DEF FillRecords
<1> HIDE DEF order
<1>9. OrderInv(order)
  <2>1. /\ before.filled + before.remaining = before.request.quantity
        /\ quantity <= before.remaining
    BY <1>1 DEF OrderInv, Terminal
  <2>2. /\ order.filled + order.remaining = order.request.quantity
        /\ order.filled > 0
        /\ order.status = "filled" => order.remaining = 0
        /\ order.status # "filled" => order.remaining > 0
        /\ order.status \in {"filled", "partially_filled"}
    <3> HIDE DEF before
    <3> QED
      BY <1>2, <1>7, <2>1
  <2> HIDE DEF before, fill, after
  <2> QED
    BY <1>1, <1>7, <2>2 DEF OrderInv
<1>10. Advances(before, order)
  BY <1>7 DEF Advances, Terminal
<1>11. /\ fill.order_id = i /\ FillOn(fill, order, event)
       /\ Honours(order.request, fill.side, fill.price, fill.maker)
  BY <1>7 DEF FillOn
<1>12. Executed(b, i, quantity, price, maker, event)
         = [orders |-> [b.orders EXCEPT ![i] = order],
            fills |-> Append(b.fills, fill), ledger |-> after]
  <2>1. [b.orders EXCEPT ![i].remaining = @ - quantity,
                         ![i].filled = @ + quantity,
                         ![i].status = IF before.remaining = quantity THEN "filled"
                                       ELSE "partially_filled"]
          = [b.orders EXCEPT ![i] = order]
    BY <1>1 DEF OrderRecords, order
  <2> QED
    BY <2>1 DEF Executed
<1>13. /\ order.filled = before.filled + fill.quantity
       /\ after.position = b.ledger.position + SignedQuantity(fill.side, fill.quantity)
       /\ after.realized_pnl = b.ledger.realized_pnl + fill.realized_pnl
       /\ after.total_fee = b.ledger.total_fee + fill.fee
  <2> HIDE DEF after, fee, before
  <2> QED
    BY <1>5, <1>7
<1> HIDE DEF fill, after, before
<1>14. order.filled = b.orders[i].filled + fill.quantity /\ Advances(b.orders[i], order)
  BY <1>10, <1>13 DEF before
<1>15. Reaches(b, [orders |-> [b.orders EXCEPT ![i] = order],
                   fills |-> Append(b.fills, fill), ledger |-> after], event)
  BY <1>5, <1>8, <1>9, <1>11, <1>13, <1>14, LogReaches
<1> QED
  BY <1>12, <1>15

(* How a field of one order is assigned. *)
LEMMA BookWithOrders ==
    ASSUME NEW b \in Books, NEW ordered
    PROVE  [b EXCEPT !.orders = ordered]
              = [orders |-> ordered, fills |-> b.fills, ledger |-> b.ledger]
BY DEF Books

(* A refused order keeps what it was filled. *)
LEMMA RejectReaches ==
    ASSUME NEW b, BookInv(b), NEW i \in DOMAIN b.orders, NEW event,
           b.orders[i].status \notin Terminal
    PROVE  Reaches(b, WithStatus(b, i, "rejected"), event)
<1> DEFINE before == b.orders[i]
           order == [before EXCEPT !.status = "rejected"]
<1>1. OrderInv(before) /\ before \in OrderRecords /\ b \in Books
  BY DEF BookInv, OrderInv
<1>2. /\ order \in OrderRecords /\ order.status = "rejected"
      /\ order.request = before.request /\ order.active_time = before.active_time
      /\ order.cancel_due = before.cancel_due /\ order.queue_ahead = before.queue_ahead
      /\ order.remaining = before.remaining /\ order.filled = before.filled
  BY <1>1 DEF OrderRecords, Statuses, Terminal
<1>3. WithStatus(b, i, "rejected")
        = [orders |-> [b.orders EXCEPT ![i] = order], fills |-> b.fills, ledger |-> b.ledger]
  BY <1>1, BookWithOrders DEF WithStatus
<1> HIDE DEF order
<1>4. OrderInv(order) /\ Advances(before, order)
  BY <1>1, <1>2 DEF OrderInv, Advances, Terminal
<1> QED
  BY <1>2, <1>3, <1>4, ReplaceReaches

LEMMA FillReaches ==
    ASSUME NEW b, BookInv(b), NEW i \in DOMAIN b.orders, NEW event \in MarketEvents,
           b.orders[i].status \notin Terminal,
           event.receive_time >= b.orders[i].active_time,
           NEW offered \in Int, NEW price \in Int, NEW maker \in BOOLEAN,
           Honours(b.orders[i].request, b.orders[i].request.side, price, maker),
           OnTape(b.orders[i].request, price, maker, event)
    PROVE  Reaches(b, Fill(b, i, offered, price, maker, event), event)
<1> DEFINE quantity == Lesser(offered, b.orders[i].remaining)
<1>1. b.orders[i].remaining \in Nat
  BY DEF BookInv, OrderInv, OrderRecords
<1>2. quantity \in Int /\ quantity <= b.orders[i].remaining
  BY <1>1 DEF Lesser
<1> HIDE DEF quantity
<1>3. CASE quantity <= 0
  BY <1>3, ReachesItself DEF Fill, quantity
<1>4. CASE quantity > 0 /\ FillRefused(b, i, quantity, price, maker)
  <2>1. Fill(b, i, offered, price, maker, event) = WithStatus(b, i, "rejected")
    BY <1>2, <1>4 DEF Fill, quantity
  <2> QED
    BY <2>1, RejectReaches
<1>5. CASE quantity > 0 /\ ~FillRefused(b, i, quantity, price, maker)
  <2>1. Fill(b, i, offered, price, maker, event)
          = Executed(b, i, quantity, price, maker, event)
    BY <1>2, <1>5 DEF Fill, quantity
  <2>2. quantity \in Nat \ {0}
    BY <1>2, <1>5
  <2> QED
    BY <1>2, <1>5, <2>1, <2>2, ExecutedReaches
<1> QED
  BY <1>2, <1>3, <1>4, <1>5

-----------------------------------------------------------------------------
(* activate. *)

LEMMA SlippedInt ==
    ASSUME NEW side, NEW top, CanSlip(side, top)
    PROVE  SlippedPrice(side, top) \in Int
BY UnitsAreInts DEF CanSlip, Fits

(* An order that joins the book behind what is displayed there. *)
Joined(b, i, queue) ==
    [b EXCEPT !.orders[i].queue_ahead = queue,
              !.orders[i].status = IF b.orders[i].status = "cancel_pending"
                                   THEN "cancel_pending" ELSE "open"]

LEMMA JoinReaches ==
    ASSUME NEW b, BookInv(b), NEW i \in DOMAIN b.orders, NEW event,
           b.orders[i].status \in {"pending", "cancel_pending"}, NEW queue \in Int,
           QuantitiesShown => queue >= 0
    PROVE  Reaches(b, Joined(b, i, queue), event)
<1> DEFINE before == b.orders[i]
           status == IF before.status = "cancel_pending" THEN "cancel_pending" ELSE "open"
           order == [before EXCEPT !.queue_ahead = queue, !.status = status]
<1>1. OrderInv(before) /\ before \in OrderRecords /\ b \in Books
  BY DEF BookInv, OrderInv
<1>2. status \in Statuses
  BY DEF Statuses
<1>3. [b EXCEPT !.orders[i].queue_ahead = queue, !.orders[i].status = status]
        = [orders |-> [b.orders EXCEPT ![i] = order], fills |-> b.fills, ledger |-> b.ledger]
  <2> DEFINE first == [before EXCEPT !.queue_ahead = queue]
             c == [orders |-> [b.orders EXCEPT ![i] = first],
                   fills |-> b.fills, ledger |-> b.ledger]
  <2> HIDE DEF status
  <2>1. b.orders \in Seq(OrderRecords) /\ first \in OrderRecords
    BY <1>1 DEF Books, OrderRecords
  <2>2. [b EXCEPT !.orders[i].queue_ahead = queue] = c
    BY <1>1, BookWithOrders
  <2>3. c \in Books /\ c.orders[i] = first
    BY <1>1, <2>1 DEF Books
  <2>4. [c EXCEPT !.orders[i].status = status]
          = [orders |-> [c.orders EXCEPT ![i] = [c.orders[i] EXCEPT !.status = status]],
             fills |-> c.fills, ledger |-> c.ledger]
    <3> HIDE DEF c
    <3> QED
      BY <2>3, BookWithOrders
  <2>5. [first EXCEPT !.status = status] = order
    OBVIOUS
  <2>6. [c.orders EXCEPT ![i] = order] = [b.orders EXCEPT ![i] = order]
    <3> HIDE DEF first, order
    <3> QED
      BY <2>1
  <2>7. [b EXCEPT !.orders[i].queue_ahead = queue, !.orders[i].status = status]
          = [c EXCEPT !.orders[i].status = status]
    <3> HIDE DEF c
    <3> QED
      BY <2>2
  <2> QED
    <3> HIDE DEF first, order
    <3> QED
      BY <2>3, <2>4, <2>5, <2>6, <2>7
<1>4. /\ order \in OrderRecords /\ order.status = status /\ order.queue_ahead = queue
      /\ order.request = before.request /\ order.active_time = before.active_time
      /\ order.cancel_due = before.cancel_due
      /\ order.remaining = before.remaining /\ order.filled = before.filled
  <2> HIDE DEF status, before
  <2> QED
    BY <1>1, <1>2 DEF OrderRecords
<1> HIDE DEF order
<1>5. OrderInv(order) /\ Advances(before, order)
  BY <1>1, <1>4 DEF OrderInv, Advances, Terminal
<1> QED
  BY <1>3, <1>4, <1>5, ReplaceReaches DEF Joined

LEMMA ActivateReaches ==
    ASSUME NEW b, BookInv(b), NEW i \in DOMAIN b.orders, NEW event \in ShownEvents, event \in MarketEvents,
           b.orders[i].status \in {"pending", "cancel_pending"}
    PROVE  Reaches(b, Activate(b, i, event), event)
<1> DEFINE order == b.orders[i]
           request == order.request
           side == request.side
<1>1. OrderInv(order) /\ order \in OrderRecords /\ order.status \notin Terminal
  BY DEF BookInv, OrderInv, Terminal
<1>2. /\ side \in Sides /\ order.remaining \in Int /\ order.queue_ahead \in Int
      /\ request.type \in {"market", "limit", "post_only"}
      /\ Top(side, event) \in Int
      /\ event.bid_quantity \in Int /\ event.ask_quantity \in Int
  BY <1>1 DEF OrderRecords, OrderRequests, MarketEvents, Top, Sides
<1> HIDE DEF order
<1>3. CASE event.receive_time < order.active_time
  BY <1>3, ReachesItself DEF Activate, order
<1>4. CASE ~(event.receive_time < order.active_time) /\ request.type = "market"
  <2>1. Activate(b, i, event) = ActivateMarket(b, i, event)
    BY <1>1, <1>4 DEF Activate, order
  <2>2. event.receive_time >= order.active_time
    BY <1>1, <1>4 DEF MarketEvents, OrderRecords
  <2>3. CASE CanSlip(side, Top(side, event))
    <3>1. /\ SlippedPrice(side, Top(side, event)) \in Int
          /\ Honours(request, side, SlippedPrice(side, Top(side, event)), FALSE)
          /\ OnTape(request, SlippedPrice(side, Top(side, event)), FALSE, event)
      BY <1>4, <2>3, SlippedInt DEF Honours, OnTape
    <3>2. Activate(b, i, event)
            = Fill(b, i, order.remaining, SlippedPrice(side, Top(side, event)), FALSE, event)
      BY <2>1, <2>3 DEF ActivateMarket, order
    <3> QED
      BY <1>1, <1>2, <2>2, <3>1, <3>2, FillReaches DEF order
  <2>4. CASE ~CanSlip(side, Top(side, event))
    BY <1>1, <2>1, <2>4, RejectReaches DEF ActivateMarket, order
  <2> QED
    BY <2>3, <2>4
<1>5. CASE ~(event.receive_time < order.active_time) /\ request.type # "market"
  <2>1. Activate(b, i, event) = ActivateLimit(b, i, event)
    BY <1>1, <1>5 DEF Activate, order
  <2>2. event.receive_time >= order.active_time
    BY <1>1, <1>5 DEF MarketEvents, OrderRecords
  <2>3. CASE Crosses(request, event) /\ request.type = "post_only"
    BY <1>1, <2>1, <2>3, RejectReaches DEF ActivateLimit, order
  <2>4. CASE Crosses(request, event) /\ request.type # "post_only"
    <3>3. OnTape(request, Top(side, event), FALSE, event)
      BY DEF OnTape
    <3>1. Honours(request, side, Top(side, event), FALSE)
      <4>1. side = "buy" => Top(side, event) <= request.limit_price
        BY <1>1, <1>5, <2>4 DEF Crosses, Top, OrderInv, MarketEvents
      <4>2. side = "sell" => Top(side, event) >= request.limit_price
        BY <1>1, <1>5, <2>4 DEF Crosses, Top, OrderInv, MarketEvents
      <4> QED
        BY <2>4, <4>1, <4>2 DEF Honours
    <3>2. Activate(b, i, event)
            = Fill(b, i, order.remaining, Top(side, event), FALSE, event)
      BY <2>1, <2>4 DEF ActivateLimit, order
    <3> QED
      BY <1>1, <1>2, <2>2, <3>1, <3>2, <3>3, FillReaches DEF order
  <2>5. CASE ~Crosses(request, event)
    <3>1. QueueAhead(order, event) \in Int
      BY <1>2 DEF QueueAhead
    <3>3. QuantitiesShown => QueueAhead(order, event) >= 0
      BY <1>1 DEF QueueAhead, ShownEvents, OrderInv
    <3>2. Activate(b, i, event) = Joined(b, i, QueueAhead(order, event))
      BY <2>1, <2>5 DEF ActivateLimit, Joined, order
    <3> QED
      BY <3>1, <3>2, <3>3, JoinReaches
  <2> QED
    BY <2>3, <2>4, <2>5
<1> QED
  BY <1>3, <1>4, <1>5

-----------------------------------------------------------------------------
(* on_market_event. *)

LEMMA ActivationReaches ==
    ASSUME NEW b, BookInv(b), NEW event \in ShownEvents, event \in MarketEvents
    PROVE  Reaches(b, ActivationPass(b, event), event)
<1> DEFINE S == {c \in Books : Reaches(b, c, event)}
<1>1. b.orders \in Seq(OrderRecords) /\ b \in S
  BY ReachesItself DEF BookInv, Books
<1>2. ASSUME NEW c \in S, NEW i \in 1 .. Len(b.orders), DueToActivate(c.orders[i], event)
      PROVE  Activate(c, i, event) \in S
  <2>1. Reaches(b, c, event) /\ BookInv(c) /\ i \in DOMAIN c.orders
    BY <1>1 DEF Reaches, Progress
  <2>2. Reaches(c, Activate(c, i, event), event)
    BY <1>2, <2>1, ActivateReaches DEF DueToActivate
  <2> QED
    BY <2>1, <2>2, ReachesOn DEF Reaches, BookInv
<1>3. ActivationPass(b, event) \in S
  <2> HIDE DEF S
  <2> QED
    BY <1>1, <1>2, ActivationPassStays
<1> QED
  BY <1>3

(* An order is matched in two steps: the queue before it, then its own share.   *)
MatchedVia(b, available, i, event, queued, matched) ==
    LET order == b.orders[i]
        consumed == Lesser(order.queue_ahead, available)
        left == available - consumed
        quantity == Lesser(order.remaining, left)
        filled == Fill(queued, i, quantity, order.request.limit_price, TRUE, event)
    IN  /\ queued.orders
             = [b.orders EXCEPT ![i] = [order EXCEPT !.queue_ahead = @ - consumed]]
        /\ queued.fills = b.fills
        /\ Reaches(b, queued, event)
        /\ Reaches(queued, filled, event)
        /\ matched = IF left <= 0 THEN [book |-> queued, available |-> left]
                     ELSE [book |-> filled, available |-> left - quantity]

LEMMA MatchSteps ==
    ASSUME NEW b, BookInv(b), NEW i \in DOMAIN b.orders, NEW event \in ShownEvents, event \in MarketEvents,
           Matchable(b.orders[i], event), NEW available \in Int
    PROVE  \E queued : MatchedVia(b, available, i, event, queued,
                                  MatchOrder(b, available, i, event))
<1> DEFINE before == b.orders[i]
           consumed == Lesser(before.queue_ahead, available)
           left == available - consumed
           order == [before EXCEPT !.queue_ahead = before.queue_ahead - consumed]
           queued == [orders |-> [b.orders EXCEPT ![i] = order],
                      fills |-> b.fills, ledger |-> b.ledger]
           quantity == Lesser(before.remaining, left)
<1>1. OrderInv(before) /\ before \in OrderRecords /\ b \in Books
  BY DEF BookInv, OrderInv
<1>2. /\ consumed \in Int /\ left \in Int /\ quantity \in Int
      /\ before.queue_ahead - consumed \in Int
  BY <1>1 DEF OrderRecords, Lesser
<1>3. /\ order \in OrderRecords /\ order.status = before.status
      /\ order.queue_ahead = before.queue_ahead - consumed
      /\ order.request = before.request /\ order.active_time = before.active_time
      /\ order.cancel_due = before.cancel_due
      /\ order.remaining = before.remaining /\ order.filled = before.filled
  <2> HIDE DEF consumed, before
  <2> QED
    BY <1>1, <1>2 DEF OrderRecords
<1>4. before.status \notin Terminal
  BY DEF Matchable, Terminal
<1> HIDE DEF order
<1>5. OrderInv(order) /\ Advances(before, order)
  <2>1. order.queue_ahead >= 0
    BY <1>1, <1>3 DEF Lesser, OrderRecords
  <2> HIDE DEF consumed
  <2> QED
    BY <1>1, <1>3, <1>4, <2>1 DEF OrderInv, Advances
<1>6. Reaches(b, queued, event)
  BY <1>3, <1>5, ReplaceReaches
<1>7. [b EXCEPT !.orders[i].queue_ahead = @ - consumed] = queued
  BY <1>1, BookWithOrders DEF order
<1>8. i \in DOMAIN queued.orders /\ queued.orders[i] = order
  BY <1>1 DEF Books
<1> DEFINE filled == Fill(queued, i, quantity, before.request.limit_price, TRUE, event)
<1>9. Reaches(queued, filled, event)
  <2>1. /\ order.request.limit_price \in Int
        /\ Honours(order.request, order.request.side, order.request.limit_price, TRUE)
        /\ OnTape(order.request, order.request.limit_price, TRUE, event)
    BY <1>1, <1>3 DEF Matchable, OrderInv, Honours, OnTape
  <2>2. event.receive_time >= order.active_time
    BY <1>3 DEF Matchable
  <2>3. BookInv(queued)
    BY <1>6 DEF Reaches
  <2> HIDE DEF queued, quantity
  <2> QED
    BY <1>2, <1>3, <1>4, <1>8, <2>1, <2>2, <2>3, FillReaches
<1>10. MatchOrder(b, available, i, event)
         = IF left <= 0 THEN [book |-> queued, available |-> left]
           ELSE [book |-> filled,
                 available |-> left - quantity]
  <2> HIDE DEF queued
  <2> QED
    BY <1>7 DEF MatchOrder
<1>11. queued.orders = [b.orders EXCEPT ![i] = order] /\ queued.fills = b.fills
  OBVIOUS
<1>12. MatchedVia(b, available, i, event, queued, MatchOrder(b, available, i, event))
  <2> HIDE DEF queued
  <2> QED
    BY <1>6, <1>9, <1>10, <1>11 DEF MatchedVia, order
<1> HIDE DEF queued
<1> QED
  BY <1>12

LEMMA MatchReaches ==
    ASSUME NEW b, BookInv(b), NEW i \in DOMAIN b.orders, NEW event \in ShownEvents, event \in MarketEvents,
           Matchable(b.orders[i], event), NEW available \in Int, NEW matched,
           matched = MatchOrder(b, available, i, event)
    PROVE  /\ matched = [book |-> matched.book, available |-> matched.available]
           /\ matched.available \in Int
           /\ Reaches(b, matched.book, event)
<1>1. PICK queued : MatchedVia(b, available, i, event, queued, matched)
  BY MatchSteps
<1> DEFINE order == b.orders[i]
           left == available - Lesser(order.queue_ahead, available)
           quantity == Lesser(order.remaining, left)
           filled == Fill(queued, i, quantity, order.request.limit_price, TRUE, event)
<1>2. order \in OrderRecords
  BY DEF BookInv, OrderInv
<1>3. left \in Int /\ quantity \in Int
  BY <1>2 DEF OrderRecords, Lesser
<1>4. /\ Reaches(b, queued, event) /\ Reaches(queued, filled, event)
      /\ matched = IF left <= 0 THEN [book |-> queued, available |-> left]
                   ELSE [book |-> filled, available |-> left - quantity]
  BY <1>1 DEF MatchedVia
<1> HIDE DEF order, left, quantity, filled
<1>5. Reaches(b, filled, event)
  BY <1>4, ReachesOn
<1> QED
  BY <1>3, <1>4, <1>5

LEMMA MatchingReaches ==
    ASSUME NEW b, BookInv(b), NEW event \in ShownEvents, event \in MarketEvents
    PROVE  Reaches(b, MatchPass(b, event), event)
<1> DEFINE S == {p \in [book : Books, available : Int] : Reaches(b, p.book, event)}
<1>1. /\ b \in Books /\ b.orders \in Seq(OrderRecords)
      /\ [book |-> b, available |-> event.trade_quantity] \in S
  BY ReachesItself DEF BookInv, Books, MarketEvents
<1>2. ASSUME NEW p \in S, NEW i \in 1 .. Len(b.orders), Matchable(p.book.orders[i], event)
      PROVE  MatchOrder(p.book, p.available, i, event) \in S
  <2> DEFINE matched == MatchOrder(p.book, p.available, i, event)
  <2>1. /\ Reaches(b, p.book, event) /\ BookInv(p.book) /\ i \in DOMAIN p.book.orders
        /\ p.available \in Int
    BY <1>1 DEF Reaches, Progress
  <2>2. /\ matched = [book |-> matched.book, available |-> matched.available]
        /\ matched.available \in Int
        /\ Reaches(p.book, matched.book, event)
    <3> HIDE DEF S
    <3> QED
      BY <1>2, <2>1, MatchReaches
  <2> HIDE DEF matched
  <2>3. Reaches(b, matched.book, event) /\ matched.book \in Books
    BY <2>1, <2>2, ReachesOn DEF Reaches, BookInv
  <2>4. matched \in S
    BY <2>2, <2>3
  <2> QED
    BY <2>4 DEF matched
<1>3. CASE HasTrade(event)
  <2>1. PICK p \in S : MatchPass(b, event) = p.book
    <3> HIDE DEF S
    <3> QED
      BY <1>1, <1>2, <1>3, MatchPassStays
  <2> QED
    BY <2>1
<1>4. CASE ~HasTrade(event)
  BY <1>4, ReachesItself DEF MatchPass
<1> QED
  BY <1>3, <1>4

(* What an event does to one order: as the passes, and an order is cancelled   *)
(* exactly if its cancellation is pending and due when they are done.          *)
Settles(before, after, event) ==
    /\ after.request = before.request
    /\ after.active_time = before.active_time
    /\ after.cancel_due = before.cancel_due
    /\ before.status \in Terminal => after = before
    /\ after.status = "cancelled" /\ before.status # "cancelled" =>
          event.receive_time >= before.cancel_due
    /\ after.status = "cancel_pending" => event.receive_time < before.cancel_due

(* What it does to a book. *)
EventStep(b, c, event) ==
    /\ DOMAIN c.orders = DOMAIN b.orders
    /\ \A i \in DOMAIN b.orders : Settles(b.orders[i], c.orders[i], event)
    /\ \A n \in DOMAIN b.fills : n \in DOMAIN c.fills /\ c.fills[n] = b.fills[n]
    /\ \A n \in DOMAIN c.fills \ DOMAIN b.fills :
          FillOn(c.fills[n], c.orders[c.fills[n].order_id], event)

LEMMA CancelledInv ==
    ASSUME NEW before, OrderInv(before), NEW event \in MarketEvents, CancelDue(before, event),
           NEW after, after = [before EXCEPT !.status = "cancelled", !.remaining = 0]
    PROVE  /\ OrderInv(after) /\ after.status = "cancelled"
           /\ after.request = before.request /\ after.active_time = before.active_time
           /\ after.cancel_due = before.cancel_due /\ after.filled = before.filled
<1>1. before \in OrderRecords /\ before.status = "cancel_pending"
  BY DEF OrderInv, CancelDue
<1>2. /\ after \in OrderRecords /\ after.status = "cancelled" /\ after.remaining = 0
      /\ after.request = before.request /\ after.active_time = before.active_time
      /\ after.cancel_due = before.cancel_due /\ after.filled = before.filled
      /\ after.queue_ahead = before.queue_ahead
  BY <1>1 DEF OrderRecords, Statuses, Terminal
<1>3. before.filled < before.request.quantity
  BY <1>1 DEF OrderInv, OrderRecords, OrderRequests
<1> QED
  BY <1>1, <1>2, <1>3 DEF OrderInv

LEMMA CancelSettles ==
    ASSUME NEW b, NEW d, NEW event \in MarketEvents, Reaches(b, d, event), NEW c,
           c = CancelPass(d, event)
    PROVE  BookInv(c) /\ EventStep(b, c, event) /\ (Balanced(b) => Balanced(c))
<1>1. BookInv(d) /\ Progress(b, d, event) /\ d \in Books /\ d.orders \in Seq(OrderRecords)
  BY DEF Reaches, BookInv, Books
<1> DEFINE ended(i) == [d.orders[i] EXCEPT !.status = "cancelled", !.remaining = 0]
           ordered == [i \in DOMAIN d.orders |->
                         IF CancelDue(d.orders[i], event) THEN ended(i) ELSE d.orders[i]]
<1>2. c = [orders |-> ordered, fills |-> d.fills, ledger |-> d.ledger]
  BY <1>1, BookWithOrders DEF CancelPass
<1>3. /\ c.orders = ordered /\ c.fills = d.fills /\ c.ledger = d.ledger
      /\ DOMAIN c.orders = DOMAIN d.orders
  <2>1. DOMAIN ordered = DOMAIN d.orders
    OBVIOUS
  <2> HIDE DEF ordered
  <2> QED
    BY <1>2, <2>1
<1>4. ASSUME NEW i \in DOMAIN d.orders
      PROVE  /\ OrderInv(c.orders[i])
             /\ c.orders[i].request = d.orders[i].request
             /\ c.orders[i].active_time = d.orders[i].active_time
             /\ c.orders[i].cancel_due = d.orders[i].cancel_due
             /\ c.orders[i].filled = d.orders[i].filled
             /\ CancelDue(d.orders[i], event) => c.orders[i].status = "cancelled"
             /\ ~CancelDue(d.orders[i], event) => c.orders[i] = d.orders[i]
  <2>1. OrderInv(d.orders[i])
    BY <1>1 DEF BookInv
  <2>2. CASE CancelDue(d.orders[i], event)
    <3>1. c.orders[i] = ended(i)
      BY <1>3, <2>2
    <3>2. /\ OrderInv(ended(i)) /\ ended(i).status = "cancelled"
          /\ ended(i).request = d.orders[i].request
          /\ ended(i).active_time = d.orders[i].active_time
          /\ ended(i).cancel_due = d.orders[i].cancel_due
          /\ ended(i).filled = d.orders[i].filled
      BY <2>1, <2>2, CancelledInv
    <3> HIDE DEF ended
    <3> QED
      BY <2>2, <3>1, <3>2
  <2>3. CASE ~CancelDue(d.orders[i], event)
    BY <1>3, <2>1, <2>3
  <2> QED
    BY <2>2, <2>3
<1> HIDE DEF ended
<1>5. BookInv(c)
  <2>1. c.orders \in Seq(OrderRecords)
    <3>1. \A i \in 1 .. Len(d.orders) : c.orders[i] \in OrderRecords
      BY <1>1, <1>4 DEF OrderInv
    <3>2. DOMAIN c.orders = 1 .. Len(d.orders) /\ Len(d.orders) \in Nat
      BY <1>1, <1>3
    <3>3. c.orders = [i \in 1 .. Len(d.orders) |-> c.orders[i]]
      BY <1>3, <3>2
    <3>4. c.orders \in [1 .. Len(d.orders) -> OrderRecords]
      BY <3>1, <3>3
    <3> QED
      BY <3>2, <3>4
  <2>2. c \in Books
    <3> HIDE DEF ordered
    <3> QED
      BY <1>1, <1>2, <1>3, <2>1 DEF Books
  <2>3. \A i \in DOMAIN c.orders : OrderInv(c.orders[i])
    BY <1>3, <1>4
  <2>4. ASSUME NEW n \in DOMAIN c.fills PROVE FillInv(c.fills[n], c.orders)
    <3>1. FillInv(d.fills[n], d.orders) /\ c.fills[n] = d.fills[n]
      BY <1>1, <1>3 DEF BookInv
    <3>2. c.orders[d.fills[n].order_id].request = d.orders[d.fills[n].order_id].request
      BY <1>4, <3>1 DEF FillInv
    <3> QED
      BY <1>3, <3>1, <3>2 DEF FillInv
  <2> QED
    BY <2>2, <2>3, <2>4 DEF BookInv
<1> HIDE DEF ordered
<1>6. ASSUME NEW i \in DOMAIN b.orders PROVE Settles(b.orders[i], c.orders[i], event)
  <2>1. i \in DOMAIN d.orders /\ Advances(b.orders[i], d.orders[i]) /\ OrderInv(d.orders[i])
    BY <1>1 DEF Progress, BookInv
  <2>2. CASE CancelDue(d.orders[i], event)
    BY <1>4, <2>1, <2>2 DEF CancelDue, Advances, Settles, Terminal
  <2>3. CASE ~CancelDue(d.orders[i], event)
    <3>1. c.orders[i] = d.orders[i]
      BY <1>4, <2>1, <2>3
    <3>2. ASSUME c.orders[i].status = "cancel_pending"
          PROVE  event.receive_time < b.orders[i].cancel_due
      <4>1. d.orders[i].cancel_due \in Int /\ d.orders[i].cancel_due # None
        BY <2>1, <3>1, <3>2, RiskAssumption DEF OrderInv
      <4> QED
        BY <2>1, <2>3, <3>1, <3>2, <4>1 DEF CancelDue, Advances, MarketEvents
    <3> QED
      BY <2>1, <3>1, <3>2 DEF Advances, Settles
  <2> QED
    BY <2>2, <2>3
<1>7. ASSUME NEW n \in DOMAIN c.fills \ DOMAIN b.fills
      PROVE  FillOn(c.fills[n], c.orders[c.fills[n].order_id], event)
  <2>1. FillOn(d.fills[n], d.orders[d.fills[n].order_id], event) /\ c.fills[n] = d.fills[n]
    BY <1>1, <1>3 DEF Progress
  <2>2. d.fills[n].order_id \in DOMAIN d.orders
    BY <1>1, <1>3 DEF BookInv, FillInv
  <2> QED
    BY <1>4, <2>1, <2>2 DEF FillOn
<1>8. \A n \in DOMAIN b.fills : n \in DOMAIN c.fills /\ c.fills[n] = b.fills[n]
  BY <1>1, <1>3 DEF Progress
<1>9. Balanced(b) => Balanced(c)
  BY <1>3, <1>4, BalanceKept DEF Reaches
<1> QED
  BY <1>1, <1>3, <1>5, <1>6, <1>7, <1>8, <1>9 DEF EventStep, Progress

LEMMA EventSettles ==
    ASSUME NEW b, BookInv(b), NEW event \in ShownEvents, event \in MarketEvents, NEW c, c = AfterEvent(b, event)
    PROVE  BookInv(c) /\ EventStep(b, c, event) /\ (Balanced(b) => Balanced(c))
<1> DEFINE activated == ActivationPass(b, event)
           matched == MatchPass(activated, event)
           settled == CancelPass(matched, event)
<1>1. Reaches(b, matched, event)
  <2>1. Reaches(b, activated, event) /\ BookInv(activated)
    BY ActivationReaches DEF Reaches
  <2> HIDE DEF activated
  <2> QED
    BY <2>1, MatchingReaches, ReachesOn
<1> HIDE DEF matched
<1>2. /\ BookInv(settled) /\ EventStep(b, settled, event)
      /\ Balanced(b) => Balanced(settled)
  BY <1>1, CancelSettles
<1>3. c = [settled EXCEPT !.ledger = AfterMark(settled.ledger, Midpoint(event))]
  BY DEF AfterEvent, matched
<1> HIDE DEF settled
<1>4. Midpoint(event) \in Int
  BY DEF Midpoint, MarketEvents
<1> DEFINE marked == AfterMark(settled.ledger, Midpoint(event))
<1>5. /\ Bookkept(settled.ledger) => Bookkept(marked)
      /\ marked \in Ledgers /\ marked.position = settled.ledger.position
      /\ marked.realized_pnl = settled.ledger.realized_pnl
      /\ marked.total_fee = settled.ledger.total_fee
  <2>1. settled.ledger \in Ledgers
    BY <1>2 DEF BookInv, Books
  <2> QED
    BY <1>4, <2>1, MarkOutcome
<1> HIDE DEF marked
<1>6. /\ c \in Books /\ c.ledger = marked
      /\ c.orders = settled.orders /\ c.fills = settled.fills
  BY <1>2, <1>3, <1>5 DEF BookInv, Books, marked
<1>7. Balanced(settled) => Balanced(c)
  BY <1>5, <1>6, BalanceKept
<1> QED
  BY <1>2, <1>6, <1>7 DEF BookInv, EventStep

-----------------------------------------------------------------------------
(* Maker fills and the traded volume. *)

(* The maker fills that c has and b has not, and their volume. *)
Makers(b, c) == {n \in DOMAIN c.fills \ DOMAIN b.fills : c.fills[n].maker}

Volume(b, c) == SumFunctionOnSet(Quantities(c.fills), Makers(b, c))

(* c adds to b at most one fill, of order i, and touches no queue. *)
FillLogs(b, c, i, offered, maker) ==
    /\ \A j \in DOMAIN b.orders : c.orders[j].queue_ahead = b.orders[j].queue_ahead
    /\ \/ c.fills = b.fills
       \/ \E fill : /\ c.fills = Append(b.fills, fill)
                    /\ fill.order_id = i /\ fill.maker = maker
                    /\ fill.quantity <= offered

LEMMA FillLogsOnce ==
    ASSUME NEW b, BookInv(b), NEW i \in DOMAIN b.orders, NEW offered \in Int,
           NEW price, NEW maker, NEW event
    PROVE  FillLogs(b, Fill(b, i, offered, price, maker, event), i, offered, maker)
<1> DEFINE before == b.orders[i]
           quantity == Lesser(offered, before.remaining)
           c == Fill(b, i, offered, price, maker, event)
<1>1. /\ b \in Books /\ b.orders \in Seq(OrderRecords) /\ before \in OrderRecords
      /\ before.remaining \in Nat
  BY DEF BookInv, Books, OrderInv, OrderRecords
<1>2. quantity <= offered /\ quantity \in Int
  BY <1>1 DEF Lesser
<1>3. FillLogs(b, b, i, offered, maker)
  BY DEF FillLogs
<1>4. FillLogs(b, WithStatus(b, i, "rejected"), i, offered, maker)
  <2> DEFINE d == WithStatus(b, i, "rejected")
             order == [before EXCEPT !.status = "rejected"]
  <2>1. d.orders = [b.orders EXCEPT ![i] = order] /\ d.fills = b.fills
    BY <1>1, BookWithOrders DEF WithStatus
  <2>2. order.queue_ahead = before.queue_ahead
    BY <1>1 DEF OrderRecords
  <2> HIDE DEF quantity, d, order
  <2>3. \A j \in DOMAIN b.orders : d.orders[j].queue_ahead = b.orders[j].queue_ahead
    BY <1>1, <2>1, <2>2
  <2> QED
    BY <2>1, <2>3 DEF FillLogs, d
<1>5. FillLogs(b, Executed(b, i, quantity, price, maker, event), i, offered, maker)
  <2> HIDE DEF quantity
  <2> DEFINE d == Executed(b, i, quantity, price, maker, event)
             order == [before EXCEPT
                        !.remaining = before.remaining - quantity,
                        !.filled = before.filled + quantity,
                        !.status = IF before.remaining = quantity THEN "filled"
                                   ELSE "partially_filled"]
  <2>1. d.orders = [b.orders EXCEPT ![i] = order]
    BY <1>1 DEF Executed, OrderRecords
  <2>2. order.queue_ahead = before.queue_ahead
    BY <1>1 DEF OrderRecords
  <2>3. \A j \in DOMAIN b.orders : d.orders[j].queue_ahead = b.orders[j].queue_ahead
    <3> HIDE DEF d, order
    <3> QED
      BY <1>1, <2>1, <2>2
  <2>4. \E fill : /\ d.fills = Append(b.fills, fill)
                  /\ fill.order_id = i /\ fill.maker = maker /\ fill.quantity <= offered
    BY <1>2 DEF Executed
  <2> HIDE DEF d
  <2> QED
    BY <2>3, <2>4 DEF FillLogs, d
<1>6. c = b \/ c = WithStatus(b, i, "rejected")
        \/ c = Executed(b, i, quantity, price, maker, event)
  BY DEF Fill
<1> HIDE DEF c
<1> QED
  BY <1>3, <1>4, <1>5, <1>6 DEF c

(* Taking an order to the book logs no maker fill. *)
LEMMA ActivateTakes ==
    ASSUME NEW b, BookInv(b), NEW i \in DOMAIN b.orders, NEW event
    PROVE  Makers(b, Activate(b, i, event)) = {}
<1> DEFINE order == b.orders[i]
           c == Activate(b, i, event)
<1>1. b \in Books /\ order.remaining \in Int
  BY DEF BookInv, OrderRecords, OrderInv
<1>2. ASSUME NEW d, d.fills = b.fills PROVE Makers(b, d) = {}
  BY <1>2 DEF Makers
<1>3. ASSUME NEW price PROVE Makers(b, Fill(b, i, order.remaining, price, FALSE, event)) = {}
  <2> DEFINE d == Fill(b, i, order.remaining, price, FALSE, event)
  <2>1. FillLogs(b, d, i, order.remaining, FALSE)
    <3> HIDE DEF order
    <3> QED
      BY <1>1, FillLogsOnce DEF order
  <2> SUFFICES Makers(b, d) = {}
    OBVIOUS
  <2> HIDE DEF d
  <2>2. CASE d.fills = b.fills
    BY <2>2 DEF Makers
  <2>3. CASE \E fill : d.fills = Append(b.fills, fill) /\ fill.maker = FALSE
    <3>1. PICK fill : d.fills = Append(b.fills, fill) /\ fill.maker = FALSE
      BY <2>3
    <3>2. b.fills \in Seq(FillRecords)
      BY <1>1 DEF Books
    <3>3. \A n \in DOMAIN d.fills \ DOMAIN b.fills : d.fills[n] = fill
      BY <3>1, <3>2
    <3> QED
      BY <3>1, <3>3 DEF Makers
  <2> QED
    BY <2>1, <2>2, <2>3 DEF FillLogs, d
<1>4. WithStatus(b, i, "rejected").fills = b.fills
  BY <1>1, BookWithOrders DEF WithStatus
<1>5. ASSUME NEW queue, NEW status
      PROVE  [b EXCEPT !.orders[i].queue_ahead = queue, !.orders[i].status = status].fills
               = b.fills
  BY <1>1 DEF Books
<1>6. \/ c.fills = b.fills
      \/ \E price : c = Fill(b, i, order.remaining, price, FALSE, event)
  BY <1>4, <1>5 DEF Activate, ActivateMarket, ActivateLimit
<1> HIDE DEF c
<1> QED
  BY <1>2, <1>3, <1>6 DEF c

(* A maker fill adds its quantity to the volume. *)
AddsMaker(b, c, d, fill) ==
    /\ DOMAIN b.fills \subseteq DOMAIN c.fills /\ c.fills \in Seq(FillRecords)
    /\ d.fills = Append(c.fills, fill) /\ fill \in FillRecords /\ fill.maker

LEMMA VolumeGrows ==
    ASSUME NEW b, NEW c, NEW d, NEW fill, AddsMaker(b, c, d, fill)
    PROVE  /\ Makers(b, d) = Makers(b, c) \cup {Len(c.fills) + 1}
           /\ Volume(b, d) = Volume(b, c) + fill.quantity
<1> DEFINE last == Len(c.fills) + 1
           D == DOMAIN c.fills
           M == Makers(b, c)
<1>1. /\ DOMAIN d.fills = D \cup {last} /\ last \notin D /\ IsFiniteSet(D)
      /\ d.fills[last] = fill /\ \A n \in D : d.fills[n] = c.fills[n]
      /\ \A n \in D \cup {last} : d.fills[n] \in FillRecords
  <2>1. D = 1 .. Len(c.fills) /\ Len(c.fills) \in Nat
    BY DEF AddsMaker
  <2>2. IsFiniteSet(D)
    BY <2>1, FS_Interval
  <2> QED
    BY <2>1, <2>2 DEF AddsMaker
<1> HIDE DEF last
<1>2. Makers(b, d) = M \cup {last}
  BY <1>1 DEF Makers, AddsMaker
<1>3. M \subseteq D /\ IsFiniteSet(M)
  BY <1>1, FS_Subset DEF Makers
<1>4. \A n \in M \cup {last} :
         /\ Quantities(d.fills)[n] = d.fills[n].quantity /\ d.fills[n].quantity \in Int
         /\ n \in D => Quantities(d.fills)[n] = Quantities(c.fills)[n]
  <2>1. \A entry \in FillRecords : entry.quantity \in Int
    BY DEF FillRecords
  <2>2. \A n \in M \cup {last} : d.fills[n] \in FillRecords /\ n \in DOMAIN d.fills
    BY <1>1, <1>3
  <2>3. \A n \in DOMAIN d.fills : Quantities(d.fills)[n] = d.fills[n].quantity
    BY DEF Quantities
  <2>4. \A n \in D : Quantities(c.fills)[n] = c.fills[n].quantity
    BY DEF Quantities
  <2> HIDE DEF M, D
  <2> QED
    BY <1>1, <2>1, <2>2, <2>3, <2>4
<1> HIDE DEF M, D
<1>5. AddsTerm(Quantities(c.fills), Quantities(d.fills), M, last)
  BY <1>1, <1>3, <1>4 DEF AddsTerm
<1>6. SumFunctionOnSet(Quantities(d.fills), M \cup {last})
        = SumFunctionOnSet(Quantities(c.fills), M) + Quantities(d.fills)[last]
  BY <1>5, SumGrows
<1>7. Quantities(d.fills)[last] = fill.quantity
  BY <1>1, <1>4
<1> QED
  BY <1>2, <1>6, <1>7 DEF Volume, M, last

(* The fills of c that b has not keep to the tape: what they and the volume    *)
(* left add up to at most what was traded, and no queue is left before them.   *)
Taped(b, c, available, event) ==
    /\ Reaches(b, c, event)
    /\ Volume(b, c) \in Int /\ Volume(b, c) + available <= event.trade_quantity
    /\ \A n \in Makers(b, c) : c.orders[c.fills[n].order_id].queue_ahead = 0

(* The available volume is used up by the queue before order i first. *)
QueueStep(c, d, i, available, left) ==
    LET consumed == Lesser(c.orders[i].queue_ahead, available)
    IN  /\ left = available - consumed
        /\ d.orders = [c.orders EXCEPT ![i] =
                          [c.orders[i] EXCEPT !.queue_ahead = @ - consumed]]
        /\ d.fills = c.fills

LEMMA QueueTaken ==
    ASSUME QuantitiesShown, NEW b, NEW c, NEW event \in MarketEvents, NEW i \in DOMAIN c.orders,
           NEW available \in Nat \ {0}, Taped(b, c, available, event),
           NEW d, NEW left, Reaches(c, d, event), QueueStep(c, d, i, available, left)
    PROVE  /\ Taped(b, d, left, event)
           /\ left \in Nat
           /\ left > 0 => d.orders[i].queue_ahead = 0
<1> DEFINE queue == c.orders[i].queue_ahead
           consumed == Lesser(queue, available)
           order == [c.orders[i] EXCEPT !.queue_ahead = @ - consumed]
<1>0. /\ left = available - consumed /\ d.fills = c.fills
      /\ d.orders = [c.orders EXCEPT ![i] = order]
  BY DEF QueueStep
<1>1. /\ queue \in Int /\ queue >= 0 /\ c.orders[i] \in OrderRecords
      /\ c.orders \in Seq(OrderRecords)
  BY DEF Taped, Reaches, BookInv, Books, OrderInv, OrderRecords
<1>2. order.queue_ahead = queue - consumed
  BY <1>1 DEF OrderRecords
<1> HIDE DEF queue, order
<1>3. /\ consumed \in Int /\ consumed >= 0 /\ available - consumed \in Nat
      /\ available - consumed > 0 => order.queue_ahead = 0
      /\ queue = 0 => order.queue_ahead = 0
  BY <1>1, <1>2 DEF Lesser
<1> HIDE DEF consumed
<1>4. /\ d.orders[i] = order
      /\ \A j \in DOMAIN c.orders : j # i => d.orders[j] = c.orders[j]
  BY <1>0, <1>1
<1>5. Makers(b, d) = Makers(b, c) /\ Volume(b, d) = Volume(b, c)
  BY <1>0 DEF Makers, Volume
<1>6. \A n \in Makers(b, d) : d.orders[d.fills[n].order_id].queue_ahead = 0
  <2>1. \A n \in Makers(b, d) :
           /\ c.orders[c.fills[n].order_id].queue_ahead = 0
           /\ c.fills[n].order_id \in DOMAIN c.orders
    BY <1>5 DEF Taped, Reaches, BookInv, FillInv, Makers
  <2> QED
    BY <1>0, <1>3, <1>4, <2>1 DEF queue
<1>7. Volume(b, d) \in Int /\ Volume(b, d) + (available - consumed) <= event.trade_quantity
  BY <1>3, <1>5 DEF Taped, MarketEvents
<1>8. Reaches(b, d, event)
  BY ReachesOn DEF Taped
<1> QED
  BY <1>0, <1>3, <1>4, <1>5, <1>6, <1>7, <1>8 DEF Taped

LogsMaker(c, d, i, offered) == FillLogs(c, d, i, offered, TRUE)

LEMMA FillTaped ==
    ASSUME NEW b, NEW c, NEW event \in MarketEvents, NEW i \in DOMAIN c.orders,
           NEW left \in Nat, Taped(b, c, left, event), c.orders[i].queue_ahead = 0,
           NEW offered \in Int, offered >= 0, NEW d, Reaches(c, d, event),
           LogsMaker(c, d, i, offered)
    PROVE  Taped(b, d, left - offered, event)
<1>1. /\ Reaches(b, c, event) /\ Volume(b, c) \in Int
      /\ Volume(b, c) + left <= event.trade_quantity
      /\ event.trade_quantity \in Int
      /\ \A n \in Makers(b, c) :
            /\ c.orders[c.fills[n].order_id].queue_ahead = 0
            /\ c.fills[n].order_id \in DOMAIN c.orders
  BY DEF Taped, MarketEvents, Makers, Reaches, BookInv, FillInv
<1>2. Reaches(b, d, event)
  BY <1>1, ReachesOn
<1>3. /\ c.fills \in Seq(FillRecords) /\ d.fills \in Seq(FillRecords)
      /\ DOMAIN b.fills \subseteq DOMAIN c.fills
      /\ \A j \in DOMAIN c.orders : d.orders[j].queue_ahead = c.orders[j].queue_ahead
  BY <1>1 DEF Reaches, Progress, BookInv, Books, LogsMaker, FillLogs
<1>4. CASE d.fills = c.fills
  <2>1. Makers(b, d) = Makers(b, c) /\ Volume(b, d) = Volume(b, c)
    BY <1>4 DEF Makers, Volume
  <2>2. Volume(b, d) + (left - offered) <= event.trade_quantity
    BY <1>1, <2>1
  <2>3. \A n \in Makers(b, d) : d.orders[d.fills[n].order_id].queue_ahead = 0
    BY <1>1, <1>3, <1>4, <2>1
  <2> QED
    BY <1>1, <1>2, <2>1, <2>2, <2>3 DEF Taped
<1>5. CASE d.fills # c.fills
  <2>1. PICK fill : /\ d.fills = Append(c.fills, fill)
                    /\ fill.order_id = i /\ fill.maker = TRUE /\ fill.quantity <= offered
    BY <1>5 DEF LogsMaker, FillLogs
  <2> DEFINE last == Len(c.fills) + 1
  <2>2. /\ d.fills[last] = fill /\ last \in DOMAIN d.fills
        /\ \A n \in DOMAIN c.fills : d.fills[n] = c.fills[n]
    BY <1>3, <2>1
  <2>3. fill \in FillRecords
    BY <1>3, <2>2
  <2>8. AddsMaker(b, c, d, fill)
    BY <1>3, <2>1, <2>3, Zenon DEF AddsMaker
  <2>4. Makers(b, d) = Makers(b, c) \cup {last} /\ Volume(b, d) = Volume(b, c) + fill.quantity
    BY <2>8, VolumeGrows
  <2> HIDE DEF last
  <2>5. fill.quantity \in Int
    BY <2>3 DEF FillRecords
  <2>6. Volume(b, d) \in Int /\ Volume(b, d) + (left - offered) <= event.trade_quantity
    BY <1>1, <2>1, <2>4, <2>5
  <2>7. ASSUME NEW n \in Makers(b, d)
        PROVE  d.orders[d.fills[n].order_id].queue_ahead = 0
    <3>1. CASE n \in Makers(b, c)
      <4>1. d.fills[n] = c.fills[n]
        BY <2>2, <3>1 DEF Makers
      <4> QED
        BY <1>1, <1>3, <3>1, <4>1
    <3>2. CASE n = last
      BY <1>3, <2>1, <2>2, <3>2
    <3> QED
      BY <2>4, <3>1, <3>2
  <2> QED
    BY <1>2, <2>6, <2>7 DEF Taped
<1> QED
  BY <1>4, <1>5

LEMMA MatchTaped ==
    ASSUME QuantitiesShown, NEW b, NEW c, NEW event \in ShownEvents, event \in MarketEvents,
           NEW i \in DOMAIN c.orders, Matchable(c.orders[i], event),
           NEW available \in Nat \ {0}, Taped(b, c, available, event),
           NEW matched, matched = MatchOrder(c, available, i, event)
    PROVE  /\ matched = [book |-> matched.book, available |-> matched.available]
           /\ matched.available \in Nat
           /\ Taped(b, matched.book, matched.available, event)
<1>1. BookInv(c) /\ c.orders[i] \in OrderRecords
  BY DEF Taped, Reaches, BookInv, OrderInv
<1>2. PICK queued : MatchedVia(c, available, i, event, queued, matched)
  BY <1>1, MatchSteps
<1> DEFINE order == c.orders[i]
           consumed == Lesser(order.queue_ahead, available)
           left == available - consumed
           quantity == Lesser(order.remaining, left)
           limit == order.request.limit_price
           after == [order EXCEPT !.queue_ahead = @ - consumed]
           maker == TRUE
           filled == Fill(queued, i, quantity, limit, maker, event)
<1>3. /\ queued.orders = [c.orders EXCEPT ![i] = after]
      /\ queued.fills = c.fills
      /\ Reaches(c, queued, event) /\ Reaches(queued, filled, event)
      /\ matched = IF left <= 0 THEN [book |-> queued, available |-> left]
                   ELSE [book |-> filled, available |-> left - quantity]
  BY <1>2 DEF MatchedVia
<1>4. consumed \in Int /\ order.remaining \in Nat
  BY <1>1 DEF OrderRecords, Lesser
<1> HIDE DEF maker, filled
<1>8. QueueStep(c, queued, i, available, left)
  BY <1>3 DEF QueueStep
<1> HIDE DEF after, consumed
<1>5. /\ Taped(b, queued, left, event) /\ left \in Nat
      /\ left > 0 => queued.orders[i].queue_ahead = 0
  BY <1>3, <1>8, QueueTaken
<1> HIDE DEF left, order
<1>6. CASE left <= 0
  BY <1>3, <1>5, <1>6
<1>7. CASE ~(left <= 0)
  <2>1. quantity \in Nat /\ left - quantity \in Nat
    BY <1>4, <1>5 DEF Lesser
  <2>2. i \in DOMAIN queued.orders /\ BookInv(queued)
    BY <1>3 DEF Reaches, Progress
  <2> HIDE DEF quantity, limit
  <2>3. FillLogs(queued, filled, i, quantity, maker)
    BY <2>1, <2>2, FillLogsOnce DEF filled
  <2>6. LogsMaker(queued, filled, i, quantity)
    BY <2>3 DEF LogsMaker, maker
  <2>4. left > 0
    BY <1>5, <1>7
  <2>5. Taped(b, filled, left - quantity, event)
    BY <1>3, <1>5, <2>1, <2>2, <2>4, <2>6, FillTaped
  <2> QED
    BY <1>3, <1>7, <2>1, <2>5
<1> QED
  BY <1>6, <1>7

LEMMA MatchingTaped ==
    ASSUME QuantitiesShown, NEW b, NEW c, NEW event \in ShownEvents, event \in MarketEvents,
           HasTrade(event), Taped(b, c, event.trade_quantity, event)
    PROVE  \E left \in Nat : Taped(b, MatchPass(c, event), left, event)
<1> DEFINE S == {p \in [book : Books, available : Nat] :
                    Taped(b, p.book, p.available, event)}
<1>1. ASSUME NEW p \in S
      PROVE  /\ p.available \in Nat /\ Taped(b, p.book, p.available, event)
             /\ p.book \in Books
  OBVIOUS
<1>2. /\ c \in Books /\ c.orders \in Seq(OrderRecords)
      /\ event.trade_quantity \in Nat
  BY DEF Taped, Reaches, BookInv, Books, HasTrade, MarketEvents
<1>3. [book |-> c, available |-> event.trade_quantity] \in S
  BY <1>2
<1>4. ASSUME NEW p \in S PROVE DOMAIN p.book.orders = DOMAIN c.orders
  BY <1>1 DEF Taped, Reaches, Progress
<1>5. ASSUME NEW p \in S, NEW i \in 1 .. Len(c.orders),
             p.available > 0, Matchable(p.book.orders[i], event)
      PROVE  MatchOrder(p.book, p.available, i, event) \in S
  <2> DEFINE matched == MatchOrder(p.book, p.available, i, event)
  <2>1. i \in DOMAIN p.book.orders /\ p.available \in Nat \ {0}
    BY <1>1, <1>2, <1>4, <1>5
  <2>2. /\ matched = [book |-> matched.book, available |-> matched.available]
        /\ matched.available \in Nat
        /\ Taped(b, matched.book, matched.available, event)
    <3> HIDE DEF S
    <3> QED
      BY <1>1, <1>5, <2>1, MatchTaped
  <2> HIDE DEF matched
  <2>3. matched.book \in Books
    BY <2>2 DEF Taped, Reaches, BookInv
  <2>4. matched \in S
    BY <2>2, <2>3
  <2> QED
    BY <2>4 DEF matched
<1> HIDE DEF S
<1>6. PICK p \in S : MatchPass(c, event) = p.book
  <2>1. Len(c.orders) \in Nat
    BY <1>2
  <2> QED
    BY <1>3, <1>5, <2>1, MatchPassStays
<1> QED
  BY <1>1, <1>6

LEMMA ActivationTakes ==
    ASSUME NEW b, BookInv(b), NEW event \in ShownEvents, event \in MarketEvents
    PROVE  Makers(b, ActivationPass(b, event)) = {}
<1> DEFINE S == {c \in Books : Reaches(b, c, event) /\ Makers(b, c) = {}}
<1>1. b.orders \in Seq(OrderRecords) /\ b \in S
  BY ReachesItself DEF BookInv, Books, Makers
<1>2. ASSUME NEW c \in S, NEW i \in 1 .. Len(b.orders), DueToActivate(c.orders[i], event)
      PROVE  Activate(c, i, event) \in S
  <2> DEFINE d == Activate(c, i, event)
  <2>1. Reaches(b, c, event) /\ BookInv(c) /\ i \in DOMAIN c.orders /\ Makers(b, c) = {}
    BY <1>1 DEF Reaches, Progress
  <2> HIDE DEF S
  <2>2. Reaches(c, d, event) /\ Makers(c, d) = {}
    BY <1>2, <2>1, ActivateReaches, ActivateTakes DEF DueToActivate
  <2> HIDE DEF d
  <2>3. Reaches(b, d, event) /\ d \in Books
    BY <2>1, <2>2, ReachesOn DEF Reaches, BookInv
  <2>4. \A n \in DOMAIN c.fills : d.fills[n] = c.fills[n]
    BY <2>2 DEF Reaches, Progress
  <2>5. Makers(b, d) = {}
    BY <2>1, <2>2, <2>4 DEF Makers
  <2> QED
    BY <2>3, <2>5 DEF S, d
<1>3. ActivationPass(b, event) \in S
  <2> HIDE DEF S
  <2> QED
    BY <1>1, <1>2, ActivationPassStays
<1> QED
  BY <1>3

(* What an event adds to the book keeps to the tape. *)
LEMMA EventTaped ==
    ASSUME QuantitiesShown, NEW b, BookInv(b), NEW event \in ShownEvents, event \in MarketEvents,
           NEW c, c = AfterEvent(b, event)
    PROVE  /\ Makers(b, c) # {} => Volume(b, c) <= event.trade_quantity
           /\ \A n \in Makers(b, c) : c.orders[c.fills[n].order_id].queue_ahead = 0
<1> DEFINE activated == ActivationPass(b, event)
           matched == MatchPass(activated, event)
           settled == CancelPass(matched, event)
<1>1. Reaches(b, activated, event) /\ BookInv(activated) /\ Makers(b, activated) = {}
  BY ActivationReaches, ActivationTakes DEF Reaches
<1>2. Reaches(b, matched, event)
  <2> HIDE DEF activated
  <2> QED
    BY <1>1, MatchingReaches, ReachesOn
<1>3. Volume(b, activated) = 0
  BY <1>1, SumOfNothing DEF Volume
<1> HIDE DEF activated
<1>4. /\ Makers(b, matched) # {} => Volume(b, matched) <= event.trade_quantity
      /\ \A n \in Makers(b, matched) :
            matched.orders[matched.fills[n].order_id].queue_ahead = 0
  <2>1. CASE HasTrade(event)
    <3>1. Taped(b, activated, event.trade_quantity, event)
      BY <1>1, <1>3 DEF Taped, MarketEvents
    <3>2. PICK left \in Nat : Taped(b, matched, left, event)
      BY <2>1, <3>1, MatchingTaped
    <3> HIDE DEF matched
    <3> QED
      BY <3>2 DEF Taped, MarketEvents
  <2>2. CASE ~HasTrade(event)
    BY <1>1, <2>2 DEF MatchPass
  <2> QED
    BY <2>1, <2>2
<1> HIDE DEF matched
<1>5. BookInv(matched)
  BY <1>2 DEF Reaches
<1>6. /\ settled.fills = matched.fills
      /\ \A i \in DOMAIN matched.orders :
            settled.orders[i].queue_ahead = matched.orders[i].queue_ahead
  <2>1. matched \in Books /\ \A i \in DOMAIN matched.orders : matched.orders[i] \in OrderRecords
    BY <1>5 DEF BookInv, OrderInv
  <2> DEFINE ended(i) == [matched.orders[i] EXCEPT !.status = "cancelled", !.remaining = 0]
             ordered == [i \in DOMAIN matched.orders |->
                           IF CancelDue(matched.orders[i], event) THEN ended(i)
                           ELSE matched.orders[i]]
  <2>2. settled.fills = matched.fills /\ settled.orders = ordered
    BY <2>1, BookWithOrders DEF CancelPass
  <2>3. \A i \in DOMAIN matched.orders : ended(i).queue_ahead = matched.orders[i].queue_ahead
    BY <2>1 DEF OrderRecords
  <2> HIDE DEF settled, ended
  <2> QED
    BY <2>2, <2>3
<1>7. c.orders = settled.orders /\ c.fills = settled.fills
  <2>1. settled \in Books
    <3> HIDE DEF settled
    <3> QED
      BY <1>2, CancelSettles DEF BookInv, settled
  <2> HIDE DEF settled
  <2> QED
    BY <2>1 DEF AfterEvent, Books, settled, matched, activated
<1> HIDE DEF settled
<1>8. Makers(b, c) = Makers(b, matched) /\ Volume(b, c) = Volume(b, matched)
  BY <1>6, <1>7 DEF Makers, Volume
<1>9. \A n \in Makers(b, matched) : matched.fills[n].order_id \in DOMAIN matched.orders
  BY <1>5 DEF Makers, BookInv, FillInv
<1> QED
  BY <1>4, <1>6, <1>7, <1>8, <1>9

-----------------------------------------------------------------------------
(* The exchange. *)

ExchangeInv ==
    /\ market \in Events \cup {None}
    /\ BookInv(Book)
    /\ Balanced(Book)

LEMMA BookFields ==
    /\ Book.orders = orders /\ Book.fills = fills /\ Book.ledger = ledger
BY DEF Book

(* A step that leaves the book b leaves its parts. *)
LEMMA BookBecomes ==
    ASSUME NEW b, Becomes(b), BookInv(b)
    PROVE  /\ orders' = b.orders /\ fills' = b.fills /\ ledger' = b.ledger
           /\ Book' = b
<1>1. orders' = b.orders /\ fills' = b.fills /\ ledger' = b.ledger
  BY DEF Becomes
<1>2. Book' = b
  BY <1>1 DEF Book, BookInv, Books
<1> QED
  BY <1>1, <1>2

NewMakers == {n \in NewFills : fills'[n].maker}

(* The maker fills of a step use up at most the traded volume, and no queue is  *)
(* left before them.                                                         *)
KeepsToTape ==
    /\ NewMakers # {} =>
          SumFunctionOnSet(Quantities(fills'), NewMakers) <= market'.trade_quantity
    /\ \A n \in NewMakers : orders'[fills'[n].order_id].queue_ahead = 0

LEMMA AcceptEventStep ==
    ASSUME ExchangeInv, NEW event \in Events, AcceptEvent(event)
    PROVE  /\ ExchangeInv'
           /\ market' = event /\ market' # market
           /\ DOMAIN orders' = DOMAIN orders
           /\ \A i \in DOMAIN orders : Settles(orders[i], orders'[i], event)
           /\ \A n \in DOMAIN fills : n \in DOMAIN fills' /\ fills'[n] = fills[n]
           /\ \A n \in NewFills :
                 /\ fills'[n].order_id \in DOMAIN orders
                 /\ FillOn(fills'[n], orders'[fills'[n].order_id], event)
           /\ QuantitiesShown => KeepsToTape
<1> DEFINE after == AfterEvent(Book, event)
<1>1. event \in MarketEvents /\ None \notin Events /\ event \in ShownEvents
  BY ExchangeAssumption, FeedShows
<1>2. BookInv(after) /\ EventStep(Book, after, event) /\ Balanced(after)
  BY <1>1, EventSettles DEF ExchangeInv
<1>3. Becomes(after) /\ market' = event /\ EventAccepted(event)
  BY DEF AcceptEvent
<1>7. QuantitiesShown =>
         /\ Makers(Book, after) # {} => Volume(Book, after) <= event.trade_quantity
         /\ \A n \in Makers(Book, after) :
               after.orders[after.fills[n].order_id].queue_ahead = 0
  <2> HIDE DEF after
  <2> QED
    BY <1>1, EventTaped DEF ExchangeInv, after
<1> HIDE DEF after
<1>4. /\ orders' = after.orders /\ fills' = after.fills /\ BookInv(Book') /\ Balanced(Book')
  BY <1>2, <1>3, BookBecomes
<1>5. event # market
  <2>1. market # None => market \in MarketEvents /\ event.sequence > market.sequence
    BY <1>3, ExchangeAssumption DEF ExchangeInv, EventAccepted
  <2> QED
    BY <1>1, <2>1 DEF MarketEvents
<1>6. \A n \in NewFills : fills'[n].order_id \in DOMAIN orders
  BY <1>2, <1>4, BookFields DEF NewFills, BookInv, FillInv, EventStep
<1>8. QuantitiesShown => KeepsToTape
  <2>1. Makers(Book, after) = NewMakers
    BY <1>4, BookFields DEF Makers, NewMakers, NewFills
  <2>2. Volume(Book, after) = SumFunctionOnSet(Quantities(fills'), NewMakers)
    BY <1>4, <2>1 DEF Volume
  <2> QED
    BY <1>3, <1>4, <1>7, <2>1, <2>2 DEF KeepsToTape
<1> QED
  BY <1>2, <1>3, <1>4, <1>5, <1>6, <1>8, BookFields DEF ExchangeInv, EventStep, NewFills

LEMMA RequestsTyped ==
    /\ Requests \subseteq OrderRequests(Ids)
    /\ ExchangeInv => CallTimes \subseteq Int
<1>1. Requests \subseteq OrderRequests(Ids)
  BY ExchangeAssumption DEF OrderRequests, Ids
<1>2. ASSUME ExchangeInv, NEW time \in CallTimes PROVE time \in Int
  <2>1. PICK delay \in Delays : market # None /\ time = market.receive_time + delay
    BY DEF CallTimes
  <2>2. market.receive_time \in Int /\ delay \in Int
    BY <1>2, <2>1, ExchangeAssumption DEF ExchangeInv, MarketEvents
  <2> QED
    BY <2>1, <2>2
<1> QED
  BY <1>1, <1>2

(* A request that is accepted has a positive quantity, and a limit unless it is *)
(* a market order.                                                          *)
LEMMA AcceptedRequest ==
    ASSUME NEW request \in OrderRequests(Ids), NEW time \in Int,
           SubmitReason(request, time) = "accept"
    PROVE  /\ market # None
           /\ Normalized(request) \in OrderRequests(Ids)
           /\ Normalized(request).quantity > 0
           /\ Normalized(request).type # "market" => Normalized(request).limit_price \in Int
<1>1. /\ ConfigValid /\ market # None
      /\ request.type # "market" => request.limit_price # None
      /\ ~(Normalized(request).quantity <= 0)
  BY DEF SubmitReason
<1>2. QuantityStep \in Nat \ {0}
  BY <1>1, ExchangeAssumption DEF ConfigValid
<1>3. TruncDiv(request.quantity, QuantityStep) * QuantityStep \in Int
  <2>1. TruncDiv(request.quantity, QuantityStep) \in Int
    BY <1>2, TruncDivInt DEF OrderRequests
  <2> QED
    BY <1>2, <2>1
<1>4. /\ Normalized(request) \in OrderRequests(Ids)
      /\ Normalized(request).type = request.type
      /\ Normalized(request).limit_price = request.limit_price
  BY <1>2, <1>3 DEF Normalized, OrderRequests
<1> QED
  BY <1>1, <1>4 DEF OrderRequests

(* The book with an accepted request as its last order. *)
Stored(request, time) ==
    [orders |-> Append(orders, NewOrder(request, time)), fills |-> fills, ledger |-> ledger]

LEMMA SubmitStores ==
    ASSUME BookInv(Book), Balanced(Book), market \in ShownEvents \cup {None},
           NEW request \in OrderRequests(Ids), NEW time \in Int,
           SubmitReason(request, time) = "accept",
           NEW stored, stored = Stored(request, time), NEW last, last = Len(orders) + 1
    PROVE  /\ market \in ShownEvents /\ market \in MarketEvents
           /\ BookInv(stored) /\ Balanced(stored)
           /\ stored.fills = fills /\ stored.ledger = ledger
           /\ last \notin DOMAIN orders
           /\ DOMAIN stored.orders = DOMAIN orders \cup {last}
           /\ stored.orders[last] = NewOrder(request, time)
           /\ stored.orders[last].status = "pending"
           /\ \A i \in DOMAIN orders : stored.orders[i] = orders[i]
           /\ AfterSubmit(request, time)
                = IF AckLatency = 0 THEN Activate(stored, last, market) ELSE stored
<1> DEFINE order == NewOrder(request, time)
<1>1. /\ market # None
      /\ Normalized(request) \in OrderRequests(Ids)
      /\ Normalized(request).quantity > 0
      /\ Normalized(request).type # "market" => Normalized(request).limit_price \in Int
  BY AcceptedRequest
<1>2. market \in ShownEvents /\ market \in MarketEvents
  BY <1>1 DEF ShownEvents
<1>3. order \in OrderRecords /\ order.status = "pending"
  <2>1. Normalized(request).quantity \in Nat
    BY <1>1 DEF OrderRequests
  <2>2. time + AckLatency \in Int
    BY ExchangeAssumption
  <2> QED
    BY <1>1, <2>1, <2>2 DEF NewOrder, OrderRecords, Statuses
<1>4. OrderInv(order)
  <2>1. /\ order.request = Normalized(request) /\ order.filled = 0
        /\ order.remaining = Normalized(request).quantity /\ order.queue_ahead = 0
    BY DEF NewOrder
  <2> HIDE DEF order
  <2> QED
    BY <1>1, <1>3, <2>1 DEF OrderInv, OrderRecords
<1> HIDE DEF order
<1>5. Book \in Books /\ orders \in Seq(OrderRecords)
  BY DEF BookInv, Books, Book
<1>6. stored = [orders |-> Append(orders, order), fills |-> fills, ledger |-> ledger]
  BY DEF Stored, order
<1>7. /\ stored.orders \in Seq(OrderRecords) /\ last \notin DOMAIN orders
      /\ DOMAIN stored.orders = DOMAIN orders \cup {last}
      /\ stored.orders[last] = order
      /\ \A i \in DOMAIN orders : stored.orders[i] = orders[i]
      /\ stored.fills = fills /\ stored.ledger = ledger
  BY <1>3, <1>5, <1>6
<1>8. BookInv(stored)
  <2>1. stored \in Books
    BY <1>5, <1>6, <1>7 DEF Books, Book
  <2>2. \A i \in DOMAIN stored.orders : OrderInv(stored.orders[i])
    BY <1>4, <1>7, BookFields DEF BookInv
  <2>3. \A n \in DOMAIN stored.fills : FillInv(stored.fills[n], stored.orders)
    BY <1>7, BookFields DEF BookInv, FillInv
  <2> QED
    BY <2>1, <2>2, <2>3 DEF BookInv
<1>9. Balanced(stored)
  <2>1. ASSUME NEW i \in DOMAIN stored.orders
        PROVE  stored.orders[i].filled
                 = SumFunctionOnSet(Quantities(fills), FillsOf(fills, i))
    <3>1. CASE i \in DOMAIN orders
      BY <1>7, <3>1, BookFields DEF Balanced
    <3>2. CASE i = last
      <4>1. FillsOf(fills, last) = {}
        BY <1>7, BookFields DEF FillsOf, BookInv, FillInv
      <4>2. stored.orders[last].filled = 0
        BY <1>7 DEF order, NewOrder
      <4> QED
        BY <3>2, <4>1, <4>2, SumOfNothing
    <3> QED
      BY <1>7, <3>1, <3>2
  <2> QED
    BY <1>7, <2>1, BookFields DEF Balanced
<1>10. AfterSubmit(request, time)
         = IF AckLatency = 0 THEN Activate(stored, last, market) ELSE stored
  <2>1. [Book EXCEPT !.orders = Append(@, order)] = stored
    BY <1>5, <1>6, BookWithOrders, BookFields
  <2> QED
    BY <2>1 DEF AfterSubmit, order
<1> QED
  BY <1>2, <1>3, <1>7, <1>8, <1>9, <1>10 DEF order

(* Without latency it is activated at once. *)
LEMMA SubmitReaches ==
    ASSUME BookInv(Book), Balanced(Book), market \in ShownEvents \cup {None},
           NEW request \in OrderRequests(Ids), NEW time \in Int,
           SubmitReason(request, time) = "accept",
           NEW stored, stored = Stored(request, time),
           NEW after, after = AfterSubmit(request, time)
    PROVE  /\ BookInv(after) /\ Balanced(after)
           /\ Reaches(stored, after, market)
           /\ AckLatency # 0 => after = stored
           /\ Makers(stored, after) = {}
<1> DEFINE last == Len(orders) + 1
<1> HIDE DEF last
<1>1. /\ market \in ShownEvents /\ market \in MarketEvents
      /\ BookInv(stored) /\ Balanced(stored)
      /\ last \in DOMAIN stored.orders /\ stored.orders[last].status = "pending"
      /\ after = IF AckLatency = 0 THEN Activate(stored, last, market) ELSE stored
  BY SubmitStores DEF last
<1>2. Reaches(stored, Activate(stored, last, market), market)
  BY <1>1, ActivateReaches
<1>3. Makers(stored, Activate(stored, last, market)) = {}
  BY <1>1, ActivateTakes
<1>4. Makers(stored, stored) = {}
  BY DEF Makers
<1>5. /\ Reaches(stored, after, market)
      /\ AckLatency # 0 => after = stored
      /\ Makers(stored, after) = {}
  BY <1>1, <1>2, <1>3, <1>4, ReachesItself
<1> QED
  BY <1>1, <1>5 DEF Reaches

LEMMA SubmitStep ==
    ASSUME ExchangeInv, NEW request \in Requests, NEW time \in CallTimes, Submit(request, time)
    PROVE  /\ ExchangeInv'
           /\ market' = market
           /\ \A i \in DOMAIN orders : i \in DOMAIN orders' /\ Advances(orders[i], orders'[i])
           /\ \A n \in DOMAIN fills : n \in DOMAIN fills' /\ fills'[n] = fills[n]
           /\ AckLatency # 0 => fills' = fills
           /\ \A n \in NewFills : FillOn(fills'[n], orders'[fills'[n].order_id], market)
           /\ NewMakers = {}
<1> DEFINE stored == Stored(request, time)
           after == AfterSubmit(request, time)
<1>1. market' = market /\ Becomes(after) /\ SubmitReason(request, time) = "accept"
  BY DEF Submit
<1>2. /\ request \in OrderRequests(Ids) /\ time \in Int
      /\ BookInv(Book) /\ Balanced(Book) /\ market \in ShownEvents \cup {None}
  BY RequestsTyped, FeedShows DEF ExchangeInv
<1> HIDE DEF stored, after
<1>3. /\ stored.fills = fills
      /\ \A i \in DOMAIN orders : i \in DOMAIN stored.orders /\ stored.orders[i] = orders[i]
  BY <1>1, <1>2, SubmitStores DEF stored
<1>4. /\ Reaches(stored, after, market)
      /\ BookInv(after) /\ Balanced(after)
      /\ AckLatency # 0 => after = stored
      /\ Makers(stored, after) = {}
  BY <1>1, <1>2, SubmitReaches DEF stored, after
<1>5. /\ orders' = after.orders /\ fills' = after.fills /\ BookInv(Book') /\ Balanced(Book')
  BY <1>1, <1>4, BookBecomes
<1>6. ASSUME NEW i \in DOMAIN orders
      PROVE  i \in DOMAIN orders' /\ Advances(orders[i], orders'[i])
  BY <1>3, <1>4, <1>5 DEF Reaches, Progress
<1>7. /\ \A n \in DOMAIN fills : n \in DOMAIN fills' /\ fills'[n] = fills[n]
      /\ \A n \in NewFills : FillOn(fills'[n], orders'[fills'[n].order_id], market)
  BY <1>3, <1>4, <1>5 DEF Reaches, Progress, NewFills
<1>8. /\ AckLatency # 0 => fills' = fills
      /\ NewMakers = {}
  BY <1>3, <1>4, <1>5 DEF Makers, NewMakers, NewFills
<1> QED
  BY <1>1, <1>5, <1>6, <1>7, <1>8 DEF ExchangeInv

LEMMA CancelStep ==
    ASSUME ExchangeInv, NEW request \in Requests, NEW time \in CallTimes,
           Cancel(request.id, time)
    PROVE  /\ ExchangeInv'
           /\ market' = market /\ fills' = fills
           /\ \A i \in DOMAIN orders :
                 /\ i \in DOMAIN orders'
                 /\ orders'[i].request = orders[i].request
                 /\ orders[i].status \in Terminal => orders'[i] = orders[i]
                 /\ orders'[i].status = "cancelled" => orders[i].status = "cancelled"
<1>1. PICK i \in DOMAIN orders :
         /\ CancelAccepted(i)
         /\ orders' = [orders EXCEPT ![i].status = "cancel_pending",
                                     ![i].cancel_due = time + CancelLatency]
         /\ UNCHANGED <<market, fills, ledger, ignored>>
  BY DEF Cancel, OrderOf
<1> DEFINE due == time + CancelLatency
           order == [orders[i] EXCEPT !.status = "cancel_pending", !.cancel_due = due]
<1>2. due \in Int
  <2>1. market # None /\ \E delay \in Delays : time = market.receive_time + delay
    BY DEF CallTimes
  <2> QED
    BY <2>1, ExchangeAssumption DEF ExchangeInv, MarketEvents
<1> HIDE DEF due
<1>3. /\ Book \in Books /\ orders \in Seq(OrderRecords) /\ BookInv(Book)
      /\ OrderInv(orders[i]) /\ orders[i] \in OrderRecords
  BY DEF ExchangeInv, BookInv, Books, Book, OrderInv
<1>4. /\ order \in OrderRecords /\ order.status = "cancel_pending" /\ order.cancel_due = due
      /\ order.queue_ahead = orders[i].queue_ahead
      /\ order.request = orders[i].request
      /\ order.remaining = orders[i].remaining /\ order.filled = orders[i].filled
  BY <1>2, <1>3 DEF OrderRecords, Statuses
<1>5. orders[i].status \notin Terminal
  BY <1>1 DEF CancelAccepted
<1>6. orders' = [orders EXCEPT ![i] = order]
  BY <1>1, <1>3 DEF OrderRecords, due
<1> HIDE DEF order
<1>7. OrderInv(order)
  BY <1>2, <1>3, <1>4, <1>5 DEF OrderInv, Terminal
<1>8. /\ orders' \in Seq(OrderRecords) /\ DOMAIN orders' = DOMAIN orders
      /\ orders'[i] = order
      /\ \A j \in DOMAIN orders : j # i => orders'[j] = orders[j]
  BY <1>3, <1>4, <1>6
<1>9. \A j \in DOMAIN orders :
         /\ orders'[j].request = orders[j].request
         /\ orders[j].status \in Terminal => orders'[j] = orders[j]
         /\ orders'[j].status = "cancelled" => orders[j].status = "cancelled"
  BY <1>4, <1>5, <1>8
<1>10. BookInv(Book')
  <2>1. Book' \in Books
    BY <1>1, <1>3, <1>8 DEF Books, Book
  <2>2. \A j \in DOMAIN Book'.orders : OrderInv(Book'.orders[j])
    BY <1>3, <1>7, <1>8 DEF BookInv, Book
  <2>3. \A n \in DOMAIN Book'.fills : FillInv(Book'.fills[n], Book'.orders)
    BY <1>1, <1>3, <1>8, <1>9 DEF BookInv, FillInv, Book
  <2> QED
    BY <2>1, <2>2, <2>3 DEF BookInv
<1>11. Balanced(Book')
  <2>1. /\ Book'.fills = Book.fills /\ Book'.ledger = Book.ledger
        /\ DOMAIN Book'.orders = DOMAIN Book.orders
        /\ \A j \in DOMAIN Book.orders : Book'.orders[j].filled = Book.orders[j].filled
    BY <1>1, <1>4, <1>8 DEF Book
  <2> QED
    BY <2>1, BalanceKept DEF ExchangeInv
<1> QED
  BY <1>1, <1>8, <1>9, <1>10, <1>11 DEF ExchangeInv

LEMMA InitExchangeInv == Init => ExchangeInv
<1> SUFFICES ASSUME Init PROVE ExchangeInv
  OBVIOUS
<1>1. InitialLedger \in Ledgers
  BY CashAssumption, UnitsAreInts DEF InitialLedger, Ledgers
<1>2. Book = [orders |-> <<>>, fills |-> <<>>, ledger |-> InitialLedger]
  BY DEF Init, Book
<1>3. Book \in Books
  BY <1>1, <1>2 DEF Books
<1>4. DOMAIN Book.orders = {} /\ DOMAIN Book.fills = {}
  BY <1>2
<1>5. Balanced(Book)
  <2>1. InitialLedger.position = 0 /\ InitialLedger.realized_pnl = 0 /\ InitialLedger.total_fee = 0
    BY DEF InitialLedger
  <2>2. /\ DOMAIN SignedQuantities(Book.fills) = {} /\ DOMAIN RealizedPnls(Book.fills) = {}
        /\ DOMAIN Fees(Book.fills) = {}
    BY <1>4 DEF SignedQuantities, RealizedPnls, Fees
  <2>3. Bookkept(InitialLedger)
    BY <1>1, CashAssumption, UnitsAreInts DEF InitialLedger, Bookkept
  <2> QED
    BY <1>2, <1>4, <2>1, <2>2, <2>3, SumOfNothing DEF Balanced, SumFunction
<1> QED
  BY <1>3, <1>4, <1>5 DEF Init, ExchangeInv, BookInv

LEMMA StepKeepsExchangeInv == ExchangeInv /\ [Next]_vars => ExchangeInv'
<1> SUFFICES ASSUME ExchangeInv, [Next]_vars PROVE ExchangeInv'
  OBVIOUS
<1>1. ASSUME NEW event \in Events, AcceptEvent(event) PROVE ExchangeInv'
  BY <1>1, AcceptEventStep
<1>2. ASSUME NEW event \in Events, IgnoreEvent(event) PROVE ExchangeInv'
  BY <1>2 DEF IgnoreEvent, ExchangeInv, Book
<1>3. ASSUME NEW request \in Requests, NEW time \in CallTimes, Submit(request, time)
      PROVE  ExchangeInv'
  BY <1>3, SubmitStep
<1>4. ASSUME NEW request \in Requests, NEW time \in CallTimes, Cancel(request.id, time)
      PROVE  ExchangeInv'
  BY <1>4, CancelStep
<1>5. ASSUME UNCHANGED vars PROVE ExchangeInv'
  BY <1>5 DEF vars, ExchangeInv, Book
<1> QED
  BY <1>1, <1>2, <1>3, <1>4, <1>5 DEF Next, OnMarketEvent

(* Types, and what every order and fill says of itself. *)
THEOREM ExchangeInvariant == Spec => []ExchangeInv
<1>1. Init => ExchangeInv
  BY InitExchangeInv
<1>2. ExchangeInv /\ [Next]_vars => ExchangeInv'
  BY StepKeepsExchangeInv
<1> QED
  BY <1>1, <1>2, PTL DEF Spec

(* No order trades at a price worse than its limit, and no post-only order     *)
(* takes (paper_exchange.cpp, activate and match_trade).                       *)
THEOREM ExchangeLimitsHonoured == Spec => []LimitsHonoured
<1>1. ExchangeInv => LimitsHonoured
  BY DEF ExchangeInv, BookInv, Book, FillInv, Honours, LimitsHonoured
<1> QED
  BY <1>1, ExchangeInvariant, PTL

(* The ledger is the sum of the fill log: position, profit and fees.            *)
THEOREM ExchangeLedgerMatchesFills == Spec => []LedgerMatchesFills
<1>1. ExchangeInv => LedgerMatchesFills
  BY BookFields DEF ExchangeInv, Balanced, LedgerMatchesFills
<1> QED
  BY <1>1, ExchangeInvariant, PTL

(* And every order accounts for its quantity, in the log and in its status      *)
(* (paper_exchange.cpp, fill).  That no queue is negative needs displayed        *)
(* quantities that are not.                                                   *)
THEOREM ExchangeFillsAccounted ==
    ASSUME QuantitiesShown
    PROVE  Spec => []FillsAccounted
<1>1. ExchangeInv => QuantitiesConserved
  <2> SUFFICES ASSUME ExchangeInv, NEW i \in DOMAIN orders
               PROVE  LET order == orders[i] IN
                      /\ order.filled
                           = SumFunctionOnSet(Quantities(fills), FillsOf(fills, i))
                      /\ order.filled >= 0 /\ order.remaining >= 0
                      /\ order.queue_ahead >= 0
                      /\ order.status = "cancelled" => order.remaining = 0
                      /\ order.status # "cancelled" =>
                            order.filled + order.remaining = order.request.quantity
                      /\ order.status = "filled" <=>
                            order.filled = order.request.quantity
                      /\ order.status = "partially_filled" => order.filled > 0
                      /\ order.status \in {"pending", "open"} => order.filled = 0
    BY DEF QuantitiesConserved
  <2>1. OrderInv(orders[i])
    BY BookFields DEF ExchangeInv, BookInv
  <2>2. orders[i].filled = SumFunctionOnSet(Quantities(fills), FillsOf(fills, i))
    BY BookFields DEF ExchangeInv, Balanced
  <2>3. orders[i].filled \in Nat /\ orders[i].remaining \in Nat
        /\ orders[i].request.quantity \in Int
    BY <2>1 DEF OrderInv, OrderRecords, OrderRequests
  <2> QED
    BY <2>1, <2>2, <2>3 DEF OrderInv
<1> QED
  BY <1>1, ExchangeInvariant, ExchangeLedgerMatchesFills, PTL DEF FillsAccounted

(* An order that has ended is never touched again, and history only grows.      *)
THEOREM ExchangeTerminalOrdersFrozen == Spec => TerminalOrdersFrozen
<1> DEFINE Frozen ==
             /\ \A i \in DOMAIN orders :
                   /\ i \in DOMAIN orders'
                   /\ orders'[i].request = orders[i].request
                   /\ orders[i].status \in Terminal => orders'[i] = orders[i]
             /\ \A n \in DOMAIN fills : n \in DOMAIN fills' /\ fills'[n] = fills[n]
<1>1. ExchangeInv /\ Next => Frozen
  <2> SUFFICES ASSUME ExchangeInv, Next PROVE Frozen
    OBVIOUS
  <2>1. ASSUME NEW event \in Events, AcceptEvent(event) PROVE Frozen
    BY <2>1, AcceptEventStep DEF Settles
  <2>2. ASSUME NEW event \in Events, IgnoreEvent(event) PROVE Frozen
    BY <2>2 DEF IgnoreEvent
  <2>3. ASSUME NEW request \in Requests, NEW time \in CallTimes, Submit(request, time)
        PROVE  Frozen
    BY <2>3, SubmitStep DEF Advances
  <2>4. ASSUME NEW request \in Requests, NEW time \in CallTimes, Cancel(request.id, time)
        PROVE  Frozen
    BY <2>4, CancelStep
  <2> HIDE DEF Frozen
  <2> QED
    BY <2>1, <2>2, <2>3, <2>4 DEF Next, OnMarketEvent
<1>2. ExchangeInv /\ [Next]_vars => [Frozen]_vars
  <2> HIDE DEF Frozen
  <2> QED
    BY <1>1
<1> QED
  BY <1>2, ExchangeInvariant, PTL DEF Spec, TerminalOrdersFrozen

(* An order trades only on an event that arrived when it was active, and never, *)
(* when there is latency, on the one it was decided on.                        *)
THEOREM ExchangeNoFillBeforeActive == Spec => NoFillBeforeActive
<1> DEFINE Causal ==
             \A n \in NewFills :
                LET fill == fills'[n]
                IN  /\ fill.market_sequence = market'.sequence
                    /\ market'.receive_time >= orders'[fill.order_id].active_time
                    /\ AckLatency > 0 => fill.order_id \in DOMAIN orders /\ market' # market
<1>1. ExchangeInv /\ Next => Causal
  <2> SUFFICES ASSUME ExchangeInv, Next PROVE Causal
    OBVIOUS
  <2>1. ASSUME NEW event \in Events, AcceptEvent(event) PROVE Causal
    BY <2>1, AcceptEventStep DEF FillOn
  <2>2. ASSUME fills' = fills PROVE Causal
    BY <2>2 DEF NewFills
  <2>3. ASSUME NEW request \in Requests, NEW time \in CallTimes, Submit(request, time)
        PROVE  Causal
    <3>1. /\ market' = market
          /\ AckLatency # 0 => fills' = fills
          /\ \A n \in NewFills : FillOn(fills'[n], orders'[fills'[n].order_id], market)
      BY <2>3, SubmitStep
    <3>2. CASE AckLatency # 0
      BY <2>2, <3>1, <3>2
    <3>3. CASE AckLatency = 0
      BY <3>1, <3>3 DEF FillOn
    <3> QED
      BY <3>2, <3>3
  <2>4. ASSUME NEW request \in Requests, NEW time \in CallTimes, Cancel(request.id, time)
        PROVE  Causal
    BY <2>2, <2>4, CancelStep
  <2> HIDE DEF Causal
  <2> QED
    BY <2>1, <2>2, <2>3, <2>4 DEF Next, OnMarketEvent, IgnoreEvent
<1>2. ExchangeInv /\ [Next]_vars => [Causal]_vars
  <2> HIDE DEF Causal
  <2> QED
    BY <1>1
<1> QED
  BY <1>2, ExchangeInvariant, PTL DEF Spec, NoFillBeforeActive

(* The maker fills of a step use up at most the traded volume, each at the limit *)
(* of an order that no queue is left before, against the aggressor              *)
(* (paper_exchange.cpp, match_trade).                                        *)
THEOREM ExchangeMakerFillsRespectTape ==
    ASSUME QuantitiesShown
    PROVE  Spec => MakerFillsRespectTape
<1> DEFINE Respected ==
             LET makers == {n \in NewFills : fills'[n].maker}
             IN  /\ makers # {} =>
                       SumFunctionOnSet(Quantities(fills'), makers) <= market'.trade_quantity
                 /\ \A n \in makers :
                       LET order == orders'[fills'[n].order_id]
                       IN  /\ order.queue_ahead = 0
                           /\ fills'[n].price = order.request.limit_price
                           /\ order.request.side # market'.aggressor
<1>1. ExchangeInv /\ Next => Respected
  <2> SUFFICES ASSUME ExchangeInv, Next PROVE Respected
    OBVIOUS
  <2>1. ASSUME NEW event \in Events, AcceptEvent(event) PROVE Respected
    <3>1. /\ market' = event /\ KeepsToTape
          /\ \A n \in NewFills : FillOn(fills'[n], orders'[fills'[n].order_id], event)
      BY <2>1, AcceptEventStep
    <3> QED
      BY <3>1 DEF KeepsToTape, NewMakers, FillOn, OnTape
  <2>2. ASSUME NewMakers = {} PROVE Respected
    BY <2>2 DEF NewMakers
  <2>3. fills' = fills => NewMakers = {}
    BY DEF NewMakers, NewFills
  <2>4. ASSUME NEW request \in Requests, NEW time \in CallTimes, Submit(request, time)
        PROVE  Respected
    BY <2>2, <2>4, SubmitStep
  <2>5. ASSUME NEW request \in Requests, NEW time \in CallTimes, Cancel(request.id, time)
        PROVE  Respected
    BY <2>2, <2>3, <2>5, CancelStep
  <2> HIDE DEF Respected
  <2> QED
    BY <2>1, <2>2, <2>3, <2>4, <2>5 DEF Next, OnMarketEvent, IgnoreEvent
<1>2. ExchangeInv /\ [Next]_vars => [Respected]_vars
  <2> HIDE DEF Respected
  <2> QED
    BY <1>1
<1> QED
  BY <1>2, ExchangeInvariant, PTL DEF Spec, MakerFillsRespectTape

(* A cancellation takes effect on the first event at or after its due time, and *)
(* on none before.                                                          *)
THEOREM ExchangeCancelTiming == Spec => CancelTiming
<1> DEFINE Timed ==
             \A i \in DOMAIN orders :
                /\ orders'[i].status = "cancelled" /\ orders[i].status # "cancelled" =>
                       market' # market /\ market'.receive_time >= orders[i].cancel_due
                /\ market' # market /\ orders'[i].status = "cancel_pending" =>
                       market'.receive_time < orders[i].cancel_due
<1>1. ExchangeInv /\ Next => Timed
  <2> SUFFICES ASSUME ExchangeInv, Next PROVE Timed
    OBVIOUS
  <2>1. ASSUME NEW event \in Events, AcceptEvent(event) PROVE Timed
    BY <2>1, AcceptEventStep DEF Settles
  <2>2. ASSUME NEW event \in Events, IgnoreEvent(event) PROVE Timed
    BY <2>2 DEF IgnoreEvent
  <2>3. ASSUME NEW request \in Requests, NEW time \in CallTimes, Submit(request, time)
        PROVE  Timed
    BY <2>3, SubmitStep DEF Advances
  <2>4. ASSUME NEW request \in Requests, NEW time \in CallTimes, Cancel(request.id, time)
        PROVE  Timed
    BY <2>4, CancelStep
  <2> HIDE DEF Timed
  <2> QED
    BY <2>1, <2>2, <2>3, <2>4 DEF Next, OnMarketEvent
<1>2. ExchangeInv /\ [Next]_vars => [Timed]_vars
  <2> HIDE DEF Timed
  <2> QED
    BY <1>1
<1> QED
  BY <1>2, ExchangeInvariant, PTL DEF Spec, CancelTiming

-----------------------------------------------------------------------------
(* Orders that execute when they are accepted: market orders, no latency, decided *)
(* no later than the last event was received.                                 *)
ExecutesAtOnce ==
    /\ AckLatency = 0
    /\ \A delay \in Delays : delay <= 0
    /\ \A request \in Requests : request.type = "market"

Ended(book) == \A i \in DOMAIN book.orders : book.orders[i].status \in Terminal

(* Once every order has ended, activated is all of the book that an event changes. *)
LEMMA EndedSettles ==
    ASSUME NEW b, BookInv(b), Ended(b), NEW event \in MarketEvents,
           NEW first, ActivationPass(first, event) = b,
           NEW c, c = AfterEvent(first, event)
    PROVE  c.orders = b.orders /\ c.fills = b.fills /\ c.ledger.position = b.ledger.position
<1>1. b \in Books /\ b.orders \in Seq(OrderRecords) /\ b.ledger \in Ledgers
  BY DEF BookInv, Books
<1>2. \A i \in 1 .. Len(b.orders) : b.orders[i].status \in Terminal
  BY <1>1 DEF Ended
<1>4. MatchPass(b, event) = b
  <2>1. CASE ~HasTrade(event)
    BY <2>1 DEF MatchPass
  <2>2. CASE HasTrade(event)
    <3> DEFINE start == [book |-> b, available |-> event.trade_quantity]
           S == {start}
    <3>1. \A p \in S : \A i \in 1 .. Len(b.orders) : ~Matchable(p.book.orders[i], event)
      BY <1>2 DEF Matchable, Terminal
    <3>2. start \in S /\ Len(b.orders) \in Nat
      BY <1>1
    <3>3. \E p \in S : MatchPass(b, event) = p.book
      <4> HIDE DEF S
      <4> QED
        BY <2>2, <3>1, <3>2, MatchPassStays
    <3> QED
      BY <3>3
  <2> QED
    BY <2>1, <2>2
<1> DEFINE settled == CancelPass(b, event)
<1>5. /\ settled \in Books /\ settled.orders = b.orders
      /\ settled.fills = b.fills /\ settled.ledger = b.ledger
  <2> DEFINE ordered == [i \in DOMAIN b.orders |->
                           IF CancelDue(b.orders[i], event)
                           THEN [b.orders[i] EXCEPT !.status = "cancelled", !.remaining = 0]
                           ELSE b.orders[i]]
  <2>1. settled = [orders |-> ordered, fills |-> b.fills, ledger |-> b.ledger]
    BY <1>1, BookWithOrders DEF CancelPass
  <2>2. ordered = b.orders
    <3>1. \A i \in DOMAIN b.orders : ~CancelDue(b.orders[i], event)
      BY <1>1, <1>2 DEF CancelDue, Terminal
    <3>2. b.orders = [i \in DOMAIN b.orders |-> b.orders[i]]
      BY <1>1
    <3> QED
      BY <3>1, <3>2
  <2> HIDE DEF settled, ordered
  <2> QED
    BY <1>1, <2>1, <2>2 DEF Books
<1> HIDE DEF settled
<1>6. c = [settled EXCEPT !.ledger = AfterMark(settled.ledger, Midpoint(event))]
  BY <1>4 DEF AfterEvent, settled
<1>7. Midpoint(event) \in Int
  BY DEF Midpoint, MarketEvents
<1>8. AfterMark(b.ledger, Midpoint(event)).position = b.ledger.position
  BY <1>1, <1>7, MarkOutcome
<1>9. /\ c.orders = settled.orders /\ c.fills = settled.fills
      /\ c.ledger = AfterMark(settled.ledger, Midpoint(event))
  BY <1>5, <1>6 DEF Books
<1> QED
  BY <1>5, <1>8, <1>9

(* An event changes nothing but the mark when every order has ended. *)
LEMMA IdleEvent ==
    ASSUME NEW b, BookInv(b), Ended(b), NEW event \in ShownEvents, event \in MarketEvents,
           NEW c, c = AfterEvent(b, event)
    PROVE  c.orders = b.orders /\ c.fills = b.fills /\ c.ledger.position = b.ledger.position
<1>1. b.orders \in Seq(OrderRecords) /\ \A i \in 1 .. Len(b.orders) : b.orders[i].status \in Terminal
  BY DEF BookInv, Books, Ended
<1>2. ActivationPass(b, event) = b
  <2> DEFINE S == {b}
  <2>1. \A d \in S : \A i \in 1 .. Len(b.orders) : ~DueToActivate(d.orders[i], event)
    BY <1>1 DEF DueToActivate, Terminal
  <2>2. b \in S /\ Len(b.orders) \in Nat
    BY <1>1
  <2>3. ActivationPass(b, event) \in S
    <3> HIDE DEF S
    <3> QED
      BY <2>1, <2>2, ActivationPassStays
  <2> QED
    BY <2>3
<1> QED
  BY <1>2, EndedSettles

(* Order i is done with: it took all that remained of it, or nothing. *)
Finishes(b, c, i) ==
    /\ DOMAIN c.orders = DOMAIN b.orders
    /\ \A j \in DOMAIN b.orders \ {i} : c.orders[j] = b.orders[j]
    /\ \/ /\ c.orders[i].status = "rejected"
          /\ c.fills = b.fills /\ c.ledger.position = b.ledger.position
       \/ /\ c.orders[i].status = "filled"
          /\ c.fills # <<>>
          /\ \A n \in DOMAIN c.fills \ DOMAIN b.fills : c.fills[n].order_id = i
          /\ c.fills[Len(c.fills)].order_id = i
          /\ c.ledger.position
               = b.ledger.position
                 + SignedQuantity(b.orders[i].request.side, b.orders[i].remaining)

LEMMA RejectFinishes ==
    ASSUME NEW b, BookInv(b), NEW i \in DOMAIN b.orders
    PROVE  Finishes(b, WithStatus(b, i, "rejected"), i)
<1> DEFINE order == [b.orders[i] EXCEPT !.status = "rejected"]
<1>1. b \in Books /\ b.orders \in Seq(OrderRecords)
  BY DEF BookInv, Books
<1>2. order.status = "rejected"
  BY <1>1 DEF OrderRecords
<1>3. WithStatus(b, i, "rejected")
        = [orders |-> [b.orders EXCEPT ![i] = order], fills |-> b.fills, ledger |-> b.ledger]
  BY <1>1, BookWithOrders DEF WithStatus
<1> HIDE DEF order
<1> QED
  BY <1>1, <1>2, <1>3 DEF Finishes

LEMMA FillFinishes ==
    ASSUME NEW b, BookInv(b), NEW i \in DOMAIN b.orders, NEW event \in MarketEvents,
           b.orders[i].status \notin Terminal, NEW price \in Int
    PROVE  Finishes(b, Fill(b, i, b.orders[i].remaining, price, FALSE, event), i)
<1> DEFINE before == b.orders[i]
           quantity == before.remaining
           signed == SignedQuantity(before.request.side, quantity)
           fee == Fee(quantity, price, FALSE)
           c == Executed(b, i, quantity, price, FALSE, event)
<1>1. /\ b \in Books /\ b.orders \in Seq(OrderRecords) /\ b.fills \in Seq(FillRecords)
      /\ b.ledger \in Ledgers /\ OrderInv(before) /\ before \in OrderRecords
  BY DEF BookInv, Books, OrderInv
<1>2. quantity \in Nat /\ quantity > 0 /\ signed \in Int
  BY <1>1 DEF OrderInv, OrderRecords, Terminal, SignedQuantity
<1>3. Lesser(quantity, b.orders[i].remaining) = quantity
  BY DEF Lesser
<1>4. CASE FillRefused(b, i, quantity, price, FALSE)
  <2>1. Fill(b, i, quantity, price, FALSE, event) = WithStatus(b, i, "rejected")
    BY <1>2, <1>3, <1>4 DEF Fill
  <2> QED
    BY <2>1, RejectFinishes
<1>5. CASE ~FillRefused(b, i, quantity, price, FALSE)
  <2>1. Fill(b, i, quantity, price, FALSE, event) = c
    <3> DEFINE taken == Lesser(quantity, b.orders[i].remaining)
    <3>1. taken > 0 /\ taken = quantity /\ ~FillRefused(b, i, taken, price, FALSE)
      BY <1>2, <1>3, <1>5
    <3>2. ~(taken <= 0)
      BY <1>2, <3>1
    <3> HIDE DEF quantity, before, signed, fee, taken
    <3>3. Fill(b, i, quantity, price, FALSE, event) = Executed(b, i, taken, price, FALSE, event)
      BY <3>1, <3>2 DEF Fill, taken
    <3> QED
      BY <3>1, <3>3
  <2>2. fee \in Int /\ FillError(b.ledger, signed, price, fee) = "ok"
    BY <1>5, UnitsAreInts DEF FillRefused, Fits
  <2>3. AfterFill(b.ledger, signed, price, fee).position = b.ledger.position + signed
    <3> HIDE DEF fee, signed
    <3> QED
      BY <1>1, <1>2, <2>2, FillOutcome
  <2> DEFINE order == [before EXCEPT !.remaining = before.remaining - quantity,
                                     !.filled = before.filled + quantity,
                                     !.status = "filled"]
             fill == [order_id |-> i, market_sequence |-> event.sequence,
                      side |-> before.request.side, quantity |-> quantity,
                      price |-> price, fee |-> fee, maker |-> FALSE,
                      realized_pnl |-> Realized(b.ledger, signed, price)]
  <2>4. /\ c.orders = [b.orders EXCEPT ![i] = order] /\ c.fills = Append(b.fills, fill)
        /\ c.ledger = AfterFill(b.ledger, signed, price, fee)
    BY <1>1 DEF Executed, OrderRecords
  <2>5. order.status = "filled" /\ fill.order_id = i
    BY <1>1 DEF OrderRecords
  <2> HIDE DEF c, order, fill, before
  <2>6. /\ \A n \in DOMAIN c.fills \ DOMAIN b.fills : c.fills[n].order_id = i
        /\ c.fills # <<>> /\ c.fills[Len(c.fills)].order_id = i
    <3> DEFINE last == Len(b.fills) + 1
    <3>1. /\ DOMAIN c.fills = DOMAIN b.fills \cup {last} /\ c.fills[last] = fill
          /\ Len(c.fills) = last /\ last # 0 /\ Len(<<>>) = 0
      BY <1>1, <2>4
    <3> HIDE DEF last
    <3> QED
      BY <2>5, <3>1
  <2>7. /\ DOMAIN c.orders = DOMAIN b.orders /\ c.orders[i] = order
        /\ \A j \in DOMAIN b.orders \ {i} : c.orders[j] = b.orders[j]
    BY <1>1, <2>4
  <2>8. c.ledger.position
          = b.ledger.position
            + SignedQuantity(b.orders[i].request.side, b.orders[i].remaining)
    BY <2>3, <2>4 DEF before
  <2> QED
    BY <2>1, <2>5, <2>6, <2>7, <2>8 DEF Finishes, before
<1> QED
  BY <1>4, <1>5

LEMMA MarketOrderFinishes ==
    ASSUME NEW b, BookInv(b), NEW i \in DOMAIN b.orders, NEW event \in MarketEvents,
           b.orders[i].status = "pending", b.orders[i].request.type = "market",
           event.receive_time >= b.orders[i].active_time
    PROVE  Finishes(b, Activate(b, i, event), i)
<1> DEFINE side == b.orders[i].request.side
           top == Top(side, event)
<1>1. b.orders[i] \in OrderRecords
  BY DEF BookInv, OrderInv
<1>2. Activate(b, i, event) = ActivateMarket(b, i, event)
  <2>1. ~(event.receive_time < b.orders[i].active_time)
    BY <1>1 DEF MarketEvents, OrderRecords
  <2> QED
    BY <2>1 DEF Activate, Terminal
<1>3. b.orders[i].status \notin Terminal
  BY DEF Terminal
<1>4. CASE CanSlip(side, top)
  <2>1. SlippedPrice(side, top) \in Int
    BY <1>4, UnitsAreInts DEF CanSlip, Fits
  <2> QED
    BY <1>2, <1>3, <1>4, <2>1, FillFinishes DEF ActivateMarket
<1>5. CASE ~CanSlip(side, top)
  BY <1>2, <1>5, RejectFinishes DEF ActivateMarket
<1> QED
  BY <1>4, <1>5

(* The last order waits for its acknowledgement, and the others have ended. *)
LastWaits(b) ==
    /\ \A i \in DOMAIN b.orders \ {Len(b.orders)} : b.orders[i].status \in Terminal
    /\ b.orders # <<>>
    /\ b.orders[Len(b.orders)].status = "pending"
    /\ b.orders[Len(b.orders)].request.type = "market"

(* An event that acknowledges it is done with it. *)
LEMMA WaitingOrderFinishes ==
    ASSUME NEW b, BookInv(b), LastWaits(b), NEW event \in ShownEvents, event \in MarketEvents,
           NEW last, last = Len(b.orders),
           event.receive_time >= b.orders[last].active_time,
           NEW c, c = AfterEvent(b, event)
    PROVE  Finishes(b, c, last) /\ Ended(c)
<1> DEFINE d == Activate(b, last, event)
           S == {b, d}
<1>1. /\ b.orders \in Seq(OrderRecords) /\ last \in Nat \ {0} /\ DOMAIN b.orders = 1 .. last
      /\ last \in DOMAIN b.orders
  BY DEF BookInv, Books, LastWaits
<1>2. /\ b.orders[last].status = "pending" /\ b.orders[last].request.type = "market"
      /\ \A i \in 1 .. last : i # last => b.orders[i].status \in Terminal
  BY <1>1 DEF LastWaits
<1>3. Finishes(b, d, last) /\ BookInv(d)
  BY <1>1, <1>2, MarketOrderFinishes, ActivateReaches DEF Reaches
<1> HIDE DEF d
<1>4. Ended(d)
  BY <1>1, <1>2, <1>3 DEF Finishes, Ended, Terminal
<1>5. /\ DueToActivate(b.orders[last], event)
      /\ \A i \in 1 .. last : i # last => ~DueToActivate(b.orders[i], event)
      /\ \A i \in 1 .. last : ~DueToActivate(d.orders[i], event)
  <2>1. \A i \in 1 .. last : d.orders[i].status \in Terminal
    BY <1>1, <1>3, <1>4 DEF Ended, Finishes
  <2> QED
    BY <1>2, <2>1 DEF DueToActivate, Terminal
<1>6. PICK pass : IsActivation(pass, b, event)
  <2>1. \A x \in S : \A i \in 1 .. Len(b.orders) :
           DueToActivate(x.orders[i], event) => Activate(x, i, event) \in S
    BY <1>5 DEF d
  <2>2. b \in S /\ Len(b.orders) \in Nat
    BY <1>1
  <2> HIDE DEF S
  <2> QED
    BY <2>1, <2>2, ActivationPassRuns
<1>7. pass[last - 1] = b
  <2> DEFINE T == {b}
  <2>1. pass[0] \in T /\ last - 1 \in Nat
    BY <1>1, <1>6 DEF IsActivation
  <2>2. ASSUME NEW i \in 1 .. last - 1, pass[i - 1] \in T PROVE pass[i] \in T
    BY <1>1, <1>5, <1>6, <2>2 DEF IsActivation
  <2>3. pass[last - 1] \in T
    <3> HIDE DEF T
    <3> QED
      BY <2>1, <2>2, PassStays
  <2> QED
    BY <2>3
<1>8. ActivationPass(b, event) = d
  BY <1>1, <1>5, <1>6, <1>7 DEF IsActivation, d
<1>9. c.orders = d.orders /\ c.fills = d.fills /\ c.ledger.position = d.ledger.position
  BY <1>3, <1>4, <1>8, EndedSettles
<1> QED
  BY <1>3, <1>4, <1>9 DEF Finishes, Ended

-----------------------------------------------------------------------------
(* submit rounds the quantity down, and the risk engine saw it before. *)

LEMMA RoundedDown ==
    ASSUME NEW x \in Nat, NEW y \in Nat \ {0}
    PROVE  TruncDiv(x, y) * y <= x
<1>1. TruncDiv(x, y) = x \div y
  BY DEF TruncDiv
<1>2. (x \div y) * y <= x
  BY Z3
<1> QED
  BY <1>1, <1>2

LEMMA RiskAccepted ==
    ASSUME NEW request \in OrderRequests(Ids), NEW time \in Int,
           SubmitReason(request, time) = "accept"
    PROVE  /\ ~OverPositionLimit(request, ledger)
           /\ ~NotReducing(request, ledger)
           /\ Normalized(request).quantity \in 1 .. request.quantity
           /\ Normalized(request).side = request.side
           /\ Normalized(request).type = request.type
           /\ Normalized(request).reduce_only = request.reduce_only
<1>1. /\ ConfigValid
      /\ Evaluate(request, market, ledger, time) = "accept"
  BY DEF SubmitReason
<1>2. QuantityStep \in Nat \ {0}
  BY <1>1, ExchangeAssumption DEF ConfigValid
<1>3. /\ ~(request.quantity <= 0)
      /\ ~OverPositionLimit(request, ledger)
      /\ ~NotReducing(request, ledger)
  BY <1>1 DEF Evaluate
<1>4. request.quantity \in Nat
  BY <1>2, <1>3 DEF OrderRequests
<1>5. TruncDiv(request.quantity, QuantityStep) * QuantityStep <= request.quantity
  BY <1>2, <1>4, RoundedDown
<1>6. /\ Normalized(request).quantity
             = TruncDiv(request.quantity, QuantityStep) * QuantityStep
      /\ Normalized(request).side = request.side
      /\ Normalized(request).type = request.type
      /\ Normalized(request).reduce_only = request.reduce_only
  BY <1>2 DEF Normalized, OrderRequests
<1>7. /\ Normalized(request).quantity > 0
      /\ Normalized(request) \in OrderRequests(Ids)
  BY AcceptedRequest
<1>8. Normalized(request).quantity \in Int
  BY <1>7 DEF OrderRequests
<1> QED
  BY <1>3, <1>4, <1>5, <1>6, <1>7, <1>8

(* A part of a step that stays in bounds stays in bounds, and a part of one that *)
(* shrinks a position without reversing it does so too.                        *)
LEMMA PartWithinLimit ==
    ASSUME NEW position \in Int, NEW request, request.side \in Sides, request.quantity \in Int,
           NEW account, account.position = position,
           NEW quantity \in 1 .. request.quantity,
           NEW after, after = position + SignedQuantity(request.side, quantity),
           MaxPosition > 0, Magnitude(position) <= MaxPosition,
           ~OverPositionLimit(request, account)
    PROVE  Magnitude(after) <= MaxPosition
<1> DEFINE projected == position + SignedQuantity(request.side, request.quantity)
<1>1. projected \in Int /\ MaxPosition \in Int
  BY RiskAssumption DEF SignedQuantity
<1>2. Magnitude(projected) <= MaxPosition
  <2>1. Magnitude(projected) \in Int
    BY <1>1 DEF Magnitude
  <2>2. ~(Magnitude(projected) > MaxPosition)
    BY DEF OverPositionLimit, Projected
  <2> HIDE DEF projected
  <2> QED
    BY <1>1, <2>1, <2>2
<1> QED
  BY <1>1, <1>2 DEF Magnitude, SignedQuantity

LEMMA PartReduces ==
    ASSUME NEW position \in Int, NEW request, request.side \in Sides, request.quantity \in Int,
           NEW account, account.position = position,
           NEW quantity \in 1 .. request.quantity,
           NEW after, after = position + SignedQuantity(request.side, quantity),
           request.reduce_only, ~NotReducing(request, account)
    PROVE  /\ Magnitude(after) < Magnitude(position)
           /\ after # 0 => Sign(after) = Sign(position)
<1> DEFINE projected == position + SignedQuantity(request.side, request.quantity)
<1>1. projected \in Int
  BY DEF SignedQuantity
<1>2. /\ position # 0
      /\ ~(Magnitude(projected) >= Magnitude(position))
      /\ ~(projected # 0 /\ (projected > 0) # (position > 0))
  BY DEF NotReducing, Projected
<1>3. Magnitude(projected) < Magnitude(position)
  BY <1>1, <1>2 DEF Magnitude
<1>4. /\ projected > 0 => position > 0
      /\ projected < 0 => position < 0
  <2>1. projected # 0 => ((projected > 0) <=> (position > 0))
    BY <1>2
  <2> HIDE DEF projected
  <2> QED
    BY <1>1, <1>2, <2>1
<1> QED
  BY <1>1, <1>2, <1>3, <1>4 DEF Magnitude, SignedQuantity, Sign
(* What an accepted request does at once: nothing, or a trade of at most its      *)
(* quantity that both checks of the position have seen.                        *)
Takes(request) ==
    \/ fills' = fills /\ ledger'.position = ledger.position
    \/ /\ \A n \in NewFills :
             orders'[fills'[n].order_id].request.reduce_only = request.reduce_only
       /\ \E quantity \in 1 .. request.quantity :
             ledger'.position = ledger.position + SignedQuantity(request.side, quantity)

(* An accepted market order without latency is done with when submit returns. *)
LEMMA SubmitFinishes ==
    ASSUME BookInv(Book), Balanced(Book), market \in ShownEvents \cup {None}, AckLatency = 0,
           NEW request \in OrderRequests(Ids), request.type = "market",
           NEW time \in Int, SubmitReason(request, time) = "accept",
           time <= market.receive_time,
           NEW stored, stored = Stored(request, time),
           NEW after, after = AfterSubmit(request, time),
           NEW last, last = Len(orders) + 1
    PROVE  /\ Finishes(stored, after, last)
           /\ stored.orders[last].request = Normalized(request)
           /\ stored.orders[last].remaining = Normalized(request).quantity
<1>1. /\ market \in ShownEvents /\ market \in MarketEvents
      /\ BookInv(stored) /\ last \in DOMAIN stored.orders
      /\ stored.orders[last] = NewOrder(request, time)
      /\ stored.orders[last].status = "pending"
      /\ after = Activate(stored, last, market)
  BY SubmitStores
<1>2. /\ stored.orders[last].request = Normalized(request)
      /\ stored.orders[last].remaining = Normalized(request).quantity
      /\ stored.orders[last].active_time = time + AckLatency
  BY <1>1 DEF NewOrder
<1>3. Normalized(request).type = "market"
  BY DEF Normalized, OrderRequests
<1>4. market.receive_time >= stored.orders[last].active_time
  BY <1>1, <1>2 DEF MarketEvents
<1> QED
  BY <1>1, <1>2, <1>3, <1>4, MarketOrderFinishes

LEMMA SubmitTakes ==
    ASSUME ExecutesAtOnce, ExchangeInv, Ended(Book),
           NEW request \in Requests, NEW time \in CallTimes, Submit(request, time)
    PROVE  /\ Ended(Book') /\ Takes(request)
           /\ ~OverPositionLimit(request, ledger) /\ ~NotReducing(request, ledger)
           /\ request.side \in Sides /\ request.quantity \in Int
<1> DEFINE stored == Stored(request, time)
           after == AfterSubmit(request, time)
           last == Len(orders) + 1
<1>1. Becomes(after) /\ SubmitReason(request, time) = "accept"
  BY DEF Submit
<1>2. /\ request \in OrderRequests(Ids) /\ time \in Int
      /\ BookInv(Book) /\ Balanced(Book) /\ market \in ShownEvents \cup {None}
      /\ market # None => market \in MarketEvents
  BY RequestsTyped, FeedShows, ExchangeAssumption DEF ExchangeInv
<1>3. AckLatency = 0 /\ request.type = "market"
  BY DEF ExecutesAtOnce
<1>4. time <= market.receive_time
  <2>1. PICK delay \in Delays : market # None /\ time = market.receive_time + delay
    BY DEF CallTimes
  <2>2. delay \in Int /\ delay <= 0 /\ market.receive_time \in Int
    BY <1>2, <2>1, ExchangeAssumption DEF ExecutesAtOnce, MarketEvents
  <2> QED
    BY <2>1, <2>2
<1> HIDE DEF stored, after, last
<1>5. /\ stored.fills = fills /\ stored.ledger = ledger
      /\ DOMAIN stored.orders = DOMAIN orders \cup {last}
      /\ \A i \in DOMAIN orders : stored.orders[i] = orders[i]
      /\ last \notin DOMAIN orders
  BY <1>1, <1>2, SubmitStores DEF stored, last
<1>6. /\ ~OverPositionLimit(request, ledger) /\ ~NotReducing(request, ledger)
      /\ Normalized(request).quantity \in 1 .. request.quantity
      /\ Normalized(request).side = request.side
      /\ Normalized(request).reduce_only = request.reduce_only
  BY <1>1, <1>2, RiskAccepted
<1>7. /\ Finishes(stored, after, last)
      /\ stored.orders[last].request = Normalized(request)
      /\ stored.orders[last].remaining = Normalized(request).quantity
  BY <1>1, <1>2, <1>3, <1>4, SubmitFinishes DEF stored, after, last
<1>8. Reaches(stored, after, market)
  BY <1>1, <1>2, SubmitReaches DEF stored, after
<1>9. orders' = after.orders /\ fills' = after.fills /\ ledger' = after.ledger /\ Book' = after
  BY <1>1, <1>8, BookBecomes DEF Reaches
<1>10. Ended(Book')
  <2>1. ASSUME NEW i \in DOMAIN after.orders PROVE after.orders[i].status \in Terminal
    <3>1. CASE i = last
      BY <1>7, <3>1 DEF Finishes, Terminal
    <3>2. CASE i # last
      <4>1. i \in DOMAIN orders /\ after.orders[i] = orders[i]
        BY <1>5, <1>7, <3>2 DEF Finishes
      <4> QED
        BY <4>1, BookFields DEF Ended
    <3> QED
      BY <3>1, <3>2
  <2> QED
    BY <1>9, <2>1 DEF Ended
<1>11. Takes(request)
  <2>1. CASE after.fills = stored.fills /\ after.ledger.position = stored.ledger.position
    BY <1>5, <1>9, <2>1 DEF Takes
  <2>2. CASE /\ \A n \in DOMAIN after.fills \ DOMAIN stored.fills : after.fills[n].order_id = last
             /\ after.ledger.position
                  = stored.ledger.position
                    + SignedQuantity(stored.orders[last].request.side, stored.orders[last].remaining)
    <3>1. after.orders[last].request = Normalized(request)
      BY <1>5, <1>7, <1>8 DEF Reaches, Progress, Advances
    <3>2. \A n \in NewFills :
             orders'[fills'[n].order_id].request.reduce_only = request.reduce_only
      BY <1>5, <1>6, <1>9, <2>2, <3>1 DEF NewFills
    <3>3. ledger'.position
            = ledger.position + SignedQuantity(request.side, Normalized(request).quantity)
      BY <1>5, <1>6, <1>7, <1>9, <2>2
    <3> QED
      BY <1>6, <3>2, <3>3 DEF Takes
  <2> QED
    BY <1>7, <2>1, <2>2 DEF Finishes
<1>12. request.side \in Sides /\ request.quantity \in Int
  BY <1>2 DEF OrderRequests
<1> QED
  BY <1>6, <1>10, <1>11, <1>12

AtOnceInv == ExchangeInv /\ Ended(Book) /\ PositionWithinLimit

LEMMA AtOnceStep ==
    ASSUME ExecutesAtOnce, AtOnceInv, Next
    PROVE  /\ AtOnceInv'
           /\ \/ fills' = fills
              \/ \E request \in Requests :
                    Takes(request) /\ ~NotReducing(request, ledger)
                    /\ request.side \in Sides /\ request.quantity \in Int
<1> USE DEF AtOnceInv
<1>1. ledger.position \in Int
  BY BookFields DEF ExchangeInv, BookInv, Books, Ledgers
<1>2. ASSUME NEW event \in Events, AcceptEvent(event)
      PROVE  AtOnceInv' /\ fills' = fills
  <2> DEFINE after == AfterEvent(Book, event)
  <2>1. ExchangeInv'
    BY <1>2, AcceptEventStep
  <2>2. event \in MarketEvents /\ event \in ShownEvents /\ Becomes(after)
    BY <1>2, ExchangeAssumption, FeedShows DEF AcceptEvent
  <2>3. BookInv(after)
    BY <2>2, EventSettles DEF ExchangeInv
  <2>4. /\ after.orders = Book.orders /\ after.fills = Book.fills
        /\ after.ledger.position = Book.ledger.position
    BY <2>2, IdleEvent DEF ExchangeInv
  <2> HIDE DEF after
  <2>5. /\ orders' = orders /\ fills' = fills /\ ledger'.position = ledger.position
        /\ Book'.orders = Book.orders
    BY <2>2, <2>3, <2>4, BookBecomes, BookFields
  <2> QED
    BY <2>1, <2>5 DEF Ended, PositionWithinLimit
<1>3. ASSUME NEW event \in Events, IgnoreEvent(event)
      PROVE  AtOnceInv' /\ fills' = fills
  BY <1>3 DEF IgnoreEvent, ExchangeInv, Book, Ended, PositionWithinLimit
<1>4. ASSUME NEW request \in Requests, NEW time \in CallTimes, Submit(request, time)
      PROVE  /\ AtOnceInv'
             /\ Takes(request) /\ ~NotReducing(request, ledger)
             /\ request.side \in Sides /\ request.quantity \in Int
  <2>1. /\ Ended(Book') /\ Takes(request)
        /\ ~OverPositionLimit(request, ledger) /\ ~NotReducing(request, ledger)
        /\ request.side \in Sides /\ request.quantity \in Int
    BY <1>4, SubmitTakes
  <2>2. ExchangeInv'
    BY <1>4, SubmitStep
  <2>3. PositionWithinLimit'
    <3> SUFFICES ASSUME MaxPosition > 0 PROVE Magnitude(ledger'.position) <= MaxPosition
      BY DEF PositionWithinLimit
    <3>1. Magnitude(ledger.position) <= MaxPosition
      BY DEF PositionWithinLimit
    <3>2. CASE ledger'.position = ledger.position
      BY <3>1, <3>2
    <3>3. ASSUME NEW quantity \in 1 .. request.quantity,
                 ledger'.position = ledger.position + SignedQuantity(request.side, quantity)
          PROVE  Magnitude(ledger'.position) <= MaxPosition
      BY <1>1, <2>1, <3>1, <3>3, PartWithinLimit
    <3> QED
      BY <2>1, <3>2, <3>3 DEF Takes
  <2> QED
    BY <2>1, <2>2, <2>3
<1>5. ASSUME NEW request \in Requests, NEW time \in CallTimes, Cancel(request.id, time)
      PROVE  FALSE
  <2>1. PICK i \in DOMAIN orders : orders[i].status \notin Terminal
    BY <1>5 DEF Cancel, OrderOf, CancelAccepted
  <2> QED
    BY <2>1, BookFields DEF Ended
<1> QED
  BY <1>2, <1>3, <1>4, <1>5 DEF Next, OnMarketEvent

LEMMA AtOnceInvariant ==
    ASSUME ExecutesAtOnce
    PROVE  Spec => []AtOnceInv
<1>1. Init => AtOnceInv
  <2> SUFFICES ASSUME Init PROVE AtOnceInv
    OBVIOUS
  <2>1. ExchangeInv
    BY InitExchangeInv
  <2>2. Ended(Book)
    BY BookFields DEF Ended, Init
  <2>3. PositionWithinLimit
    BY RiskAssumption DEF Init, PositionWithinLimit, InitialLedger, Magnitude
  <2> QED
    BY <2>1, <2>2, <2>3 DEF AtOnceInv
<1>2. AtOnceInv /\ [Next]_vars => AtOnceInv'
  <2> SUFFICES ASSUME AtOnceInv, [Next]_vars PROVE AtOnceInv'
    OBVIOUS
  <2>1. CASE Next
    BY <2>1, AtOnceStep
  <2>2. CASE UNCHANGED vars
    BY <2>2 DEF vars, AtOnceInv, ExchangeInv, Book, Ended, PositionWithinLimit
  <2> QED
    BY <2>1, <2>2
<1> QED
  BY <1>1, <1>2, PTL DEF Spec

(* The risk engine counts the position and not the orders that are still working; *)
(* where no order ever works, the position stays within the limit (risk.cpp,      *)
(* evaluate).  An order is checked at its full quantity and trades it rounded     *)
(* down.                                                                     *)
THEOREM ExchangePositionWithinLimit ==
    ASSUME ExecutesAtOnce
    PROVE  Spec => []PositionWithinLimit
<1>1. AtOnceInv => PositionWithinLimit
  BY DEF AtOnceInv
<1> QED
  BY <1>1, AtOnceInvariant, PTL

(* And a reduce-only order that trades leaves a smaller position on its side.    *)
THEOREM ExchangeReduceOnlyShrinks ==
    ASSUME ExecutesAtOnce
    PROVE  Spec => ReduceOnlyShrinks
<1> DEFINE Shrinks ==
             \A n \in NewFills :
                orders'[fills'[n].order_id].request.reduce_only =>
                   /\ Magnitude(ledger'.position) < Magnitude(ledger.position)
                   /\ ledger'.position # 0 => Sign(ledger'.position) = Sign(ledger.position)
<1>1. AtOnceInv /\ Next => Shrinks
  <2> SUFFICES ASSUME AtOnceInv, Next, NEW n \in NewFills,
                      orders'[fills'[n].order_id].request.reduce_only
               PROVE  /\ Magnitude(ledger'.position) < Magnitude(ledger.position)
                      /\ ledger'.position # 0 => Sign(ledger'.position) = Sign(ledger.position)
    OBVIOUS
  <2>1. fills' # fills
    BY DEF NewFills
  <2>2. PICK request \in Requests :
           /\ Takes(request) /\ ~NotReducing(request, ledger)
           /\ request.side \in Sides /\ request.quantity \in Int
    BY <2>1, AtOnceStep
  <2>3. request.reduce_only
    BY <2>1, <2>2 DEF Takes
  <2>4. PICK quantity \in 1 .. request.quantity :
           ledger'.position = ledger.position + SignedQuantity(request.side, quantity)
    BY <2>1, <2>2 DEF Takes
  <2>5. ledger.position \in Int
    BY BookFields DEF AtOnceInv, ExchangeInv, BookInv, Books, Ledgers
  <2> QED
    BY <2>2, <2>3, <2>4, <2>5, PartReduces
<1>2. AtOnceInv /\ [Next]_vars => [Shrinks]_vars
  <2> HIDE DEF Shrinks
  <2> QED
    BY <1>1
<1> QED
  BY <1>2, AtOnceInvariant, PTL DEF Spec, ReduceOnlyShrinks
=============================================================================
