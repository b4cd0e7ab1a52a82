-------------------------- MODULE FundTransferProofs --------------------------
(***************************************************************************)
(* Safety of FundTransfer for every set of requests, accounts, keys,        *)
(* amounts and rates, and its refinement of Ledger.                         *)
(*                                                                         *)
(* The inductive invariant says, for each request, what its program counter *)
(* implies about its body, its locks, the objects its session has loaded    *)
(* and the snapshots it relies on; the lemma OtherKept says that a step of  *)
(* another request cannot disturb it, and one lemma per step of the three   *)
(* services that the step keeps its own.                                    *)
(***************************************************************************)
EXTENDS FundTransfer, Functions, FiniteSetTheorems, TLAPS

-------------------------------------------------------------------------------
(* Rounding, fees, and sums over the transfers of an account. *)

(* Rounding a natural quotient half up gives a natural number.              *)
LEMMA HalfUpNat ==
  ASSUME NEW n \in Nat, NEW d \in Nat \ {0}
  PROVE  HalfUp(n, d) \in Nat
  BY DEF HalfUp

(* A multiple of the divisor is not rounded.                                *)
LEMMA HalfUpExact ==
  ASSUME NEW n \in Nat, NEW d \in Nat \ {0}
  PROVE  HalfUp(d * n, d) = n
  BY DEF HalfUp

(* ROUND_HALF_UP is off by at most half a unit, upwards in a tie.           *)
LEMMA HalfUpNear ==
  ASSUME NEW n \in Nat, NEW d \in Nat \ {0}
  PROVE  /\ 2 * d * HalfUp(n, d) <= 2 * n + d
         /\ 2 * n - d < 2 * d * HalfUp(n, d)
  BY DEF HalfUp

(* Decimal's default rounding of a natural quotient is a natural number.    *)
LEMMA HalfEvenNat ==
  ASSUME NEW n \in Nat, NEW d \in Nat \ {0}
  PROVE  HalfEven(n, d) \in Nat
  BY DEF HalfEven

(* ROUND_HALF_EVEN is off by at most half a unit.                           *)
LEMMA HalfEvenNear ==
  ASSUME NEW n \in Nat, NEW d \in Nat \ {0}
  PROVE  /\ 2 * d * HalfEven(n, d) <= 2 * n + d
         /\ 2 * n - d <= 2 * d * HalfEven(n, d)
  BY DEF HalfEven

(* A quotient of at most c is rounded to at most c.                         *)
LEMMA HalfUpBound ==
  ASSUME NEW n \in Nat, NEW d \in Nat \ {0}, NEW c \in Nat, n <= d * c
  PROVE  HalfUp(n, d) <= c
  <1> DEFINE h == HalfUp(n, d)
  <1>1. h \in Nat /\ 2 * d * h <= 2 * n + d
    BY HalfUpNat, HalfUpNear
  <1> HIDE DEF h
  <1>2. 2 * d * h <= 2 * (d * c) + d
    BY <1>1
  <1>3. SUFFICES ASSUME h >= c + 1 PROVE FALSE
    BY <1>1 DEF h
  <1>4. d * h >= d * (c + 1)
    BY <1>1, <1>3
  <1>5. d * (c + 1) = d * c + d
    OBVIOUS
  <1> DEFINE x == d * h
             y == d * c
  <1>6. x \in Nat /\ y \in Nat /\ 2 * d * h = 2 * x
    BY <1>1
  <1> HIDE DEF x, y
  <1> QED
    BY <1>2, <1>4, <1>5, <1>6 DEF x, y

USE QuantumAssumption, RateScaleAssumption, FeesAssumption

(* A value written to a NUMERIC column is a natural number of ticks.        *)
LEMMA StoredNat == \A v \in Nat : Stored(v) \in Nat
  BY HalfUpNat DEF Stored

(* A value of at most four decimals is stored as it is.                     *)
LEMMA StoredExact ==
  ASSUME NEW v \in Nat, v % Quantum = 0
  PROVE  Stored(v) = v
  <1> DEFINE m == v \div Quantum
  <1>1. m \in Nat /\ v = Quantum * m
    OBVIOUS
  <1> HIDE DEF m
  <1> QED
    BY <1>1, HalfUpExact DEF Stored

(* The credited amount of a conversion at a configured rate is natural.     *)
LEMMA ConvertedNat ==
  ASSUME NEW a \in Nat, NEW c \in Currencies, NEW d \in Currencies, HasRate(c, d)
  PROVE  Converted(a, GetRate(c, d)) \in Nat
  <1>1. GetRate(c, d) \in Nat
    BY RatesAssumption DEF GetRate, HasRate
  <1>2. a * GetRate(c, d) \in Nat
    BY <1>1
  <1>3. Quantum * RateScale \in Nat \ {0}
    OBVIOUS
  <1>4. HalfEven(a * GetRate(c, d), Quantum * RateScale) \in Nat
    BY <1>2, <1>3, HalfEvenNat
  <1> QED
    BY <1>4 DEF Converted

(* A scaled value is a natural number of quanta.                            *)
LEMMA ScaledNat ==
  ASSUME NEW v \in Nat, NEW f \in Nat
  PROVE  /\ Scaled(v, f) \in Nat
         /\ \E m \in Nat : Scaled(v, f) = Quantum * m
  <1>1. v * f \in Nat /\ Quantum * RateScale \in Nat \ {0}
    OBVIOUS
  <1>2. HalfUp(v * f, Quantum * RateScale) \in Nat
    BY <1>1, HalfUpNat
  <1> QED
    BY <1>2 DEF Scaled

(* The receiving fee never exceeds the converted amount, so the net credit  *)
(* is not negative (_calculate_amounts with RECEIVING_FEE_PCT at most 1).   *)
LEMMA NetAmountNat ==
  ASSUME NEW a \in Nat, NEW rate \in Nat
  PROVE  NetAmount(a, rate) \in Nat
  <1> DEFINE g == GrossAmount(a, rate)
  <1>1. g \in Nat /\ \E m \in Nat : g = Quantum * m
    BY ScaledNat DEF GrossAmount
  <1>2. PICK m \in Nat : g = Quantum * m
    BY <1>1
  <1> HIDE DEF g
  <1>3. g * ReceivingFeePct <= g * RateScale
    BY <1>1
  <1>4. g * RateScale = (Quantum * RateScale) * m
    BY <1>2
  <1>5. /\ g * ReceivingFeePct \in Nat
        /\ Quantum * RateScale \in Nat \ {0}
    BY <1>1
  <1> DEFINE h == HalfUp(g * ReceivingFeePct, Quantum * RateScale)
  <1>6. h \in Nat /\ h <= m
    BY <1>3, <1>4, <1>5, HalfUpBound, HalfUpNat
  <1> HIDE DEF h
  <1>7. Quantum * h <= Quantum * m /\ Quantum * h \in Nat
    BY <1>6
  <1>8. ReceivingFee(a, rate) = Quantum * h
    BY DEF ReceivingFee, Scaled, g, h
  <1> QED
    BY <1>1, <1>2, <1>7, <1>8 DEF NetAmount, g

(* The sender's cost covers at least the fee and is a natural number.       *)
LEMMA CostNat ==
  ASSUME NEW a \in Nat
  PROVE  SendingFee(a) \in Nat /\ TotalSenderCost(a) \in Nat
  <1>1. SendingFee(a) \in Nat
    BY ScaledNat DEF SendingFee
  <1> QED
    BY <1>1, StoredNat DEF TotalSenderCost

(* Moving a value by whole quanta moves its rounding by as much.            *)
LEMMA StoredShift ==
  ASSUME NEW v \in Nat, NEW m \in Nat
  PROVE  Stored(v + Quantum * m) = Stored(v) + Quantum * m
  <1>1. HalfUp(v + Quantum * m, Quantum) = HalfUp(v, Quantum) + m
    BY DEF HalfUp
  <1> QED
    BY <1>1, HalfUpNat DEF Stored

(* What the sender pays is the stored source amount plus the sending fee,   *)
(* however many decimals the amount has: balances and the transfers row     *)
(* cannot drift apart by rounding (_calculate_amounts).                     *)
LEMMA CostIsAmountPlusFee ==
  ASSUME NEW a \in Nat
  PROVE  TotalSenderCost(a) = Stored(a) + SendingFee(a)
  <1>1. PICK m \in Nat : SendingFee(a) = Quantum * m
    BY ScaledNat DEF SendingFee
  <1> QED
    BY <1>1, StoredShift DEF TotalSenderCost

(* A stored value.                                                          *)
Whole(v) == \E m \in Nat : v = Quantum * m

(* Whole values are exactly the natural multiples of the quantum; sums,     *)
(* differences, credits and fees of whole values are whole, and storing a   *)
(* whole value changes nothing.                                             *)
LEMMA WholeFacts ==
  /\ \A v \in Nat : Whole(v) <=> v % Quantum = 0
  /\ \A v : Whole(v) => v \in Nat /\ Stored(v) = v
  /\ \A v, w : Whole(v) /\ Whole(w) => Whole(v + w)
  /\ \A v, w : Whole(v) /\ Whole(w) /\ w <= v => Whole(v - w)
  /\ \A v \in Nat : Whole(Stored(v))
  <1>1. \A v \in Nat : Whole(v) <=> v % Quantum = 0
    <2>1. ASSUME NEW v \in Nat, v % Quantum = 0 PROVE Whole(v)
      <3>1. v \div Quantum \in Nat /\ v = Quantum * (v \div Quantum)
        BY <2>1
      <3> QED
        BY <3>1 DEF Whole
    <2>2. ASSUME NEW m \in Nat PROVE (Quantum * m) % Quantum = 0
      OBVIOUS
    <2> QED
      BY <2>1, <2>2 DEF Whole
  <1>2. ASSUME NEW v, Whole(v) PROVE v \in Nat /\ Stored(v) = v
    <2>1. PICK m \in Nat : v = Quantum * m
      BY <1>2 DEF Whole
    <2>2. HalfUp(Quantum * m, Quantum) = m /\ Quantum * m \in Nat
      BY HalfUpExact
    <2> QED
      BY <2>1, <2>2 DEF Stored
  <1>3. ASSUME NEW v, NEW w, Whole(v), Whole(w)
        PROVE  Whole(v + w) /\ (w <= v => Whole(v - w))
    <2>1. PICK m \in Nat : v = Quantum * m
      BY <1>3 DEF Whole
    <2>2. PICK n \in Nat : w = Quantum * n
      BY <1>3 DEF Whole
    <2>3. /\ Quantum * m + Quantum * n = Quantum * (m + n)
          /\ Quantum * m - Quantum * n = Quantum * (m - n)
          /\ Quantum * n <= Quantum * m => n <= m
      OBVIOUS
    <2>4. m + n \in Nat /\ (n <= m => m - n \in Nat)
      OBVIOUS
    <2> QED
      BY <2>1, <2>2, <2>3, <2>4 DEF Whole
  <1>4. \A v \in Nat : Whole(Stored(v))
    BY HalfUpNat DEF Stored, Whole
  <1> QED
    BY <1>1, <1>2, <1>3, <1>4

(* What a transfer debits and credits is whole, whatever its amount.        *)
LEMMA WholeScaled ==
  ASSUME NEW v \in Nat, NEW f \in Nat
  PROVE  Whole(Scaled(v, f))
  BY ScaledNat DEF Whole

(* A converted amount is rounded to a whole number of quanta.                *)
LEMMA WholeConverted ==
  ASSUME NEW a \in Nat, NEW c \in Currencies, NEW d \in Currencies, HasRate(c, d)
  PROVE  Whole(Converted(a, GetRate(c, d)))
  <1>1. GetRate(c, d) \in Nat
    BY RatesAssumption DEF GetRate, HasRate
  <1>2. a * GetRate(c, d) \in Nat /\ Quantum * RateScale \in Nat \ {0}
    BY <1>1
  <1>3. HalfEven(a * GetRate(c, d), Quantum * RateScale) \in Nat
    BY <1>2, HalfEvenNat
  <1> QED
    BY <1>3 DEF Converted, Whole

(* Net amount, sending fee and total cost of a cross-currency transfer are   *)
(* whole.                                                                    *)
LEMMA WholeCross ==
  ASSUME NEW a \in Nat, NEW rate \in Nat
  PROVE  Whole(NetAmount(a, rate)) /\ Whole(SendingFee(a)) /\ Whole(TotalSenderCost(a))
  <1>1. Whole(GrossAmount(a, rate)) /\ Whole(SendingFee(a))
    BY WholeScaled DEF GrossAmount, SendingFee
  <1>2. Whole(ReceivingFee(a, rate)) /\ GrossAmount(a, rate) \in Nat
    BY <1>1, WholeScaled, WholeFacts DEF ReceivingFee
  <1>3. ReceivingFee(a, rate) <= GrossAmount(a, rate)
    BY <1>2, NetAmountNat, WholeFacts DEF NetAmount
  <1>4. Whole(TotalSenderCost(a))
    BY <1>1, WholeFacts DEF TotalSenderCost
  <1> QED
    BY <1>1, <1>2, <1>3, <1>4, WholeFacts DEF NetAmount
-----------------------------------------------------------------------------
(* A function on the subsets of S that adds up f in whatever order.         *)
AddsUp(h, f, S) ==
    /\ h \in [SUBSET S -> Int]
    /\ h[{}] = 0
    /\ \A s \in SUBSET S : \A x \in s : h[s] = f[x] + h[s \ {x}]

(* A nonempty family of subsets of a finite set has a member from which no *)
(* element can be taken away: what induction over finite sets amounts to.   *)
LEMMA MinimalSet ==
  ASSUME NEW S, IsFiniteSet(S), NEW T \in SUBSET SUBSET S, T # {}
  PROVE  \E m \in T : \A x \in m : m \ {x} \notin T
  <1>1. T \subseteq FiniteSubsetsOf(S)
    BY FS_Subset DEF FiniteSubsetsOf
  <1>2. PICK m \in T : \A y \in T : ~ (<<y, m>> \in StrictSubsetOrdering(S))
    BY <1>1, WFMin, FS_StrictSubsetOrderingWellFounded
  <1>3. ASSUME NEW x \in m PROVE m \ {x} \notin T
    <2>1. <<m \ {x}, m>> \in StrictSubsetOrdering(S)
      BY DEF StrictSubsetOrdering
    <2> QED
      BY <1>2, <2>1
  <1> QED
    BY <1>3

(* Every finite set of integers can be added up, in any order.              *)
LEMMA SumExists ==
  ASSUME NEW S, IsFiniteSet(S), NEW f, \A x \in S : f[x] \in Int
  PROVE  \E h : AddsUp(h, f, S)
  <1> DEFINE T == {A \in SUBSET S : ~ \E h : AddsUp(h, f, A)}
  <1> SUFFICES ASSUME T # {} PROVE FALSE
    OBVIOUS
  <1>1. PICK A \in T : \A x \in A : A \ {x} \notin T
    BY MinimalSet
  <1>2. A # {}
    <2>1. AddsUp([s \in SUBSET {} |-> 0], f, {})
      BY DEF AddsUp
    <2> QED
      BY <2>1
  <1>3. PICK a \in A : TRUE
    BY <1>2
  <1> DEFINE B == A \ {a}
  <1>4. PICK g : AddsUp(g, f, B)
    BY <1>1, <1>3
  <1> DEFINE h == [s \in SUBSET A |-> IF a \in s THEN f[a] + g[s \ {a}] ELSE g[s]]
  <1>5. AddsUp(h, f, A)
    <2>1. h \in [SUBSET A -> Int] /\ h[{}] = 0
      BY <1>4 DEF AddsUp
    <2>2. ASSUME NEW s \in SUBSET A, NEW x \in s PROVE h[s] = f[x] + h[s \ {x}]
      <3>1. CASE x = a
        BY <3>1
      <3>2. CASE x # a /\ a \in s
        <4>1. (s \ {a}) \in SUBSET B /\ x \in s \ {a}
          BY <3>2
        <4>2. g[s \ {a}] = f[x] + g[(s \ {a}) \ {x}]
          BY <1>4, <4>1 DEF AddsUp
        <4>3. (s \ {a}) \ {x} = (s \ {x}) \ {a}
          OBVIOUS
        <4>4. h[s] = f[a] + g[s \ {a}] /\ h[s \ {x}] = f[a] + g[(s \ {x}) \ {a}]
          BY <3>2
        <4>5. g[(s \ {a}) \ {x}] \in Int /\ f[a] \in Int /\ f[x] \in Int
          BY <1>4, <4>1 DEF AddsUp
        <4> DEFINE rest == g[(s \ {a}) \ {x}]
        <4>6. h[s] = f[a] + (f[x] + rest) /\ h[s \ {x}] = f[a] + rest /\ rest \in Int
          BY <4>2, <4>3, <4>4, <4>5
        <4> HIDE DEF h, rest
        <4> QED
          BY <4>5, <4>6
      <3>3. CASE a \notin s
        <4>1. s \in SUBSET B /\ s \ {x} \in SUBSET B
          BY <3>3
        <4> QED
          BY <1>4, <3>3, <4>1 DEF AddsUp
      <3> QED
        BY <3>1, <3>2, <3>3
    <2> QED
      BY <2>1, <2>2 DEF AddsUp
  <1> QED
    BY <1>5

(* The recursion of the library's sum, which picks elements by CHOOSE,      *)
(* gives that value.                                                        *)
LEMMA SumIs ==
  ASSUME NEW S, IsFiniteSet(S), NEW f, \A x \in S : f[x] \in Int,
         NEW h, AddsUp(h, f, S)
  PROVE  SumFunctionOnSet(f, S) = h[S]
  <1> DEFINE Unfold(g) == [s \in SUBSET S |->
                IF s = {} THEN 0 ELSE LET x == CHOOSE x \in s : TRUE IN f[x] + g[s \ {x}]]
             it == CHOOSE g : g = Unfold(g)
  <1>1. h = Unfold(h)
    <2>1. ASSUME NEW s \in SUBSET S PROVE h[s] = Unfold(h)[s]
      BY DEF AddsUp
    <2> QED
      BY <2>1 DEF AddsUp
  <1>2. it = Unfold(it)
    BY <1>1
  <1> HIDE DEF it
  <1>3. h = it
    <2> DEFINE T == {s \in SUBSET S : h[s] # it[s]}
    <2>1. ASSUME T # {} PROVE FALSE
      <3>1. PICK m \in T : \A x \in m : m \ {x} \notin T
        BY <2>1, MinimalSet
      <3>2. m # {}
        BY <1>1, <1>2
      <3> DEFINE x == CHOOSE x \in m : TRUE
      <3>3. x \in m /\ h[m] = f[x] + h[m \ {x}] /\ it[m] = f[x] + it[m \ {x}]
        BY <1>1, <1>2, <3>2
      <3> QED
        BY <3>1, <3>3
    <2>2. DOMAIN it = SUBSET S /\ DOMAIN h = SUBSET S
      BY <1>2 DEF AddsUp
    <2> QED
      BY <1>1, <1>2, <2>1, <2>2
  <1>4. SumFunctionOnSet(f, S) = it[S]
    BY DEF SumFunctionOnSet, FoldFunctionOnSet, MapThenFoldSet, it
  <1> QED
    BY <1>3, <1>4

(* A further element adds its value.                                        *)
LEMMA SumAdd ==
  ASSUME NEW S, IsFiniteSet(S), NEW f, NEW a, a \notin S,
         \A x \in S \cup {a} : f[x] \in Int
  PROVE  /\ SumFunctionOnSet(f, S) \in Int
         /\ SumFunctionOnSet(f, S \cup {a}) = f[a] + SumFunctionOnSet(f, S)
  <1> DEFINE A == S \cup {a}
  <1>1. IsFiniteSet(A)
    BY FS_AddElement
  <1>2. PICK h : AddsUp(h, f, A)
    BY <1>1, SumExists
  <1> DEFINE g == [s \in SUBSET S |-> h[s]]
  <1>3. AddsUp(g, f, S)
    BY <1>2 DEF AddsUp
  <1>4. SumFunctionOnSet(f, A) = h[A] /\ SumFunctionOnSet(f, S) = g[S]
    BY <1>1, <1>2, <1>3, SumIs
  <1>5. A \ {a} = S
    OBVIOUS
  <1>6. h[A] = f[a] + h[S] /\ h[S] \in Int
    BY <1>2, <1>5 DEF AddsUp
  <1> QED
    BY <1>4, <1>6

(* The sum over no element is zero.                                         *)
LEMMA SumEmpty == \A f : SumFunctionOnSet(f, {}) = 0
  <1> SUFFICES ASSUME NEW f PROVE SumFunctionOnSet(f, {}) = 0
    OBVIOUS
  <1>1. PICK h : AddsUp(h, f, {})
    BY FS_EmptySet, SumExists
  <1> QED
    BY <1>1, FS_EmptySet, SumIs DEF AddsUp

(* The sum depends on the summands only.                                    *)
LEMMA SumSame ==
  ASSUME NEW S, IsFiniteSet(S), NEW f, NEW g, \A x \in S : f[x] \in Int /\ g[x] = f[x]
  PROVE  SumFunctionOnSet(g, S) = SumFunctionOnSet(f, S)
  <1>1. PICK h : AddsUp(h, f, S)
    BY SumExists
  <1>2. AddsUp(h, g, S)
    BY <1>1 DEF AddsUp
  <1> QED
    BY <1>1, <1>2, SumIs

(* Natural summands have a natural sum.                                     *)
LEMMA SumNat ==
  ASSUME NEW S, IsFiniteSet(S), NEW f, \A x \in S : f[x] \in Nat
  PROVE  SumFunctionOnSet(f, S) \in Nat
  <1>1. PICK h : AddsUp(h, f, S)
    BY SumExists
  <1> DEFINE T == {s \in SUBSET S : h[s] < 0}
  <1>2. ASSUME T # {} PROVE FALSE
    <2>1. PICK m \in T : \A x \in m : m \ {x} \notin T
      BY <1>2, MinimalSet
    <2>5. m # {}
      <3>1. h[m] < 0 /\ h[{}] = 0 /\ ~ (0 < 0)
        BY <1>1, <2>1 DEF AddsUp
      <3>2. ASSUME m = {} PROVE FALSE
        BY <3>1, <3>2, Zenon
      <3> QED
        BY <3>2
    <2>2. PICK x \in m : TRUE
      BY <2>5
    <2>3. h[m] = f[x] + h[m \ {x}] /\ h[m \ {x}] \in Int /\ h[m] \in Int
      BY <1>1, <2>1, <2>2 DEF AddsUp
    <2>4. m \ {x} \in SUBSET S /\ m \ {x} \notin T
      BY <2>1, <2>2
    <2> QED
      BY <2>1, <2>2, <2>3, <2>4
  <1>3. h[S] \in Int /\ ~ (h[S] < 0)
    BY <1>1, <1>2 DEF AddsUp
  <1> QED
    BY <1>1, <1>3, SumIs

(* A function extended by one argument sums to the value there plus the sum *)
(* of the function.                                                         *)
LEMMA SumExtended ==
  ASSUME NEW S, IsFiniteSet(S), NEW a, a \notin S,
         NEW f, DOMAIN f = S, NEW g, DOMAIN g = S \cup {a},
         \A x \in S : f[x] \in Int /\ g[x] = f[x], g[a] \in Int
  PROVE  SumFunction(f) \in Int /\ SumFunction(g) = SumFunction(f) + g[a]
  <1>1. SumFunctionOnSet(g, S) = SumFunctionOnSet(f, S)
    BY SumSame
  <1>2. /\ SumFunctionOnSet(g, S) \in Int
        /\ SumFunctionOnSet(g, S \cup {a}) = g[a] + SumFunctionOnSet(g, S)
    BY SumAdd
  <1> QED
    BY <1>1, <1>2 DEF SumFunction

(* A function of one argument.                                              *)
LEMMA SumOfOne ==
  ASSUME NEW a, NEW g, DOMAIN g = {a}, g[a] \in Int
  PROVE  SumFunction(g) = g[a]
  <1>1. SumFunctionOnSet(g, {} \cup {a}) = g[a] + SumFunctionOnSet(g, {})
    BY SumAdd, FS_EmptySet
  <1>2. {} \cup {a} = {a}
    OBVIOUS
  <1> QED
    BY <1>1, <1>2, SumEmpty DEF SumFunction

-------------------------------------------------------------------------------
(* The inductive invariant. *)

(* Places of the cross-currency handler: it has checked the amounts; it     *)
(* holds both accounts; it has read the current snapshot.                   *)
Checked == {"cross_insert", "pending", "processing", "completed"}
Holding == {"cross_check"} \cup Checked
Quoted  == {"preview", "cross_lock_source", "cross_lock_destination"} \cup Holding

(* The body of a request is of the kind its handler was written for, and    *)
(* names a snapshot and a pair that exist once they have been looked up.    *)
BodyOK(r) ==
    /\ pc[r] \in {"lookup", "lock_source", "lock_destination", "check", "insert",
                  "commit", "reply"} => req[r] \in TransferBody
    /\ pc[r] \in {"refuse", "pick_number", "insert_account", "commit_account"} =>
          req[r] \in CreateBody
    /\ pc[r] \in {"pick_number", "insert_account", "commit_account"} =>
          req[r].currency \in Currencies
    /\ pc[r] \in {"insert_account", "commit_account"} => picked[r] \in Numbers
    /\ pc[r] \in {"load_account", "lock_account", "commit_close"} =>
          req[r] \in DeleteBody
    /\ pc[r] \in {"capacity", "cross_lookup", "latest", "cross_reply"} \cup Quoted =>
          req[r] \in CrossBody
    /\ pc[r] \in Quoted => quote[r] \in DOMAIN snapshots
    /\ pc[r] \in Quoted \ {"preview"} =>
          req[r].snapshot \in DOMAIN snapshots /\ Pair(r) \in ActivePairs

(* Between its statements a handler holds what it has locked.               *)
LocksOK(r) ==
    /\ pc[r] \in {"lock_destination", "cross_lock_destination"} => lock[req[r].src] = r
    /\ pc[r] \in {"check", "insert", "commit"} \cup Holding =>
          lock[req[r].src] = r /\ lock[req[r].dst] = r
    /\ pc[r] \in {"commit", "pending", "processing", "completed"} =>
          keyHolder[req[r].key] = r /\ RecordOf(req[r].key) = {}
    /\ pc[r] = "commit_account" => lock[picked[r]] = r /\ accounts[picked[r]] = NoRow
    /\ pc[r] = "commit_close" => lock[req[r].number] = r
    /\ pc[r] \in {"lock_account", "commit_close"} => accounts[req[r].number] # NoRow

Current(r, n) == seen[r][n] = accounts[n] /\ IsActive(accounts[n])

(* What the checks of initiate have established, whatever the volume of the *)
(* day has become since.                                                    *)
Cleared(r) ==
    LET source == seen[r][req[r].src]
    IN  /\ source.owner = req[r].caller /\ source.currency = req[r].from
        /\ Pair(r) \in DOMAIN PreviewRates(r) /\ Pair(r) \in DOMAIN CurrentRates(r)
        /\ ~ Deviates(PreviewRates(r)[Pair(r)], CurrentRate(r))
        /\ HasUsdRate(req[r].from, CurrentRates(r))
        /\ AmountUsd(r) <= LimitPerTxUsd
        /\ source.balance >= TotalSenderCost(req[r].amount)

(* A transfer loads a row only together with its lock, so what its session  *)
(* keeps is what the table holds.                                           *)
SeenOK(r) ==
    /\ pc[r] \in {"idle", "lookup", "lock_source", "capacity", "cross_lookup", "latest",
                  "preview", "cross_lock_source"} => \A n \in Numbers : seen[r][n] = NoRow
    /\ pc[r] \in {"lock_destination", "cross_lock_destination"} =>
          /\ Current(r, req[r].src)
          /\ req[r].dst # req[r].src => seen[r][req[r].dst] = NoRow
    /\ pc[r] \in {"check", "insert", "commit"} \cup Holding =>
          Current(r, req[r].src) /\ Current(r, req[r].dst)
    /\ pc[r] \in {"insert", "commit"} => Verdict(r) = "ok"
    /\ pc[r] \in Checked => Cleared(r)

(* Only a handler past its commit has a row in the transfers table.         *)
RowsOK(r) == pc[r] \notin {"reply", "cross_reply", "done"} => transfers[r] = NoRow

(* The loop counters of the two retry loops start at zero and are bounded.  *)
AttemptsOK(r) ==
    /\ pc[r] = "idle" => attempt[r] = 0
    /\ pc[r] \in {"lookup", "lock_source", "lock_destination", "check", "insert"} =>
          attempt[r] <= MaxRetries
    /\ pc[r] = "pick_number" => attempt[r] < MaxPicks

RequestOK(r) == BodyOK(r) /\ LocksOK(r) /\ SeenOK(r) /\ RowsOK(r) /\ AttemptsOK(r)

(* A posted cross-currency transfer can still be traced to the snapshots it *)
(* was quoted from, and agrees with them.                                   *)
PostedOK(t) ==
    Posted(t) /\ transfers[t].type = "cross_currency" =>
        /\ req[t] \in CrossBody
        /\ req[t].snapshot \in DOMAIN snapshots
        /\ transfers[t].snapshot \in DOMAIN snapshots
        /\ LET used == snapshots[transfers[t].snapshot].rates[Pair(t)]
           IN  /\ ~ Deviates(PreviewRates(t)[Pair(t)], used)
               /\ transfers[t].dstAmount = NetAmount(req[t].amount, used)

IInv ==
    /\ TypeOK
    /\ NoOverdraft
    /\ AtMostOncePerKey
    /\ \A r \in Requests : RequestOK(r)
    /\ \A t \in Requests : PostedOK(t)
-----------------------------------------------------------------------------
(* What a step of r leaves alone in the sessions of the others.             *)
SessionsKept(r) ==
    \A q \in Requests \ {r} :
        /\ pc'[q] = pc[q] /\ req'[q] = req[q] /\ seen'[q] = seen[q]
        /\ picked'[q] = picked[q] /\ attempt'[q] = attempt[q] /\ quote'[q] = quote[q]

(* Snapshots are added and marked stale, never removed or repriced.         *)
SnapshotsKept ==
    \A s \in DOMAIN snapshots :
        s \in DOMAIN snapshots' /\ snapshots'[s].rates = snapshots[s].rates

(* What Cleared says depends only on the session and on the rates of the    *)
(* two snapshots.                                                           *)
LEMMA ClearedKept ==
  ASSUME NEW q \in Requests, Cleared(q), SnapshotsKept,
         req[q].snapshot \in DOMAIN snapshots, quote[q] \in DOMAIN snapshots,
         req'[q] = req[q], seen'[q] = seen[q], quote'[q] = quote[q]
  PROVE  Cleared(q)'
  <1>1. /\ PreviewRates(q)' = PreviewRates(q)
        /\ CurrentRates(q)' = CurrentRates(q)
        /\ Pair(q)' = Pair(q)
    BY DEF PreviewRates, CurrentRates, Pair, SnapshotsKept
  <1>2. /\ CurrentRate(q)' = CurrentRate(q)
        /\ AmountUsd(q)' = AmountUsd(q)
    BY <1>1 DEF CurrentRate, AmountUsd
  <1> QED
    BY <1>1, <1>2 DEF Cleared

(* A step of another request leaves alone what request q relies on.         *)
LEMMA OtherKept ==
  ASSUME TypeOK, TypeOK', NEW q \in Requests, RequestOK(q),
         pc'[q] = pc[q], req'[q] = req[q], seen'[q] = seen[q], picked'[q] = picked[q],
         attempt'[q] = attempt[q], quote'[q] = quote[q], transfers'[q] = transfers[q],
         SnapshotsKept,
         \A n \in Numbers : lock[n] = q => lock'[n] = q /\ accounts'[n] = accounts[n],
         \A n \in Numbers : accounts[n] # NoRow => accounts'[n] # NoRow,
         \A k \in Keys : keyHolder[k] = q => keyHolder'[k] = q,
         \A t \in Requests : \/ transfers'[t] = transfers[t]
                             \/ keyHolder[transfers'[t].key] # q
  PROVE  RequestOK(q)'
  <1>1. BodyOK(q)'
    BY DEF RequestOK, BodyOK, SnapshotsKept, Pair
  <1>2. LocksOK(q)'
    BY DEF RequestOK, BodyOK, LocksOK, TransferBody, CreateBody, DeleteBody, CrossBody,
           RecordOf, Posted, Quoted, Holding, Checked
  <1>3. SeenOK(q)'
    <2>1. Verdict(q)' = Verdict(q)
      BY DEF Verdict
    <2>2. pc[q] \in Checked => Cleared(q)'
      BY ClearedKept DEF RequestOK, SeenOK, BodyOK, Quoted, Holding, Checked
    <2>3. \A n \in Numbers : Current(q, n) /\ lock[n] = q => Current(q, n)'
      BY DEF Current, IsActive
    <2>4. /\ pc[q] \in {"lock_destination", "check", "insert", "commit",
                        "cross_lock_destination"} \cup Holding =>
                req[q].src \in Numbers /\ lock[req[q].src] = q
          /\ pc[q] \in {"check", "insert", "commit"} \cup Holding =>
                req[q].dst \in Numbers /\ lock[req[q].dst] = q
      BY DEF RequestOK, BodyOK, LocksOK, TransferBody, CrossBody, Quoted, Holding, Checked
    <2> QED
      BY <2>1, <2>2, <2>3, <2>4 DEF RequestOK, SeenOK
  <1>4. RowsOK(q)'
    BY DEF RequestOK, RowsOK
  <1>5. AttemptsOK(q)'
    BY DEF RequestOK, AttemptsOK
  <1> QED
    BY <1>1, <1>2, <1>3, <1>4, <1>5 DEF RequestOK

(* A posted transfer stays traceable while its row and its body stay.       *)
LEMMA PostedKept ==
  ASSUME NEW t \in Requests, PostedOK(t), SnapshotsKept, transfers'[t] = transfers[t],
         req'[t] = req[t] \/ transfers[t] = NoRow
  PROVE  PostedOK(t)'
  BY DEF PostedOK, Posted, SnapshotsKept, PreviewRates, Pair

(* The invariant holds in the initial states.                               *)
LEMMA InitIInv == Init => IInv
  <1> SUFFICES ASSUME Init PROVE IInv
    OBVIOUS
  <1>1. TypeOK
    BY InitialAssumption, MaxRetriesAssumption, MaxPicksAssumption, MaxSnapshotsAssumption
       DEF Init, StoreInit, CrossInit, TypeOK, AccountTable, AuditEntry, Audit, AccountRow,
           MaxAttempts, OperationTypeLength
  <1>2. NoOverdraft
    BY InitialAssumption DEF Init, StoreInit, NoOverdraft
  <1>3. AtMostOncePerKey /\ \A t \in Requests : PostedOK(t)
    BY DEF Init, StoreInit, AtMostOncePerKey, Posted, PostedOK
  <1>4. ASSUME NEW r \in Requests PROVE RequestOK(r)
    BY MaxRetriesAssumption, MaxPicksAssumption
       DEF Init, StoreInit, RequestOK, BodyOK, LocksOK, SeenOK, RowsOK, AttemptsOK,
           Quoted, Holding, Checked
  <1> QED
    BY <1>1, <1>2, <1>3, <1>4 DEF IInv

(* A step of r that commits nothing keeps the invariant if it keeps it for  *)
(* r itself and takes no lock from another transaction.                     *)
LEMMA QuietStep ==
  ASSUME IInv, TypeOK', NEW r \in Requests, RequestOK(r)',
         UNCHANGED tables, SessionsKept(r), SnapshotsKept,
         req'[r] = req[r] \/ transfers[r] = NoRow,
         \A n \in Numbers : lock'[n] = lock[n] \/ lock[n] \in {Nobody, r},
         \A k \in Keys : keyHolder'[k] = keyHolder[k] \/ keyHolder[k] \in {Nobody, r}
  PROVE  IInv'
  <1>1. NoOverdraft' /\ AtMostOncePerKey'
    BY DEF IInv, NoOverdraft, AtMostOncePerKey, Posted, tables
  <1>2. ASSUME NEW q \in Requests \ {r} PROVE RequestOK(q)'
    <2>1. \A n \in Numbers : lock[n] = q => lock'[n] = q /\ accounts'[n] = accounts[n]
      BY NobodyAssumption DEF tables
    <2>2. \A k \in Keys : keyHolder[k] = q => keyHolder'[k] = q
      BY NobodyAssumption
    <2> QED
      BY <2>1, <2>2, OtherKept DEF IInv, tables, SessionsKept
  <1>3. ASSUME NEW t \in Requests PROVE PostedOK(t)'
    BY PostedKept DEF IInv, SessionsKept, tables
  <1> QED
    BY <1>1, <1>2, <1>3 DEF IInv

(* A commit of r changes only rows that r has locked, so the other requests *)
(* keep what they rely on.                                                  *)
LEMMA CommitStep ==
  ASSUME IInv, TypeOK', NEW r \in Requests, RequestOK(r)', PostedOK(r)',
         NoOverdraft', AtMostOncePerKey', SessionsKept(r), SnapshotsKept,
         \A q \in Requests \ {r} : transfers'[q] = transfers[q],
         \A n \in Numbers : lock[n] # r => accounts'[n] = accounts[n],
         \A n \in Numbers : accounts[n] # NoRow => accounts'[n] # NoRow,
         transfers'[r] = transfers[r] \/ keyHolder[transfers'[r].key] = r,
         Release(r)
  PROVE  IInv'
  <1>1. ASSUME NEW q \in Requests \ {r} PROVE RequestOK(q)' /\ PostedOK(q)'
    <2>1. \A n \in Numbers : lock[n] = q => lock'[n] = q /\ accounts'[n] = accounts[n]
      BY DEF Release
    <2>2. \A k \in Keys : keyHolder[k] = q => keyHolder'[k] = q
      BY DEF Release
    <2>3. \A t \in Requests : \/ transfers'[t] = transfers[t]
                              \/ keyHolder[transfers'[t].key] # q
      OBVIOUS
    <2>4. RequestOK(q)'
      BY <2>1, <2>2, <2>3, OtherKept DEF IInv, SessionsKept
    <2>5. PostedOK(q)'
      BY PostedKept DEF IInv, SessionsKept
    <2> QED
      BY <2>4, <2>5
  <1> QED
    BY <1>1 DEF IInv

(* Nothing of the cross-currency tables changes.                            *)
LEMMA FxKept ==
  ASSUME UNCHANGED fx
  PROVE  /\ SnapshotsKept
         /\ snapshots' = snapshots /\ notifications' = notifications
         /\ quote' = quote /\ recent' = recent
  BY DEF fx, SnapshotsKept

(* A handler that raises, crashes or is rolled back keeps the invariant.    *)
LEMMA RaiseIInv ==
  ASSUME IInv, NEW r \in Requests, UNCHANGED fx,
         NEW o \in {"not_found", "conflict", "limit_exceeded", "insufficient_funds",
                    "unsupported_currency", "account_has_balance", "forbidden",
                    "capacity_exceeded", "stale_rate", "rate_deviation",
                    "internal_error", "lost"},
         Raise(r, o)
  PROVE  IInv'
  <1>1. TypeOK'
    BY FxKept DEF IInv, Raise, Rollback, Release, Respond, GoTo, tables, TypeOK, AccountTable
  <1>2. RequestOK(r)'
    BY DEF IInv, TypeOK, Raise, Respond, GoTo, RequestOK, BodyOK, LocksOK, SeenOK, RowsOK,
           AttemptsOK, Quoted, Holding, Checked
  <1>3. /\ UNCHANGED tables
        /\ SessionsKept(r) /\ req' = req
        /\ \A n \in Numbers : lock'[n] = lock[n] \/ lock[n] \in {Nobody, r}
        /\ \A k \in Keys : keyHolder'[k] = keyHolder[k] \/ keyHolder[k] \in {Nobody, r}
    BY FxKept DEF IInv, TypeOK, Raise, Rollback, Release, Respond, GoTo, SessionsKept
  <1> QED
    BY <1>1, <1>2, <1>3, FxKept, QuietStep

(* A handler that only moves on keeps the invariant if it keeps its own.    *)
LEMMA AdvanceIInv ==
  ASSUME IInv, NEW r \in Requests, UNCHANGED fx,
         NEW next \in {"lock_source", "insert", "cross_lookup", "latest",
                       "cross_lock_source", "cross_insert", "processing", "completed"},
         GoTo(r, next),
         UNCHANGED <<tables, locks, req, attempt, seen, picked, reply, result>>,
         RequestOK(r)'
  PROVE  IInv'
  <1>1. TypeOK'
    BY FxKept DEF IInv, TypeOK, tables, locks, GoTo
  <1>2. SessionsKept(r)
    BY FxKept DEF IInv, TypeOK, GoTo, SessionsKept
  <1> QED
    BY <1>1, <1>2, FxKept, QuietStep DEF locks

(* A handler that answers after its commit, or replays, keeps it.           *)
LEMMA RespondIInv ==
  ASSUME IInv, NEW r \in Requests, UNCHANGED fx,
         NEW o \in {"created", "replayed", "deleted"}, NEW t \in Requests \cup {Nobody},
         Respond(r, o, t), UNCHANGED <<tables, locks, req, attempt, seen, picked>>
  PROVE  IInv'
  <1>1. TypeOK'
    BY FxKept DEF IInv, TypeOK, tables, locks, Respond, GoTo
  <1>2. RequestOK(r)'
    BY DEF IInv, TypeOK, Respond, GoTo, RequestOK, BodyOK, LocksOK, SeenOK, RowsOK,
           AttemptsOK, Quoted, Holding, Checked
  <1>3. SessionsKept(r)
    BY FxKept DEF IInv, TypeOK, Respond, GoTo, SessionsKept
  <1> QED
    BY <1>1, <1>2, <1>3, FxKept, QuietStep DEF locks

(* A locking SELECT, on a row that the session has not loaded or has loaded *)
(* as it is, raises or makes the session current for that row.              *)
LEMMA LockFacts ==
  ASSUME IInv, NEW r \in Requests, NEW n \in Numbers, NEW next,
         seen[r][n] \in {NoRow, accounts[n]}, LockActive(r, n, next), ~ Raise(r, "not_found")
  PROVE  /\ lock[n] \in {Nobody, r} /\ lock' = [lock EXCEPT ![n] = r]
         /\ IsActive(accounts[n])
         /\ seen' = [seen EXCEPT ![r][n] = accounts[n]]
         /\ GoTo(r, next)
         /\ UNCHANGED <<tables, keyHolder, req, attempt, picked, reply, result>>
  BY DEF LockActive, RowFree, Load, Loaded, IsActive

(* The insertion of a transfers row raises or reserves its key.             *)
LEMMA InsertFacts ==
  ASSUME IInv, NEW r \in Requests, NEW next, InsertUnique(r, next), ~ Raise(r, "internal_error")
  PROVE  /\ keyHolder[req[r].key] = Nobody /\ RecordOf(req[r].key) = {}
         /\ keyHolder' = [keyHolder EXCEPT ![req[r].key] = r]
         /\ GoTo(r, next)
         /\ UNCHANGED <<tables, lock, req, attempt, seen, picked, reply, result>>
  BY DEF InsertUnique
-----------------------------------------------------------------------------
(* The steps of TransferService keep the invariant.                         *)

(* The lookup of the idempotency key moves on, replays or raises.           *)
LEMMA LookupIInv ==
  ASSUME IInv, NEW r \in Requests, Lookup(r), UNCHANGED fx
  PROVE  IInv'
  <1>1. CASE /\ GoTo(r, "lock_source")
             /\ UNCHANGED <<tables, locks, req, attempt, seen, picked, reply, result>>
    <2>1. pc'[r] = "lock_source" /\ pc[r] = "lookup"
      BY <1>1 DEF IInv, TypeOK, GoTo, Lookup
    <2>2. BodyOK(r)' /\ LocksOK(r)'
      BY <1>1, <2>1 DEF IInv, RequestOK, BodyOK, LocksOK, Quoted, Holding, Checked
    <2>3. SeenOK(r)' /\ RowsOK(r)' /\ AttemptsOK(r)'
      BY <1>1, <2>1 DEF IInv, RequestOK, SeenOK, RowsOK, AttemptsOK, tables, Holding, Checked
    <2> QED
      BY <1>1, <2>2, <2>3, AdvanceIInv DEF RequestOK
  <1>2. CASE \E t \in RecordOf(req[r].key) :
                /\ Respond(r, "replayed", t)
                /\ UNCHANGED <<tables, locks, req, attempt, seen, picked>>
    BY <1>2, RespondIInv DEF RecordOf
  <1>3. CASE Raise(r, "conflict")
    BY <1>3, RaiseIInv
  <1> QED
    BY <1>1, <1>2, <1>3 DEF Lookup, ReplayOr

(* A lock is taken on a row that the session loads with it.                 *)
LEMMA LockIInv ==
  ASSUME IInv, NEW r \in Requests, LockSource(r) \/ LockDestination(r), UNCHANGED fx
  PROVE  IInv'
  <1> DEFINE n == IF pc[r] = "lock_source" THEN req[r].src ELSE req[r].dst
             next == IF pc[r] = "lock_source" THEN "lock_destination" ELSE "check"
  <1>1. /\ LockActive(r, n, next)
        /\ pc[r] \in {"lock_source", "lock_destination"}
        /\ req[r] \in TransferBody /\ n \in Numbers
    BY DEF LockSource, LockDestination, IInv, RequestOK, BodyOK, TransferBody
  <1>2. seen[r][n] = NoRow
    BY <1>1 DEF IInv, RequestOK, SeenOK, TransferBody
  <1> HIDE DEF n, next
  <1>3. CASE Raise(r, "not_found")
    BY <1>3, RaiseIInv
  <1>4. CASE ~ Raise(r, "not_found")
    <2>1. /\ lock[n] \in {Nobody, r} /\ lock' = [lock EXCEPT ![n] = r]
          /\ IsActive(accounts[n])
          /\ seen' = [seen EXCEPT ![r][n] = accounts[n]]
          /\ GoTo(r, next)
          /\ UNCHANGED <<tables, keyHolder, req, attempt, picked, reply, result>>
      BY <1>1, <1>2, <1>4, LockFacts
    <2>2. TypeOK'
      BY <1>1, <2>1, FxKept DEF IInv, TypeOK, tables, GoTo, AccountTable, next
    <2>3. BodyOK(r)'
      BY <1>1, <2>1 DEF IInv, TypeOK, GoTo, BodyOK, next, Quoted, Holding, Checked
    <2>4. LocksOK(r)'
      BY <1>1, <2>1 DEF IInv, TypeOK, tables, GoTo, RequestOK, LocksOK, next, n, TransferBody,
                        Holding, Checked
    <2>5. SeenOK(r)'
      BY <1>1, <2>1 DEF IInv, TypeOK, tables, GoTo, RequestOK, SeenOK, Current, IsActive,
                        next, n, TransferBody, AccountTable, Holding, Checked
    <2>6. RowsOK(r)' /\ AttemptsOK(r)'
      BY <1>1, <2>1 DEF IInv, TypeOK, tables, GoTo, RequestOK, RowsOK, AttemptsOK, next
    <2>7. SessionsKept(r)
      BY <1>1, <2>1, FxKept DEF IInv, TypeOK, GoTo, SessionsKept
    <2> QED
      BY <1>1, <2>1, <2>2, <2>3, <2>4, <2>5, <2>6, <2>7, FxKept, QuietStep
         DEF IInv, TypeOK, RequestOK
  <1> QED
    BY <1>3, <1>4

(* The checks between the locks and the insertion write nothing.            *)
LEMMA CheckIInv ==
  ASSUME IInv, NEW r \in Requests, Check(r), UNCHANGED fx
  PROVE  IInv'
  <1>1. CASE \E o \in {"limit_exceeded", "insufficient_funds", "unsupported_currency"} :
                Raise(r, o)
    BY <1>1, RaiseIInv
  <1>2. CASE /\ pc[r] = "check" /\ Verdict(r) = "ok"
             /\ GoTo(r, "insert")
             /\ UNCHANGED <<tables, locks, req, attempt, seen, picked, reply, result>>
    <2>1. pc'[r] = "insert" /\ pc[r] = "check"
      BY <1>2 DEF IInv, TypeOK, GoTo
    <2>2. BodyOK(r)' /\ LocksOK(r)'
      BY <1>2, <2>1 DEF IInv, RequestOK, BodyOK, LocksOK, locks, Quoted, Holding, Checked
    <2>3. Verdict(r)' = Verdict(r)
      BY <1>2 DEF Verdict
    <2>4. SeenOK(r)' /\ RowsOK(r)' /\ AttemptsOK(r)'
      BY <1>2, <2>1, <2>3 DEF IInv, RequestOK, SeenOK, RowsOK, AttemptsOK, tables, Current,
                              IsActive, Holding, Checked
    <2> QED
      BY <1>2, <2>2, <2>4, AdvanceIInv DEF RequestOK
  <1> QED
    BY <1>1, <1>2 DEF Check, Verdict

(* The insertion reserves the key in the unique index.                      *)
LEMMA InsertIInv ==
  ASSUME IInv, NEW r \in Requests, Insert(r), UNCHANGED fx
  PROVE  IInv'
  <1>1. CASE Raise(r, "internal_error")
    BY <1>1, RaiseIInv
  <1>2. CASE ~ Raise(r, "internal_error")
    <2>1. /\ pc[r] = "insert" /\ keyHolder[req[r].key] = Nobody /\ RecordOf(req[r].key) = {}
          /\ keyHolder' = [keyHolder EXCEPT ![req[r].key] = r]
          /\ GoTo(r, "commit")
          /\ UNCHANGED <<tables, lock, req, attempt, seen, picked, reply, result>>
      BY <1>2, InsertFacts DEF Insert
    <2>2. TypeOK'
      BY <2>1, FxKept DEF IInv, TypeOK, tables, GoTo
    <2>3. pc'[r] = "commit"
      BY <2>1 DEF IInv, TypeOK, GoTo
    <2>4. BodyOK(r)' /\ req[r].key \in Keys
      BY <2>1, <2>3 DEF IInv, RequestOK, BodyOK, TransferBody, Quoted, Holding, Checked
    <2>5. LocksOK(r)'
      BY <2>1, <2>3, <2>4 DEF IInv, TypeOK, RequestOK, LocksOK, RecordOf, Posted, tables,
                              Holding, Checked
    <2>6. SeenOK(r)' /\ RowsOK(r)' /\ AttemptsOK(r)'
      BY <2>1, <2>3 DEF IInv, RequestOK, SeenOK, RowsOK, AttemptsOK, tables, Current,
                        IsActive, Verdict, Holding, Checked
    <2>7. SessionsKept(r)
      BY <2>1, FxKept DEF IInv, TypeOK, GoTo, SessionsKept
    <2> QED
      BY <2>1, <2>2, <2>4, <2>5, <2>6, <2>7, FxKept, QuietStep DEF IInv, TypeOK, RequestOK
  <1> QED
    BY <1>1, <1>2

(* What the commit of a transfer writes, in terms of the committed rows.    *)
LEMMA CommitFacts ==
  ASSUME IInv, NEW r \in Requests, Commit(r)
  PROVE  LET s == req[r].src
             d == req[r].dst
             a == req[r].amount
             c == Converted(a, GetRate(accounts[s].currency, accounts[d].currency))
         IN  /\ req[r] \in TransferBody /\ s \in Numbers /\ d \in Numbers /\ s # d
             /\ a \in Nat /\ 0 < a
             /\ seen[r][d] = accounts[d]
             /\ accounts[s] \in AccountRow /\ accounts[d] \in AccountRow
             /\ IsActive(accounts[s]) /\ IsActive(accounts[d])
             /\ HasRate(accounts[s].currency, accounts[d].currency)
             /\ a <= accounts[s].balance /\ a <= MaxTransfer[accounts[s].currency]
             /\ lock[s] = r /\ lock[d] = r
             /\ DestinationAmount(r) = c /\ c \in Nat
             /\ DebitedBalance(r) = Stored(accounts[s].balance - a)
             /\ CreditedBalance(r) = Stored(accounts[d].balance + c)
             /\ DebitedBalance(r) \in Nat /\ CreditedBalance(r) \in Nat
             /\ NewTransfer(r) \in TransferRow
  <1> DEFINE s == req[r].src
             d == req[r].dst
             a == req[r].amount
             c == Converted(a, GetRate(accounts[s].currency, accounts[d].currency))
  <1>1. /\ req[r] \in TransferBody /\ s \in Numbers /\ d \in Numbers /\ s # d
        /\ a \in Nat /\ 0 < a
        /\ req[r].key \in Keys /\ req[r].caller \in Callers
    BY AmountsAssumption DEF IInv, Commit, RequestOK, BodyOK, TransferBody
  <1>2. /\ seen[r][s] = accounts[s] /\ seen[r][d] = accounts[d]
        /\ IsActive(accounts[s]) /\ IsActive(accounts[d])
        /\ lock[s] = r /\ lock[d] = r
        /\ Verdict(r) = "ok"
    BY DEF IInv, Commit, RequestOK, SeenOK, LocksOK, Current
  <1>3. accounts[s] \in AccountRow /\ accounts[d] \in AccountRow
    BY <1>1, <1>2 DEF IInv, TypeOK, AccountTable, IsActive
  <1>4. /\ accounts[s].balance \in Nat /\ accounts[d].balance \in Nat
        /\ accounts[s].currency \in Currencies /\ accounts[d].currency \in Currencies
    BY <1>1, <1>2, <1>3 DEF IInv, NoOverdraft, AccountRow, IsActive
  <1>5. /\ HasRate(accounts[s].currency, accounts[d].currency)
        /\ a <= accounts[s].balance /\ a <= MaxTransfer[accounts[s].currency]
    BY <1>1, <1>2, <1>4, MaxTransferAssumption DEF Verdict
  <1>6. c \in Nat
    BY <1>1, <1>4, <1>5, ConvertedNat
  <1>7. DestinationAmount(r) = c
    BY <1>2 DEF DestinationAmount
  <1> HIDE DEF c
  <1>8. /\ DebitedBalance(r) = Stored(accounts[s].balance - a)
        /\ CreditedBalance(r) = Stored(accounts[d].balance + c)
        /\ DebitedBalance(r) \in Nat /\ CreditedBalance(r) \in Nat
    BY <1>1, <1>2, <1>4, <1>5, <1>6, <1>7, StoredNat DEF DebitedBalance, CreditedBalance
  <1>9. NewTransfer(r) \in TransferRow
    BY <1>1, <1>2, <1>4, <1>6, <1>7, StoredNat, MaxSnapshotsAssumption DEF NewTransfer, TransferRow
  <1> QED
    BY <1>1, <1>2, <1>3, <1>5, <1>6, <1>7, <1>8, <1>9 DEF c

(* The commit of a transfer keeps the invariant.                            *)
LEMMA CommitIInv ==
  ASSUME IInv, NEW r \in Requests, Commit(r), UNCHANGED fx
  PROVE  IInv'
  <1> DEFINE s == req[r].src
             d == req[r].dst
  <1>1. /\ req[r] \in TransferBody /\ s \in Numbers /\ d \in Numbers /\ s # d
        /\ accounts[s] \in AccountRow /\ accounts[d] \in AccountRow
        /\ lock[s] = r /\ lock[d] = r
        /\ DebitedBalance(r) \in Nat /\ CreditedBalance(r) \in Nat
        /\ NewTransfer(r) \in TransferRow
        /\ Stored(req[r].amount) \in Nat
    BY CommitFacts, StoredNat
  <1>2. /\ accounts'[s] = [accounts[s] EXCEPT !.balance = DebitedBalance(r)]
        /\ accounts'[d] = [accounts[d] EXCEPT !.balance = CreditedBalance(r)]
        /\ \A n \in Numbers \ {s, d} : accounts'[n] = accounts[n]
        /\ accounts' = [n \in Numbers |-> accounts'[n]]
    BY <1>1 DEF IInv, TypeOK, AccountTable, Commit
  <1>3. accounts'[s] \in AccountRow /\ accounts'[d] \in AccountRow
    BY <1>1, <1>2 DEF AccountRow
  <1>4. accounts' \in AccountTable
    BY <1>2, <1>3 DEF IInv, TypeOK, AccountTable
  <1>5. TypeOK'
    <2>1. Audit("transfer_completed", r, {s, d}, Stored(req[r].amount)) \in AuditEntry
      BY <1>1 DEF Audit, AuditEntry, OperationTypeLength
    <2> QED
      BY <1>1, <1>4, <2>1, FxKept DEF IInv, TypeOK, Commit, Release, GoTo
  <1>6. NoOverdraft'
    BY <1>1, <1>2, <1>3 DEF IInv, NoOverdraft, AccountRow
  <1>7. AtMostOncePerKey'
    <2>1. RecordOf(req[r].key) = {}
      BY DEF IInv, RequestOK, LocksOK, Commit
    <2>2. \A t \in Requests : Posted(t) => transfers[t].key # NewTransfer(r).key
      BY <2>1 DEF RecordOf, Posted, NewTransfer
    <2> QED
      BY <2>2 DEF IInv, TypeOK, AtMostOncePerKey, Posted, Commit
  <1>8. RequestOK(r)' /\ PostedOK(r)'
    <2>1. RequestOK(r)'
      BY DEF IInv, TypeOK, Commit, GoTo, RequestOK, BodyOK, LocksOK, SeenOK, RowsOK,
             AttemptsOK, Quoted, Holding, Checked
    <2>2. transfers'[r].type = "none"
      BY DEF IInv, TypeOK, Commit, NewTransfer
    <2> QED
      BY <2>1, <2>2 DEF PostedOK
  <1>9. /\ SessionsKept(r)
        /\ \A q \in Requests \ {r} : transfers'[q] = transfers[q]
        /\ Release(r)
    BY FxKept DEF IInv, TypeOK, Commit, GoTo, SessionsKept
  <1>10. /\ \A n \in Numbers : lock[n] # r => accounts'[n] = accounts[n]
         /\ \A n \in Numbers : accounts[n] # NoRow => accounts'[n] # NoRow
    BY <1>1, <1>2, <1>3, NoRowAssumption
  <1>11. keyHolder[transfers'[r].key] = r
    BY DEF IInv, TypeOK, RequestOK, LocksOK, Commit, NewTransfer
  <1> QED
    BY <1>5, <1>6, <1>7, <1>8, <1>9, <1>10, <1>11, FxKept, CommitStep

(* A handler aborted in a deadlock starts over or gives up.                 *)
LEMMA DeadlockAbortIInv ==
  ASSUME IInv, NEW r \in Requests, DeadlockAbort(r), UNCHANGED fx
  PROVE  IInv'
  <1>1. CASE Raise(r, "internal_error")
    BY <1>1, RaiseIInv
  <1>2. CASE /\ pc[r] \in {"lock_source", "lock_destination", "insert"}
             /\ attempt[r] < MaxRetries
             /\ Rollback(r)
             /\ attempt' = [attempt EXCEPT ![r] = @ + 1]
             /\ GoTo(r, "lookup")
             /\ UNCHANGED <<req, picked, reply, result>>
    <2>1. TypeOK'
      BY <1>2, FxKept, MaxRetriesAssumption, MaxPicksAssumption
         DEF IInv, TypeOK, Rollback, Release, tables, GoTo, AccountTable, MaxAttempts
    <2>2. RequestOK(r)'
      <3>1. pc'[r] = "lookup" /\ attempt'[r] = attempt[r] + 1 /\ attempt[r] \in Nat
            /\ \A n \in Numbers : seen'[r][n] = NoRow
        BY <1>2 DEF IInv, TypeOK, GoTo, Rollback
      <3>2. BodyOK(r)' /\ LocksOK(r)'
        BY <1>2, <3>1 DEF IInv, RequestOK, BodyOK, LocksOK, Quoted, Holding, Checked
      <3>3. SeenOK(r)' /\ RowsOK(r)' /\ AttemptsOK(r)'
        BY <1>2, <3>1, MaxRetriesAssumption
           DEF IInv, RequestOK, Rollback, tables, SeenOK, RowsOK, AttemptsOK, Holding, Checked
      <3> QED
        BY <3>2, <3>3 DEF RequestOK
    <2>3. SessionsKept(r)
      BY <1>2, FxKept DEF IInv, TypeOK, Rollback, GoTo, SessionsKept
    <2> QED
      BY <1>2, <2>1, <2>2, <2>3, FxKept, QuietStep DEF IInv, TypeOK, Rollback, Release
  <1> QED
    BY <1>1, <1>2 DEF DeadlockAbort

(* Every step of a transfer keeps the invariant.                            *)
LEMMA TransferStepIInv ==
  ASSUME IInv, NEW r \in Requests, TransferStep(r), UNCHANGED fx
  PROVE  IInv'
  <1>1. CASE Reply(r)
    BY <1>1, RespondIInv DEF Reply
  <1> QED
    BY <1>1, LookupIInv, LockIInv, CheckIInv, InsertIInv, CommitIInv, DeadlockAbortIInv
       DEF TransferStep
-----------------------------------------------------------------------------
(* The steps of AccountService keep the invariant.                          *)

(* Trying another account number stays within the loop's bound.             *)
LEMMA PickNumberIInv ==
  ASSUME IInv, NEW r \in Requests, PickNumber(r), UNCHANGED fx
  PROVE  IInv'
  <1>1. PICK n \in Numbers :
           /\ picked' = [picked EXCEPT ![r] = n]
           /\ attempt' = [attempt EXCEPT ![r] = @ + 1]
           /\ GoTo(r, IF accounts[n] = NoRow \/ attempt[r] + 1 = MaxPicks
                      THEN "insert_account" ELSE "pick_number")
    BY DEF PickNumber
  <1>2. /\ pc[r] = "pick_number" /\ attempt[r] \in Nat /\ attempt[r] < MaxPicks
        /\ UNCHANGED <<tables, locks, req, seen, reply, result>>
    BY DEF IInv, TypeOK, RequestOK, AttemptsOK, PickNumber
  <1>3. TypeOK'
    BY <1>1, <1>2, FxKept, MaxRetriesAssumption, MaxPicksAssumption
       DEF IInv, TypeOK, GoTo, tables, locks, MaxAttempts
  <1>4. pc'[r] \in {"pick_number", "insert_account"} /\ picked'[r] = n
        /\ attempt'[r] = attempt[r] + 1
        /\ (pc'[r] = "pick_number" => attempt[r] + 1 # MaxPicks)
    BY <1>1 DEF IInv, TypeOK, GoTo
  <1>5. BodyOK(r)' /\ LocksOK(r)' /\ SeenOK(r)'
    BY <1>2, <1>4 DEF IInv, RequestOK, BodyOK, LocksOK, SeenOK, Quoted, Holding, Checked
  <1>6. RowsOK(r)' /\ AttemptsOK(r)'
    BY <1>2, <1>4, MaxPicksAssumption DEF IInv, RequestOK, RowsOK, AttemptsOK, tables
  <1>7. SessionsKept(r)
    BY <1>1, <1>2, FxKept DEF IInv, TypeOK, GoTo, SessionsKept
  <1> QED
    BY <1>2, <1>3, <1>5, <1>6, <1>7, FxKept, QuietStep DEF IInv, TypeOK, locks, RequestOK

(* The inserter of an account reserves its number.                          *)
LEMMA InsertAccountIInv ==
  ASSUME IInv, NEW r \in Requests, InsertAccount(r), UNCHANGED fx
  PROVE  IInv'
  <1>1. CASE Raise(r, "internal_error")
    BY <1>1, RaiseIInv
  <1>2. CASE /\ pc[r] = "insert_account"
             /\ accounts[picked[r]] = NoRow
             /\ lock[picked[r]] = Nobody
             /\ lock' = [lock EXCEPT ![picked[r]] = r]
             /\ GoTo(r, "commit_account")
             /\ UNCHANGED <<tables, keyHolder, req, attempt, seen, picked, reply, result>>
    <2>1. TypeOK'
      BY <1>2, FxKept DEF IInv, TypeOK, GoTo, tables
    <2>2. pc'[r] = "commit_account" /\ picked[r] \in Numbers
      BY <1>2 DEF IInv, TypeOK, GoTo, RequestOK, BodyOK
    <2>3. BodyOK(r)' /\ SeenOK(r)' /\ RowsOK(r)' /\ AttemptsOK(r)'
      BY <1>2, <2>2 DEF IInv, RequestOK, BodyOK, SeenOK, RowsOK, AttemptsOK, tables,
                        Quoted, Holding, Checked
    <2>4. LocksOK(r)'
      BY <1>2, <2>2 DEF IInv, TypeOK, LocksOK, tables, Holding, Checked
    <2>5. SessionsKept(r)
      BY <1>2, FxKept DEF IInv, TypeOK, GoTo, SessionsKept
    <2> QED
      BY <1>2, <2>1, <2>3, <2>4, <2>5, FxKept, QuietStep DEF IInv, TypeOK, RequestOK
  <1> QED
    BY <1>1, <1>2 DEF InsertAccount

(* A request whose handler is past a commit relies on nothing.              *)
LEMMA RepliedOK ==
  ASSUME IInv, NEW r \in Requests, pc'[r] = "replied", transfers' = transfers,
         pc[r] \in {"commit_account", "commit_close"}
  PROVE  RequestOK(r)' /\ PostedOK(r)'
  <1>1. transfers'[r] = NoRow
    BY DEF IInv, RequestOK, RowsOK
  <1>2. RequestOK(r)'
    BY <1>1 DEF RequestOK, BodyOK, LocksOK, SeenOK, RowsOK, AttemptsOK, Quoted, Holding, Checked
  <1> QED
    BY <1>1, <1>2 DEF PostedOK, Posted

(* The commit of a new account.                                             *)
LEMMA CommitAccountIInv ==
  ASSUME IInv, NEW r \in Requests, CommitAccount(r), UNCHANGED fx
  PROVE  IInv'
  <1>1. /\ req[r] \in CreateBody /\ req[r].currency \in Currencies
        /\ picked[r] \in Numbers /\ lock[picked[r]] = r
    BY DEF IInv, RequestOK, BodyOK, LocksOK, CommitAccount
  <1>2. Stored(req[r].opening) \in Nat
    BY <1>1, OpeningAssumption, StoredNat DEF CreateBody
  <1>3. NewAccount(r) \in AccountRow /\ NewAccount(r).balance \in Nat
    BY <1>1, <1>2 DEF NewAccount, AccountRow, CreateBody
  <1>4. TypeOK'
    <2>1. Audit("account_created", r, {picked[r]}, Stored(req[r].opening)) \in AuditEntry
      BY <1>1, <1>2 DEF Audit, AuditEntry, OperationTypeLength
    <2>2. accounts' \in AccountTable
      BY <1>3 DEF IInv, TypeOK, AccountTable, CommitAccount
    <2> QED
      BY <2>1, <2>2, FxKept DEF IInv, TypeOK, CommitAccount, Release, GoTo
  <1>5. NoOverdraft' /\ AtMostOncePerKey'
    BY <1>1, <1>3 DEF IInv, TypeOK, AccountTable, NoOverdraft, AtMostOncePerKey, Posted, CommitAccount
  <1>6. RequestOK(r)' /\ PostedOK(r)'
    BY RepliedOK DEF IInv, TypeOK, CommitAccount, GoTo
  <1>7. /\ \A n \in Numbers : lock[n] # r => accounts'[n] = accounts[n]
        /\ \A n \in Numbers : accounts[n] # NoRow => accounts'[n] # NoRow
    BY <1>1, <1>3, NoRowAssumption DEF IInv, TypeOK, AccountTable, CommitAccount
  <1>8. SessionsKept(r)
    BY FxKept DEF IInv, TypeOK, CommitAccount, GoTo, SessionsKept
  <1> QED
    BY <1>4, <1>5, <1>6, <1>7, <1>8, FxKept, CommitStep DEF CommitAccount

(* The unlocked read of a delete.                                           *)
LEMMA LoadAccountIInv ==
  ASSUME IInv, NEW r \in Requests, LoadAccount(r), UNCHANGED fx
  PROVE  IInv'
  <1>1. CASE Raise(r, "not_found") \/ Raise(r, "forbidden")
    BY <1>1, RaiseIInv
  <1>2. CASE /\ pc[r] = "load_account"
             /\ IsActive(accounts[req[r].number])
             /\ Load(r, req[r].number)
             /\ GoTo(r, "lock_account")
             /\ UNCHANGED <<tables, locks, req, attempt, picked, reply, result>>
    <2>1. req[r] \in DeleteBody /\ req[r].number \in Numbers
      BY <1>2 DEF IInv, RequestOK, BodyOK, DeleteBody
    <2>2. TypeOK'
      BY <1>2, <2>1, FxKept DEF IInv, TypeOK, AccountTable, Load, Loaded, GoTo, tables, locks
    <2>3. pc'[r] = "lock_account"
      BY <1>2 DEF IInv, TypeOK, GoTo
    <2>4. RequestOK(r)'
      BY <1>2, <2>1, <2>3 DEF IInv, tables, IsActive, RequestOK, BodyOK, LocksOK, SeenOK,
                              RowsOK, AttemptsOK, Quoted, Holding, Checked
    <2>5. SessionsKept(r)
      BY <1>2, FxKept DEF IInv, TypeOK, Load, GoTo, SessionsKept
    <2> QED
      BY <1>2, <2>2, <2>4, <2>5, FxKept, QuietStep DEF locks
  <1> QED
    BY <1>1, <1>2 DEF LoadAccount

(* The lock of a delete; the object of the session may be out of date.      *)
LEMMA LockAccountIInv ==
  ASSUME IInv, NEW r \in Requests, LockAccount(r), UNCHANGED fx
  PROVE  IInv'
  <1>1. CASE Raise(r, "not_found") \/ Raise(r, "account_has_balance")
    BY <1>1, RaiseIInv
  <1>2. CASE /\ pc[r] = "lock_account"
             /\ RowFree(r, req[r].number)
             /\ lock' = [lock EXCEPT ![req[r].number] = r]
             /\ GoTo(r, "commit_close")
             /\ UNCHANGED <<tables, keyHolder, req, attempt, seen, picked, reply, result>>
    <2>1. /\ req[r] \in DeleteBody /\ req[r].number \in Numbers
          /\ accounts[req[r].number] # NoRow
      BY <1>2 DEF IInv, RequestOK, BodyOK, LocksOK, DeleteBody
    <2>2. TypeOK'
      BY <1>2, <2>1, FxKept DEF IInv, TypeOK, GoTo, tables
    <2>3. pc'[r] = "commit_close" /\ lock'[req[r].number] = r
      BY <1>2, <2>1 DEF IInv, TypeOK, GoTo
    <2>4. RequestOK(r)'
      BY <1>2, <2>1, <2>3 DEF IInv, tables, RequestOK, BodyOK, LocksOK, SeenOK, RowsOK,
                              AttemptsOK, Quoted, Holding, Checked
    <2>5. SessionsKept(r)
      BY <1>2, FxKept DEF IInv, TypeOK, GoTo, SessionsKept
    <2> QED
      BY <1>2, <2>1, <2>2, <2>4, <2>5, FxKept, QuietStep DEF IInv, TypeOK, RowFree
  <1> QED
    BY <1>1, <1>2 DEF LockAccount

(* What closing an account writes.                                          *)
LEMMA CloseFacts ==
  ASSUME IInv, NEW r \in Requests, CommitClose(r)
  PROVE  /\ req[r].number \in Numbers /\ lock[req[r].number] = r
         /\ accounts[req[r].number] # NoRow
         /\ accounts[req[r].number] \in AccountRow
         /\ accounts' = [accounts EXCEPT ![req[r].number] =
               [@ EXCEPT !.status = "closed", !.owner = Anonymized]]
  <1>1. /\ req[r] \in DeleteBody /\ req[r].number \in Numbers
        /\ lock[req[r].number] = r
        /\ accounts[req[r].number] # NoRow
    BY DEF IInv, RequestOK, BodyOK, LocksOK, CommitClose, DeleteBody
  <1>2. accounts[req[r].number] \in AccountRow
    BY <1>1 DEF IInv, TypeOK, AccountTable
  <1> QED
    BY <1>1, <1>2 DEF CommitClose, IInv, TypeOK, AccountTable, AccountRow

(* A closed account keeps its balance and its currency.                     *)
LEMMA ClosedRow ==
  ASSUME NEW row \in AccountRow
  PROVE  LET closed == [row EXCEPT !.status = "closed", !.owner = Anonymized]
         IN  /\ closed \in AccountRow
             /\ closed.balance = row.balance /\ closed.currency = row.currency
  BY DEF AccountRow

(* The commit of a closing.                                                 *)
LEMMA CommitCloseIInv ==
  ASSUME IInv, NEW r \in Requests, CommitClose(r), UNCHANGED fx
  PROVE  IInv'
  <1> DEFINE n == req[r].number
  <1>1. /\ n \in Numbers /\ lock[n] = r /\ accounts[n] \in AccountRow
        /\ accounts' = [accounts EXCEPT ![n] =
              [@ EXCEPT !.status = "closed", !.owner = Anonymized]]
    BY CloseFacts
  <1>2. /\ accounts'[n] = [accounts[n] EXCEPT !.status = "closed", !.owner = Anonymized]
        /\ \A m \in Numbers \ {n} : accounts'[m] = accounts[m]
    BY <1>1 DEF IInv, TypeOK, AccountTable
  <1>3. accounts'[n] \in AccountRow /\ accounts'[n].balance = accounts[n].balance
    BY <1>1, <1>2, ClosedRow
  <1>4. accounts' \in AccountTable
    BY <1>1, <1>2, <1>3 DEF IInv, TypeOK, AccountTable
  <1>5. TypeOK'
    <2>1. Audit("account_deleted", r, {n}, 0) \in AuditEntry
      BY <1>1 DEF Audit, AuditEntry, OperationTypeLength
    <2> QED
      BY <1>4, <2>1, FxKept DEF IInv, TypeOK, CommitClose, Release, GoTo
  <1>6. NoOverdraft' /\ AtMostOncePerKey'
    BY <1>1, <1>2, <1>3, NoRowAssumption DEF IInv, NoOverdraft, AtMostOncePerKey, Posted, CommitClose
  <1>7. RequestOK(r)' /\ PostedOK(r)'
    BY RepliedOK DEF IInv, TypeOK, CommitClose, GoTo
  <1>8. /\ \A m \in Numbers : lock[m] # r => accounts'[m] = accounts[m]
        /\ \A m \in Numbers : accounts[m] # NoRow => accounts'[m] # NoRow
    BY <1>1, <1>2, <1>3, NoRowAssumption
  <1>9. SessionsKept(r)
    BY FxKept DEF IInv, TypeOK, CommitClose, GoTo, SessionsKept
  <1> QED
    BY <1>5, <1>6, <1>7, <1>8, <1>9, FxKept, CommitStep DEF CommitClose

(* Every step of an account handler keeps the invariant.                    *)
LEMMA AccountStepIInv ==
  ASSUME IInv, NEW r \in Requests, AccountStep(r), UNCHANGED fx
  PROVE  IInv'
  <1>1. CASE RefuseCurrency(r)
    BY <1>1, RaiseIInv DEF RefuseCurrency
  <1>2. CASE ReplyAccount(r)
    BY <1>2, RespondIInv DEF ReplyAccount
  <1> QED
    BY <1>1, <1>2, PickNumberIInv, InsertAccountIInv, CommitAccountIInv, LoadAccountIInv,
       LockAccountIInv, CommitCloseIInv DEF AccountStep
-----------------------------------------------------------------------------
(* The steps of CrossCurrencyTransferService, and those of the snapshot     *)
(* table and the clock, keep the invariant.                                 *)

(* A new or a stale snapshot, or the end of a day, disturbs no request.     *)
LEMMA EnvironmentIInv ==
  ASSUME IInv, InsertSnapshot \/ MarkStale \/ Elapse
  PROVE  IInv'
  <1>1. /\ UNCHANGED <<storeVars, quote, notifications>>
        /\ snapshots' \in Seq(SnapshotRow) /\ Len(snapshots') <= MaxSnapshots
        /\ recent' \subseteq Requests
        /\ SnapshotsKept
    <2>1. snapshots \in Seq(SnapshotRow) /\ Len(snapshots) <= MaxSnapshots /\ recent \subseteq Requests
      BY DEF IInv, TypeOK
    <2>2. CASE InsertSnapshot
      <3>1. PICK f \in FeedRates : snapshots' = Append(snapshots, [stale |-> FALSE, rates |-> f])
        BY <2>2 DEF InsertSnapshot
      <3>2. [stale |-> FALSE, rates |-> f] \in SnapshotRow
        BY DEF SnapshotRow
      <3>3. /\ snapshots' \in Seq(SnapshotRow) /\ Len(snapshots') = Len(snapshots) + 1
            /\ \A s \in 1 .. Len(snapshots) : snapshots'[s] = snapshots[s]
        BY <2>1, <3>1, <3>2
      <3>4. DOMAIN snapshots = 1 .. Len(snapshots) /\ DOMAIN snapshots' = 1 .. Len(snapshots')
            /\ Len(snapshots) \in Nat
        BY <2>1, <3>3
      <3>5. SnapshotsKept
        BY <3>3, <3>4 DEF SnapshotsKept
      <3>6. Len(snapshots') <= MaxSnapshots
        BY <2>2, <3>3, <3>4, MaxSnapshotsAssumption DEF InsertSnapshot
      <3> QED
        BY <2>1, <2>2, <3>3, <3>5, <3>6 DEF InsertSnapshot
    <2>3. CASE MarkStale
      <3>1. PICK s \in DOMAIN snapshots : snapshots' = [snapshots EXCEPT ![s].stale = TRUE]
        BY <2>3 DEF MarkStale
      <3>2. /\ DOMAIN snapshots = 1 .. Len(snapshots) /\ Len(snapshots) \in Nat
            /\ \A u \in DOMAIN snapshots : snapshots[u] \in SnapshotRow
        BY <2>1
      <3>3. /\ DOMAIN snapshots' = 1 .. Len(snapshots)
            /\ \A u \in 1 .. Len(snapshots) : /\ snapshots'[u] \in SnapshotRow
                                              /\ snapshots'[u].rates = snapshots[u].rates
        BY <3>1, <3>2 DEF SnapshotRow
      <3>4. snapshots' \in [1 .. Len(snapshots) -> SnapshotRow]
        BY <3>1, <3>2, <3>3
      <3>5. snapshots' \in Seq(SnapshotRow) /\ Len(snapshots') = Len(snapshots)
        BY <3>2, <3>4
      <3> QED
        BY <2>1, <2>3, <3>2, <3>3, <3>5 DEF MarkStale, SnapshotsKept
    <2>4. CASE Elapse
      BY <2>1, <2>4 DEF Elapse, SnapshotsKept
    <2> QED
      BY <2>2, <2>3, <2>4
  <1>2. /\ UNCHANGED <<accounts, transfers, audit, lock, keyHolder, req, pc, attempt, seen,
                       picked, reply, result, quote, notifications>>
    BY <1>1 DEF storeVars
  <1>3. TypeOK'
    BY <1>1, <1>2 DEF IInv, TypeOK
  <1>4. NoOverdraft' /\ AtMostOncePerKey'
    BY <1>2 DEF IInv, NoOverdraft, AtMostOncePerKey, Posted
  <1>5. ASSUME NEW q \in Requests PROVE RequestOK(q)' /\ PostedOK(q)'
    BY <1>1, <1>2, <1>3, OtherKept, PostedKept DEF IInv
  <1> QED
    BY <1>3, <1>4, <1>5 DEF IInv

(* The capacity check and the lookup of the key read only.                  *)
LEMMA FirstStepsIInv ==
  ASSUME IInv, NEW r \in Requests, CheckCapacity(r) \/ CrossLookup(r)
  PROVE  IInv'
  <1>1. UNCHANGED fx
    BY DEF CheckCapacity, CrossLookup
  <1>2. CASE \E o \in {"capacity_exceeded", "conflict"} : Raise(r, o)
    BY <1>1, <1>2, RaiseIInv
  <1>3. CASE \E t \in RecordOf(req[r].key) :
                /\ Respond(r, "replayed", t)
                /\ UNCHANGED <<tables, locks, req, attempt, seen, picked>>
    BY <1>1, <1>3, RespondIInv DEF RecordOf
  <1>4. CASE /\ \/ pc[r] = "capacity" /\ GoTo(r, "cross_lookup")
                \/ pc[r] = "cross_lookup" /\ GoTo(r, "latest")
             /\ UNCHANGED <<tables, locks, req, attempt, seen, picked, reply, result>>
    <2>1. /\ pc[r] \in {"capacity", "cross_lookup"} /\ pc'[r] \in {"cross_lookup", "latest"}
      BY <1>4 DEF IInv, TypeOK, GoTo
    <2>2. BodyOK(r)' /\ LocksOK(r)'
      BY <1>4, <2>1 DEF IInv, RequestOK, BodyOK, LocksOK, Quoted, Holding, Checked
    <2>3. SeenOK(r)' /\ RowsOK(r)' /\ AttemptsOK(r)'
      BY <1>4, <2>1 DEF IInv, RequestOK, SeenOK, RowsOK, AttemptsOK, tables, Holding, Checked
    <2> QED
      BY <1>1, <1>4, <2>2, <2>3, AdvanceIInv DEF RequestOK
  <1> QED
    BY <1>2, <1>3, <1>4 DEF CheckCapacity, CrossLookup, ReplayOr

(* The newest snapshot is quoted.                                           *)
LEMMA ReadLatestIInv ==
  ASSUME IInv, NEW r \in Requests, ReadLatest(r)
  PROVE  IInv'
  <1>1. CASE Raise(r, "stale_rate") /\ UNCHANGED fx
    BY <1>1, RaiseIInv
  <1>2. CASE /\ pc[r] = "latest"
             /\ \E s \in DOMAIN snapshots : quote' = [quote EXCEPT ![r] = s]
             /\ GoTo(r, "preview")
             /\ UNCHANGED <<tables, locks, req, attempt, seen, picked, reply, result,
                            snapshots, notifications, recent>>
    <2>1. PICK s \in DOMAIN snapshots : quote' = [quote EXCEPT ![r] = s]
      BY <1>2
    <2>2. s \in 0 .. MaxSnapshots
      BY MaxSnapshotsAssumption DEF IInv, TypeOK
    <2>3. TypeOK'
      BY <1>2, <2>1, <2>2 DEF IInv, TypeOK, tables, locks, GoTo
    <2>4. pc'[r] = "preview" /\ quote'[r] = s
      BY <1>2, <2>1 DEF IInv, TypeOK, GoTo
    <2>5. BodyOK(r)' /\ LocksOK(r)'
      BY <1>2, <2>4 DEF IInv, RequestOK, BodyOK, LocksOK, Quoted, Holding, Checked
    <2>6. SeenOK(r)' /\ RowsOK(r)' /\ AttemptsOK(r)'
      BY <1>2, <2>4 DEF IInv, RequestOK, SeenOK, RowsOK, AttemptsOK, tables, Holding, Checked
    <2>7. SessionsKept(r) /\ SnapshotsKept
      BY <1>2, <2>1 DEF IInv, TypeOK, GoTo, SessionsKept, SnapshotsKept
    <2> QED
      BY <1>2, <2>3, <2>5, <2>6, <2>7, QuietStep DEF locks, RequestOK
  <1> QED
    BY <1>1, <1>2 DEF ReadLatest

(* The previewed snapshot is there, and the pair is active.                 *)
LEMMA ReadPreviewIInv ==
  ASSUME IInv, NEW r \in Requests, ReadPreview(r)
  PROVE  IInv'
  <1>1. UNCHANGED fx
    BY DEF ReadPreview
  <1>2. CASE \E o \in {"stale_rate", "unsupported_currency"} : Raise(r, o)
    BY <1>1, <1>2, RaiseIInv
  <1>3. CASE /\ pc[r] = "preview" /\ PreviewUsable(r)
             /\ <<req[r].from, req[r].to>> \in ActivePairs
             /\ GoTo(r, "cross_lock_source")
             /\ UNCHANGED <<tables, locks, req, attempt, seen, picked, reply, result>>
    <2>1. pc'[r] = "cross_lock_source"
      BY <1>3 DEF IInv, TypeOK, GoTo
    <2>2. req[r].snapshot \in DOMAIN snapshots
      BY <1>3 DEF PreviewUsable, IInv, RequestOK, BodyOK, Quoted
    <2>3. BodyOK(r)'
      BY <1>1, <1>3, <2>1, <2>2 DEF IInv, RequestOK, BodyOK, Pair, fx, Quoted, Holding, Checked
    <2>4. LocksOK(r)' /\ SeenOK(r)' /\ RowsOK(r)' /\ AttemptsOK(r)'
      BY <1>3, <2>1 DEF IInv, RequestOK, LocksOK, SeenOK, RowsOK, AttemptsOK, tables,
                        Holding, Checked
    <2> QED
      BY <1>1, <1>3, <2>3, <2>4, AdvanceIInv DEF RequestOK
  <1> QED
    BY <1>2, <1>3 DEF ReadPreview

(* The two locks; the destination may be the source.                        *)
LEMMA CrossLockIInv ==
  ASSUME IInv, NEW r \in Requests, CrossLockSource(r) \/ CrossLockDestination(r)
  PROVE  IInv'
  <1> DEFINE n == IF pc[r] = "cross_lock_source" THEN req[r].src ELSE req[r].dst
             next == IF pc[r] = "cross_lock_source" THEN "cross_lock_destination" ELSE "cross_check"
  <1>1. /\ LockActive(r, n, next)
        /\ pc[r] \in {"cross_lock_source", "cross_lock_destination"}
        /\ UNCHANGED fx
    BY DEF CrossLockSource, CrossLockDestination
  <1>2. req[r] \in CrossBody /\ n \in Numbers
    BY <1>1 DEF IInv, RequestOK, BodyOK, CrossBody, Quoted
  <1>3. seen[r][n] \in {NoRow, accounts[n]}
    BY <1>1, <1>2 DEF IInv, RequestOK, SeenOK, Current
  <1> HIDE DEF n, next
  <1>4. CASE Raise(r, "not_found")
    BY <1>1, <1>4, RaiseIInv
  <1>5. CASE ~ Raise(r, "not_found")
    <2>1. /\ lock[n] \in {Nobody, r} /\ lock' = [lock EXCEPT ![n] = r]
          /\ IsActive(accounts[n])
          /\ seen' = [seen EXCEPT ![r][n] = accounts[n]]
          /\ GoTo(r, next)
          /\ UNCHANGED <<tables, keyHolder, req, attempt, picked, reply, result>>
      BY <1>1, <1>2, <1>3, <1>5, LockFacts
    <2>2. TypeOK'
      BY <1>1, <1>2, <2>1, FxKept DEF IInv, TypeOK, tables, GoTo, AccountTable, next
    <2>3. /\ pc'[r] = next /\ next \in {"cross_lock_destination", "cross_check"}
          /\ (next = "cross_check" => pc[r] = "cross_lock_destination")
      BY <1>1, <2>1 DEF IInv, TypeOK, GoTo, next
    <2>4. BodyOK(r)'
      BY <1>1, <2>1, <2>3, FxKept DEF IInv, RequestOK, BodyOK, Pair, Quoted, Holding, Checked
    <2>5. lock'[n] = r /\ \A m \in Numbers : lock[m] = r => lock'[m] = r
      BY <1>2, <2>1 DEF IInv, TypeOK
    <2>6. LocksOK(r)'
      BY <1>1, <1>2, <2>1, <2>3, <2>5
         DEF IInv, RequestOK, LocksOK, next, n, CrossBody, Holding, Checked
    <2>7. accounts' = accounts /\ req' = req
      BY <2>1 DEF tables
    <2>8. /\ seen'[r][n] = accounts[n]
          /\ \A m \in Numbers : m # n => seen'[r][m] = seen[r][m]
      BY <1>2, <2>1 DEF IInv, TypeOK, AccountTable
    <2>9. SeenOK(r)'
      <3>1. CASE pc[r] = "cross_lock_source"
        BY <1>2, <2>1, <2>3, <2>7, <2>8, <3>1
           DEF IInv, RequestOK, SeenOK, next, n, Current, IsActive, CrossBody, Holding, Checked
      <3>2. CASE pc[r] = "cross_lock_destination"
        <4>1. Current(r, req[r].src)
          BY <3>2 DEF IInv, RequestOK, SeenOK
        <4> QED
          BY <1>2, <2>1, <2>3, <2>7, <2>8, <3>2, <4>1
             DEF SeenOK, next, n, Current, IsActive, CrossBody, Holding, Checked
      <3> QED
        BY <1>1, <3>1, <3>2
    <2>10. RowsOK(r)' /\ AttemptsOK(r)'
      BY <1>1, <2>1, <2>3 DEF IInv, tables, RequestOK, RowsOK, AttemptsOK
    <2>11. SessionsKept(r)
      BY <1>1, <2>1, FxKept DEF IInv, TypeOK, GoTo, SessionsKept
    <2> QED
      BY <1>1, <1>2, <2>1, <2>2, <2>4, <2>6, <2>9, <2>10, <2>11, FxKept, QuietStep
         DEF IInv, TypeOK, RequestOK
  <1> QED
    BY <1>4, <1>5

(* A positive verdict establishes what Cleared says.                        *)
LEMMA VerdictClears ==
  ASSUME IInv, NEW r \in Requests, pc[r] = "cross_check", CrossVerdict(r) = "ok",
         AmountUsd(r) \in Int
  PROVE  Cleared(r)
  BY LimitsAssumption DEF CrossVerdict, Cleared, OverLimit, RateMoved, CoversCost

(* The rates of a snapshot, and what is computed from them, are natural.    *)
LEMMA RateTypes ==
  ASSUME IInv, NEW r \in Requests, pc[r] \in Holding
  PROVE  /\ req[r] \in CrossBody /\ req[r].amount \in Nat /\ 0 < req[r].amount
         /\ Pair(r) \in DOMAIN CurrentRates(r) => CurrentRate(r) \in Nat
         /\ HasUsdRate(req[r].from, CurrentRates(r)) => AmountUsd(r) \in Nat
  <1>1. /\ req[r] \in CrossBody /\ req[r].amount \in Nat /\ 0 < req[r].amount
        /\ quote[r] \in DOMAIN snapshots
    BY AmountsAssumption DEF IInv, RequestOK, BodyOK, CrossBody, Quoted, Holding
  <1>2. CurrentRates(r) \in FeedRates
    <2>1. snapshots \in Seq(SnapshotRow)
      BY DEF IInv, TypeOK
    <2>2. snapshots[quote[r]] \in SnapshotRow
      BY <1>1, <2>1
    <2> QED
      BY <2>2 DEF CurrentRates, SnapshotRow
  <1>3. \A p \in DOMAIN CurrentRates(r) : CurrentRates(r)[p] \in Nat
    BY <1>2, FeedRatesAssumption
  <1>4. HasUsdRate(req[r].from, CurrentRates(r)) => AmountUsd(r) \in Nat
    BY <1>1, <1>3, StoredNat, ScaledNat DEF HasUsdRate, AmountUsd, AmountInUsd
  <1> QED
    BY <1>1, <1>3, <1>4 DEF CurrentRate

(* The checks between the locks and the insertion write nothing.            *)
LEMMA CrossCheckIInv ==
  ASSUME IInv, NEW r \in Requests, CrossCheck(r)
  PROVE  IInv'
  <1>1. UNCHANGED fx /\ pc[r] = "cross_check"
    BY DEF CrossCheck
  <1>2. CASE \E o \in {"forbidden", "unsupported_currency", "rate_deviation", "limit_exceeded",
                       "insufficient_funds"} : Raise(r, o)
    BY <1>1, <1>2, RaiseIInv
  <1>3. CASE /\ CrossVerdict(r) = "ok"
             /\ GoTo(r, "cross_insert")
             /\ UNCHANGED <<tables, locks, req, attempt, seen, picked, reply, result>>
    <2>1. pc'[r] = "cross_insert"
      BY <1>3 DEF IInv, TypeOK, GoTo
    <2>2. AmountUsd(r) \in Int
      BY <1>1, <1>3, RateTypes DEF CrossVerdict, Holding
    <2>3. Cleared(r)
      BY <1>1, <1>3, <2>2, VerdictClears
    <2>4. /\ req[r].snapshot \in DOMAIN snapshots /\ quote[r] \in DOMAIN snapshots
      BY <1>1 DEF IInv, RequestOK, BodyOK, Quoted, Holding
    <2>5. Cleared(r)'
      BY <1>1, <1>3, <2>3, <2>4, ClearedKept, FxKept
    <2>6. BodyOK(r)'
      BY <1>1, <1>3, <2>1, FxKept DEF IInv, RequestOK, BodyOK, Pair, Quoted, Holding, Checked
    <2>7. LocksOK(r)'
      BY <1>1, <1>3, <2>1 DEF IInv, RequestOK, LocksOK, locks, Holding, Checked
    <2>8. SeenOK(r)' /\ RowsOK(r)' /\ AttemptsOK(r)'
      BY <1>1, <1>3, <2>1, <2>5 DEF IInv, RequestOK, SeenOK, RowsOK, AttemptsOK, tables,
                                    Current, IsActive, Holding, Checked
    <2> QED
      BY <1>1, <1>3, <2>6, <2>7, <2>8, AdvanceIInv DEF RequestOK
  <1> QED
    BY <1>2, <1>3 DEF CrossCheck, CrossVerdict

(* The insertion reserves the key in the unique index.                      *)
LEMMA CrossInsertIInv ==
  ASSUME IInv, NEW r \in Requests, CrossInsert(r)
  PROVE  IInv'
  <1>1. UNCHANGED fx /\ pc[r] = "cross_insert"
    BY DEF CrossInsert
  <1>2. CASE Raise(r, "internal_error")
    BY <1>1, <1>2, RaiseIInv
  <1>3. CASE ~ Raise(r, "internal_error")
    <2>1. /\ keyHolder[req[r].key] = Nobody /\ RecordOf(req[r].key) = {}
          /\ keyHolder' = [keyHolder EXCEPT ![req[r].key] = r]
          /\ GoTo(r, "pending")
          /\ UNCHANGED <<tables, lock, req, attempt, seen, picked, reply, result>>
      BY <1>3, InsertFacts DEF CrossInsert
    <2>2. TypeOK'
      BY <1>1, <2>1, FxKept DEF IInv, TypeOK, tables, GoTo
    <2>3. pc'[r] = "pending"
      BY <2>1 DEF IInv, TypeOK, GoTo
    <2>4. /\ BodyOK(r)' /\ req[r].key \in Keys
          /\ req[r].snapshot \in DOMAIN snapshots /\ quote[r] \in DOMAIN snapshots
      BY <1>1, <2>1, <2>3, FxKept
         DEF IInv, RequestOK, BodyOK, CrossBody, Pair, Quoted, Holding, Checked
    <2>5. LocksOK(r)'
      BY <1>1, <2>1, <2>3, <2>4 DEF IInv, TypeOK, RequestOK, LocksOK, RecordOf, Posted, tables,
                                    Holding, Checked
    <2>6. Cleared(r)'
      BY <1>1, <2>1, <2>4, FxKept, ClearedKept DEF IInv, RequestOK, SeenOK, Checked
    <2>7. SeenOK(r)' /\ RowsOK(r)' /\ AttemptsOK(r)'
      BY <1>1, <2>1, <2>3, <2>6 DEF IInv, RequestOK, SeenOK, RowsOK, AttemptsOK, tables, Current,
                                    IsActive, Holding, Checked
    <2>8. SessionsKept(r)
      BY <1>1, <2>1, FxKept DEF IInv, TypeOK, GoTo, SessionsKept
    <2> QED
      BY <1>1, <2>1, <2>2, <2>4, <2>5, <2>7, <2>8, FxKept, QuietStep DEF IInv, TypeOK, RequestOK
  <1> QED
    BY <1>2, <1>3

(* The status of the uncommitted row moves on.                              *)
LEMMA StatusIInv ==
  ASSUME IInv, NEW r \in Requests, Process(r) \/ Complete(r)
  PROVE  IInv'
  <1>1. PICK new \in {"processing", "completed"} : UpdateTransferStatus(r, new)
    BY DEF Process, Complete
  <1>2. /\ pc[r] \in {"pending", "processing"} /\ GoTo(r, new) /\ UNCHANGED fx
        /\ UNCHANGED <<tables, locks, req, attempt, seen, picked, reply, result>>
    BY <1>1 DEF UpdateTransferStatus
  <1>3. pc'[r] = new
    BY <1>2 DEF IInv, TypeOK, GoTo
  <1>4. /\ BodyOK(r)'
        /\ req[r].snapshot \in DOMAIN snapshots /\ quote[r] \in DOMAIN snapshots
    BY <1>2, <1>3, FxKept DEF IInv, RequestOK, BodyOK, Pair, Quoted, Holding, Checked
  <1>5. LocksOK(r)'
    BY <1>2, <1>3 DEF IInv, RequestOK, LocksOK, RecordOf, Posted, tables, locks, Holding, Checked
  <1>6. Cleared(r)'
    BY <1>2, <1>4, FxKept, ClearedKept DEF IInv, RequestOK, SeenOK, Checked
  <1>7. SeenOK(r)' /\ RowsOK(r)' /\ AttemptsOK(r)'
    BY <1>2, <1>3, <1>6 DEF IInv, RequestOK, SeenOK, RowsOK, AttemptsOK, tables, Current,
                            IsActive, Holding, Checked
  <1> QED
    BY <1>2, <1>4, <1>5, <1>7, AdvanceIInv DEF RequestOK

(* What the commit of a cross-currency transfer writes, in terms of the     *)
(* committed rows.                                                          *)
LEMMA CrossCommitFacts ==
  ASSUME IInv, NEW r \in Requests, CrossCommit(r)
  PROVE  LET s == req[r].src
             d == req[r].dst
             a == req[r].amount
             net == NetAmount(a, CurrentRate(r))
             left == Stored(accounts[s].balance - TotalSenderCost(a))
             credited == Stored((IF d = s THEN left ELSE accounts[d].balance) + net)
         IN  /\ req[r] \in CrossBody /\ s \in Numbers /\ d \in Numbers /\ a \in Nat /\ 0 < a
             /\ accounts[s] \in AccountRow /\ accounts[d] \in AccountRow
             /\ IsActive(accounts[s]) /\ IsActive(accounts[d])
             /\ lock[s] = r /\ lock[d] = r
             /\ seen[r][s] = accounts[s] /\ seen[r][d] = accounts[d]
             /\ Cleared(r) /\ quote[r] \in DOMAIN snapshots
             /\ req[r].snapshot \in DOMAIN snapshots /\ Pair(r) \in ActivePairs
             /\ TotalSenderCost(a) <= accounts[s].balance
             /\ net \in Nat /\ left \in Nat /\ credited \in Nat
             /\ accounts' = [accounts EXCEPT ![s].balance = left, ![d].balance = credited]
             /\ CrossTransfer(r) \in TransferRow
             /\ AmountUsd(r) \in Nat
  <1> DEFINE s == req[r].src
             d == req[r].dst
             a == req[r].amount
             net == NetAmount(a, CurrentRate(r))
             cost == TotalSenderCost(a)
             left == Stored(accounts[s].balance - cost)
             before == IF d = s THEN left ELSE accounts[d].balance
             credited == Stored(before + net)
  <1>1. /\ pc[r] = "completed" /\ pc[r] \in Holding
        /\ req[r] \in CrossBody /\ quote[r] \in DOMAIN snapshots
        /\ req[r].snapshot \in DOMAIN snapshots /\ Pair(r) \in ActivePairs
    BY DEF IInv, RequestOK, BodyOK, CrossCommit, Quoted, Holding, Checked
  <1>2. /\ s \in Numbers /\ d \in Numbers /\ a \in Nat /\ 0 < a
        /\ req[r].key \in Keys /\ req[r].caller \in Callers /\ req[r].to \in Currencies
    BY <1>1, RateTypes DEF CrossBody
  <1>3. /\ seen[r][s] = accounts[s] /\ seen[r][d] = accounts[d]
        /\ IsActive(accounts[s]) /\ IsActive(accounts[d])
        /\ Cleared(r)
    BY <1>1 DEF IInv, RequestOK, SeenOK, Current, Checked
  <1>4. lock[s] = r /\ lock[d] = r
    BY <1>1 DEF IInv, RequestOK, LocksOK
  <1>5. /\ accounts[s] \in AccountRow /\ accounts[d] \in AccountRow
        /\ accounts[s].balance \in Nat /\ accounts[d].balance \in Nat
    BY <1>2, <1>3 DEF IInv, TypeOK, NoOverdraft, AccountTable, AccountRow, IsActive
  <1>6. CurrentRate(r) \in Nat /\ AmountUsd(r) \in Nat
    BY <1>1, <1>3, RateTypes DEF Cleared
  <1>7. /\ net \in Nat /\ cost \in Nat /\ SendingFee(a) \in Nat
        /\ cost <= accounts[s].balance
    <2>1. net \in Nat /\ cost \in Nat /\ SendingFee(a) \in Nat
      BY <1>2, <1>6, NetAmountNat, CostNat
    <2>2. accounts[s].balance >= cost
      BY <1>3 DEF Cleared
    <2> HIDE DEF net, cost
    <2>3. cost <= accounts[s].balance
      BY <1>5, <2>1, <2>2
    <2> QED
      BY <2>1, <2>3
  <1> HIDE DEF cost
  <1>8. left \in Nat
    BY <1>5, <1>7, StoredNat
  <1> HIDE DEF left
  <1>9. before \in Nat
    BY <1>5, <1>8
  <1> HIDE DEF before, net
  <1>10. credited \in Nat
    BY <1>7, <1>9, StoredNat
  <1>11. accounts' = [accounts EXCEPT ![s].balance = left, ![d].balance = credited]
    BY <1>3 DEF CrossCommit, CrossBalances, left, before, net, cost
  <1>12. CrossTransfer(r) \in TransferRow
    <2>1. quote[r] \in 0 .. MaxSnapshots /\ Stored(a) \in Nat
      BY <1>2, StoredNat DEF IInv, TypeOK
    <2> QED
      BY <1>1, <1>2, <1>6, <1>7, <2>1 DEF CrossTransfer, TransferRow, net
  <1> QED
    BY <1>1, <1>2, <1>3, <1>4, <1>5, <1>6, <1>7, <1>8, <1>10, <1>11, <1>12
       DEF net, cost, left, before

(* The entries and notifications that the commit adds have their types.     *)
LEMMA CrossRecords ==
  ASSUME IInv, NEW r \in Requests, CrossCommit(r)
  PROVE  NewNotifications(r) \subseteq Notification /\ CrossAudit(r) \subseteq AuditEntry
  <1> DEFINE net == NetAmount(req[r].amount, CurrentRate(r))
  <1>1. /\ req[r].src \in Numbers /\ req[r].dst \in Numbers /\ net \in Nat
        /\ AmountUsd(r) \in Nat /\ Stored(req[r].amount) \in Nat
    BY CrossCommitFacts, StoredNat
  <1>2. NewNotifications(r) \subseteq Notification
    <2> HIDE DEF net
    <2> QED
      BY <1>1 DEF NewNotifications, Notification, net
  <1>3. CrossAudit(r) \subseteq AuditEntry
    <2>1. \A op \in DOMAIN OperationTypeLength, on \in SUBSET Numbers, v \in Int :
             Audit(op, r, on, v) \in AuditEntry
      BY DEF Audit, AuditEntry
    <2>2. \A n \in NewNotifications(r) :
             Audit("notification_delivered", r, {n.recipient}, n.amount) \in AuditEntry
      BY <1>2, <2>1 DEF Notification, OperationTypeLength
    <2>3. {"cross_currency_transfer_initiated", "cross_currency_transfer_completed",
           "aml_kyc_screening_triggered"} \subseteq DOMAIN OperationTypeLength
      BY DEF OperationTypeLength
    <2>4. /\ Audit("cross_currency_transfer_initiated", r, {req[r].src, req[r].dst},
                   Stored(req[r].amount)) \in AuditEntry
          /\ Audit("cross_currency_transfer_completed", r, {req[r].src, req[r].dst},
                   Stored(req[r].amount)) \in AuditEntry
          /\ Audit("aml_kyc_screening_triggered", r, {req[r].src, req[r].dst},
                   AmountUsd(r)) \in AuditEntry
      BY <1>1, <2>1, <2>3
    <2> QED
      BY <2>2, <2>4 DEF CrossAudit, DeliveryAudit
  <1> QED
    BY <1>2, <1>3

(* A row with another balance is a row.                                     *)
LEMMA WrittenRow ==
  ASSUME NEW row \in AccountRow, NEW b \in Nat, NEW new, new = [row EXCEPT !.balance = b]
  PROVE  new \in AccountRow /\ new.balance >= 0
  BY DEF AccountRow

(* The commit of a cross-currency transfer keeps the invariant.             *)
LEMMA CrossCommitIInv ==
  ASSUME IInv, NEW r \in Requests, CrossCommit(r)
  PROVE  IInv'
  <1> DEFINE s == req[r].src
             d == req[r].dst
             left == Stored(accounts[s].balance - TotalSenderCost(req[r].amount))
             credited == Stored((IF d = s THEN left ELSE accounts[d].balance)
                                  + NetAmount(req[r].amount, CurrentRate(r)))
  <1>1. /\ left \in Nat /\ credited \in Nat
        /\ accounts' = [accounts EXCEPT ![s].balance = left, ![d].balance = credited]
    BY CrossCommitFacts
  <1> HIDE DEF left, credited
  <1>2. /\ s \in Numbers /\ d \in Numbers
        /\ accounts[s] \in AccountRow /\ accounts[d] \in AccountRow
        /\ lock[s] = r /\ lock[d] = r
        /\ CrossTransfer(r) \in TransferRow
    BY CrossCommitFacts
  <1>3. /\ \A n \in Numbers \ {s, d} : accounts'[n] = accounts[n]
        /\ accounts'[d] = [accounts[d] EXCEPT !.balance = credited]
        /\ s # d => accounts'[s] = [accounts[s] EXCEPT !.balance = left]
        /\ accounts' = [n \in Numbers |-> accounts'[n]]
    BY <1>1, <1>2 DEF IInv, TypeOK, AccountTable, AccountRow
  <1>4. \A n \in {s, d} : accounts'[n] \in AccountRow /\ accounts'[n].balance >= 0
    BY <1>1, <1>2, <1>3, WrittenRow
  <1>5. accounts' \in AccountTable
    BY <1>3, <1>4 DEF IInv, TypeOK, AccountTable
  <1>6. TypeOK'
    BY <1>2, <1>5, CrossRecords DEF IInv, TypeOK, CrossCommit, Release, GoTo
  <1>7. NoOverdraft'
    BY <1>3, <1>4 DEF IInv, NoOverdraft
  <1>8. transfers'[r] = CrossTransfer(r) /\ \A q \in Requests \ {r} : transfers'[q] = transfers[q]
    BY DEF IInv, TypeOK, CrossCommit
  <1>9. /\ keyHolder[req[r].key] = r /\ RecordOf(req[r].key) = {}
        /\ CrossTransfer(r).key = req[r].key
    BY DEF IInv, RequestOK, LocksOK, CrossCommit, CrossTransfer
  <1>10. AtMostOncePerKey'
    <2>1. \A t \in Requests : Posted(t) => transfers[t].key # CrossTransfer(r).key
      BY <1>9 DEF RecordOf, Posted
    <2> QED
      BY <1>8, <2>1 DEF IInv, AtMostOncePerKey, Posted
  <1>11. RequestOK(r)'
    <2>1. /\ pc'[r] = "cross_reply" /\ req'[r] = req[r] /\ req[r] \in CrossBody
      BY CrossCommitFacts DEF IInv, TypeOK, CrossCommit, GoTo
    <2> QED
      BY <2>1 DEF RequestOK, BodyOK, LocksOK, SeenOK, RowsOK, AttemptsOK, Quoted, Holding, Checked
  <1>12. PostedOK(r)'
    <2>1. /\ req' = req /\ snapshots' = snapshots
          /\ Cleared(r) /\ req[r] \in CrossBody
          /\ req[r].snapshot \in DOMAIN snapshots /\ quote[r] \in DOMAIN snapshots
      BY CrossCommitFacts DEF CrossCommit
    <2>2. /\ transfers'[r].snapshot = quote[r]
          /\ transfers'[r].dstAmount = NetAmount(req[r].amount, CurrentRate(r))
      BY <1>8 DEF CrossTransfer
    <2>3. PreviewRates(r)' = PreviewRates(r) /\ Pair(r)' = Pair(r)
          /\ snapshots'[transfers'[r].snapshot].rates[Pair(r)'] = CurrentRate(r)
      BY <2>1, <2>2 DEF PreviewRates, Pair, CurrentRate, CurrentRates
    <2> QED
      BY <2>1, <2>2, <2>3 DEF PostedOK, Cleared
  <1>13. SessionsKept(r) /\ SnapshotsKept /\ Release(r)
    BY DEF IInv, TypeOK, CrossCommit, GoTo, SessionsKept, SnapshotsKept
  <1>14. /\ \A n \in Numbers : lock[n] # r => accounts'[n] = accounts[n]
         /\ \A n \in Numbers : accounts[n] # NoRow => accounts'[n] # NoRow
    BY <1>2, <1>3, <1>4, NoRowAssumption
  <1> QED
    BY <1>6, <1>7, <1>8, <1>9, <1>10, <1>11, <1>12, <1>13, <1>14, CommitStep

(* Every step of a cross-currency transfer keeps the invariant.             *)
LEMMA CrossStepIInv ==
  ASSUME IInv, NEW r \in Requests, CrossStep(r)
  PROVE  IInv'
  <1>1. CASE CrossReply(r)
    BY <1>1, RespondIInv DEF CrossReply
  <1>2. CASE CrossDeadlockAbort(r)
    BY <1>2, RaiseIInv DEF CrossDeadlockAbort
  <1> QED
    BY <1>1, <1>2, FirstStepsIInv, ReadLatestIInv, ReadPreviewIInv, CrossLockIInv,
       CrossCheckIInv, CrossInsertIInv, StatusIInv, CrossCommitIInv DEF CrossStep
------------------------------------------------------------------------------

(* A request that arrives has its body and nothing else.                    *)
LEMMA ArriveIInv ==
  ASSUME IInv, NEW r \in Requests, Arrive(r)
  PROVE  IInv'
  <1>1. PICK b \in Body, first \in {"lookup", "refuse", "pick_number", "load_account", "capacity"} :
           /\ Receive(r, b, first)
           /\ first = "lookup" => b \in TransferBody
           /\ first \in {"refuse", "pick_number"} => b \in CreateBody
           /\ first = "pick_number" => b.currency \in Currencies
           /\ first = "load_account" => b \in DeleteBody
           /\ first = "capacity" => b \in CrossBody
    BY DEF Arrive, CreateTransfer, CreateAccount, DeleteAccount, CreateCrossCurrencyTransfer, Body
  <1>2. UNCHANGED fx
    BY DEF Arrive, CreateCrossCurrencyTransfer
  <1>3. TypeOK'
    BY <1>1, <1>2, FxKept DEF IInv, TypeOK, Receive, tables, locks
  <1>4. /\ pc[r] = "idle" /\ pc'[r] = first /\ req'[r] = b
        /\ UNCHANGED <<tables, locks, attempt, seen, picked, reply, result>>
    BY <1>1 DEF IInv, TypeOK, Receive
  <1>5. BodyOK(r)' /\ LocksOK(r)'
    BY <1>1, <1>4 DEF BodyOK, LocksOK, Quoted, Holding, Checked
  <1>6. SeenOK(r)' /\ RowsOK(r)' /\ AttemptsOK(r)'
    BY <1>1, <1>4, MaxRetriesAssumption, MaxPicksAssumption
       DEF IInv, RequestOK, SeenOK, RowsOK, AttemptsOK, tables, Holding, Checked
  <1>7. SessionsKept(r)
    BY <1>1, <1>2, FxKept DEF IInv, TypeOK, Receive, SessionsKept
  <1>8. transfers[r] = NoRow
    BY <1>4 DEF IInv, RequestOK, RowsOK
  <1> QED
    BY <1>2, <1>3, <1>4, <1>5, <1>6, <1>7, <1>8, FxKept, QuietStep DEF locks, RequestOK

(* The invariant is inductive.                                              *)
LEMMA NextIInv == IInv /\ [Next]_vars => IInv'
  <1> SUFFICES ASSUME IInv, [Next]_vars PROVE IInv'
    OBVIOUS
  <1>1. CASE UNCHANGED vars
    <2>1. /\ UNCHANGED <<accounts, transfers, audit, lock, keyHolder, req, pc, attempt, seen,
                         picked, reply, result>>
          /\ UNCHANGED fx
      BY <1>1 DEF vars, storeVars
    <2>2. TypeOK' /\ NoOverdraft' /\ AtMostOncePerKey'
      BY <2>1, FxKept DEF IInv, TypeOK, NoOverdraft, AtMostOncePerKey, Posted
    <2>3. ASSUME NEW q \in Requests PROVE RequestOK(q)' /\ PostedOK(q)'
      BY <2>1, <2>2, FxKept, OtherKept, PostedKept DEF IInv
    <2> QED
      BY <2>2, <2>3 DEF IInv
  <1>2. ASSUME NEW r \in Requests, Arrive(r) \/ Step(r) \/ Lose(r) PROVE IInv'
    <2>1. CASE Arrive(r)
      BY <2>1, ArriveIInv
    <2>2. CASE Step(r)
      BY <2>2, TransferStepIInv, AccountStepIInv, CrossStepIInv DEF Step
    <2>3. CASE Lose(r)
      BY <2>3, RaiseIInv DEF Lose, Crash
    <2> QED
      BY <1>2, <2>1, <2>2, <2>3
  <1>3. CASE InsertSnapshot \/ MarkStale \/ Elapse
    BY <1>3, EnvironmentIInv
  <1> QED
    BY <1>1, <1>2, <1>3 DEF Next, Quiescent

(* The inductive invariant holds throughout every behaviour.                *)
THEOREM Invariance == Spec => []IInv
  BY InitIInv, NextIInv, PTL DEF Spec

(* Every reachable state is well typed; in particular neither retry loop    *)
(* exceeds its bound.                                                       *)
THEOREM TypeCorrect == Spec => []TypeOK
  <1>1. IInv => TypeOK
    BY DEF IInv
  <1> QED
    BY <1>1, Invariance, PTL

(* No interleaving of handlers overdraws an account.                        *)
THEOREM NeverOverdrawn == Spec => []NoOverdraft
  <1>1. IInv => NoOverdraft
    BY DEF IInv
  <1> QED
    BY <1>1, Invariance, PTL

(* An idempotency key is used by at most one posted transfer, of either     *)
(* service.                                                                 *)
THEOREM KeyUsedOnce == Spec => []AtMostOncePerKey
  <1>1. IInv => AtMostOncePerKey
    BY DEF IInv
  <1> QED
    BY <1>1, Invariance, PTL

(* A transfer computes with the committed rows until it commits.            *)
THEOREM NoLostUpdate == Spec => []ComputesOnCurrentRows
  <1>1. IInv => ComputesOnCurrentRows
    BY DEF IInv, RequestOK, SeenOK, Current, ComputesOnCurrentRows, Holding, Checked
  <1> QED
    BY <1>1, Invariance, PTL

(* A cross-currency transfer is posted at a rate the client has confirmed.  *)
THEOREM ConfirmedRate == Spec => []RateWasConfirmed
  <1>1. IInv => RateWasConfirmed
    BY DEF IInv, PostedOK, RateWasConfirmed
  <1> QED
    BY <1>1, Invariance, PTL
-----------------------------------------------------------------------------
(* The arithmetic of the abstract ledger is that of the service.            *)
LEMMA SameArithmetic ==
  /\ \A v : L!Stored(v) = Stored(v)
  /\ \A v, w : L!Converted(v, w) = Converted(v, w)
  /\ \A v, w : L!GetRate(v, w) = GetRate(v, w)
  /\ \A v, w : L!HasRate(v, w) <=> HasRate(v, w)
  BY DEF L!Converted, L!Stored, L!HalfUp, L!HalfEven, L!GetRate, L!HasRate,
         Converted, Stored, HalfUp, HalfEven, GetRate, HasRate

(* So are its fees and its amounts in USD.                                  *)
LEMMA SameFees ==
  /\ \A v : L!SendingFee(v) = SendingFee(v)
  /\ \A v : L!TotalSenderCost(v) = TotalSenderCost(v)
  /\ \A v, w : L!NetAmount(v, w) = NetAmount(v, w)
  /\ \A v, c, f : L!AmountInUsd(v, c, f) = AmountInUsd(v, c, f)
  <1>1. \A v, w : L!Scaled(v, w) = Scaled(v, w)
    BY DEF L!Scaled, Scaled, L!HalfUp, HalfUp
  <1>2. \A v : L!SendingFee(v) = SendingFee(v)
    BY <1>1 DEF L!SendingFee, SendingFee
  <1>3. \A v : L!TotalSenderCost(v) = TotalSenderCost(v)
    BY <1>2, SameArithmetic DEF L!TotalSenderCost, TotalSenderCost
  <1>4. \A v, w : L!NetAmount(v, w) = NetAmount(v, w)
    BY <1>1 DEF L!NetAmount, NetAmount, L!GrossAmount, GrossAmount, L!ReceivingFee, ReceivingFee
  <1>5. \A v, c, f : L!AmountInUsd(v, c, f) = AmountInUsd(v, c, f)
    BY <1>1, SameArithmetic DEF L!AmountInUsd, AmountInUsd
  <1> QED
    BY <1>2, <1>3, <1>4, <1>5

(* The commit of a transfer posts it.                                       *)
LEMMA CommitPosts ==
  ASSUME IInv, NEW r \in Requests, Commit(r), UNCHANGED fx
  PROVE  L!Next
  <1> DEFINE s == req[r].src
             d == req[r].dst
             a == req[r].amount
             k == req[r].key
             c == req[r].caller
  <1>1. /\ s \in Numbers /\ d \in Numbers /\ k \in Keys /\ c \in Callers /\ a \in Amounts
    BY CommitFacts DEF TransferBody
  <1>2. transfers[r] = NoRow
    BY DEF IInv, RequestOK, RowsOK, Commit
  <1>3. \A t \in Requests : transfers[t] # NoRow => transfers[t].key # k
    BY DEF IInv, RequestOK, LocksOK, Commit, RecordOf, Posted
  <1> DEFINE credit == L!Converted(a, L!GetRate(accounts[s].currency, accounts[d].currency))
  <1>4. /\ DestinationAmount(r) = credit
        /\ DebitedBalance(r) = L!Stored(accounts[s].balance - a)
        /\ CreditedBalance(r) = L!Stored(accounts[d].balance + credit)
        /\ L!HasRate(accounts[s].currency, accounts[d].currency)
    BY SameArithmetic, CommitFacts
  <1>5. accounts' = [accounts EXCEPT
           ![s].balance = L!Stored(accounts[s].balance - a),
           ![d].balance = L!Stored(accounts[d].balance + credit)]
    BY <1>4 DEF Commit
  <1>6. transfers' = [transfers EXCEPT ![r] =
           [key |-> k, caller |-> c, src |-> s, dst |-> d,
            srcAmount |-> L!Stored(a), dstAmount |-> credit,
            currency |-> accounts[d].currency, status |-> "completed",
            type |-> "none", fee |-> 0, usd |-> 0, snapshot |-> 0]]
    <2>1. seen[r][d] = accounts[d]
      BY CommitFacts
    <2> QED
      BY <1>4, <2>1, SameArithmetic DEF Commit, NewTransfer
  <1>7. audit' = audit \cup {L!Entry("transfer_completed", r, {s, d}, L!Stored(a))}
    BY SameArithmetic DEF Commit, Audit, L!Entry
  <1>8. s # d /\ L!IsActive(s) /\ L!IsActive(d)
    BY CommitFacts DEF L!IsActive, IsActive
  <1>9. /\ 0 < a /\ a <= accounts[s].balance
        /\ a <= MaxTransfer[accounts[s].currency]
    BY CommitFacts
  <1>10. snapshots' = snapshots /\ notifications' = notifications
    BY FxKept
  <1> HIDE DEF credit
  <1>11. L!Post(r, k, c, s, d, a)
    BY <1>2, <1>3, <1>4, <1>5, <1>6, <1>7, <1>8, <1>9, <1>10 DEF L!Post, credit
  <1>12. transfers'[r] # transfers[r]
    BY <1>2, CommitFacts, NoTransferAssumption DEF IInv, TypeOK, Commit
  <1>13. L!PostSome(r)
    BY <1>1, <1>11, <1>12 DEF L!PostSome
  <1> QED
    BY <1>13 DEF L!Next

(* The commit of an account opens it.                                       *)
LEMMA CommitOpens ==
  ASSUME IInv, NEW r \in Requests, CommitAccount(r), UNCHANGED fx
  PROVE  L!Next
  <1> DEFINE n == picked[r]
             row == [status |-> "active", balance |-> req[r].opening,
                     currency |-> req[r].currency, owner |-> req[r].owner]
  <1>1. /\ n \in Numbers /\ accounts[n] = NoRow
        /\ req[r] \in CreateBody /\ req[r].currency \in Currencies
    BY DEF IInv, RequestOK, BodyOK, LocksOK, CommitAccount
  <1>2. /\ req[r].opening \in OpeningBalances /\ req[r].owner \in Callers
        /\ req[r].opening \in Nat /\ req[r].opening % Quantum = 0
    BY <1>1, OpeningAssumption DEF CreateBody
  <1>3. Stored(req[r].opening) = req[r].opening
    BY <1>2, StoredExact
  <1>4. L!Open(r, n, row)
    BY <1>1, <1>3, FxKept DEF L!Open, L!Entry, CommitAccount, Audit, NewAccount
  <1> QED
    BY <1>1, <1>2, <1>4 DEF L!Next

(* The commit of a closing closes the account.                              *)
LEMMA CommitCloses ==
  ASSUME IInv, NEW r \in Requests, CommitClose(r), UNCHANGED fx
  PROVE  L!Next
  <1>1. req[r].number \in Numbers /\ accounts[req[r].number] # NoRow
    BY CloseFacts
  <1>2. L!Close(r, req[r].number)
    BY <1>1, FxKept DEF L!Close, L!Entry, CommitClose, Audit
  <1> QED
    BY <1>1, <1>2 DEF L!Next

(* The commit of a cross-currency transfer posts it, with its audit entries *)
(* and its notifications.                                                   *)
LEMMA CrossCommitPosts ==
  ASSUME IInv, NEW r \in Requests, CrossCommit(r)
  PROVE  L!Next
  <1> DEFINE s == req[r].src
             d == req[r].dst
             a == req[r].amount
             k == req[r].key
             c == req[r].caller
             from == req[r].from
             to == req[r].to
             q == quote[r]
             rates == snapshots[q].rates
             net == L!NetAmount(a, rates[<<from, to>>])
             usd == L!AmountInUsd(a, from, rates)
             left == L!Stored(accounts[s].balance - L!TotalSenderCost(a))
             note(n, way) == [transfer |-> r, recipient |-> n, direction |-> way, amount |-> net]
             told == IF s = d THEN {} ELSE {note(s, "sent"), note(d, "received")}
             delivered == {L!Entry("notification_delivered", r, {n.recipient}, n.amount) : n \in told}
  <1>1. /\ s \in Numbers /\ d \in Numbers /\ k \in Keys /\ c \in Callers /\ a \in Amounts
        /\ from \in Currencies /\ to \in Currencies /\ q \in DOMAIN snapshots
    BY CrossCommitFacts DEF CrossBody
  <1>2. /\ transfers[r] = NoRow /\ pc[r] = "completed"
        /\ \A t \in Requests : transfers[t] # NoRow => transfers[t].key # k
    BY DEF IInv, RequestOK, RowsOK, LocksOK, CrossCommit, RecordOf, Posted
  <1>3. /\ rates = CurrentRates(r) /\ net = NetAmount(a, CurrentRate(r))
        /\ usd = AmountUsd(r) /\ Pair(r) = <<from, to>>
        /\ left = Stored(accounts[s].balance - TotalSenderCost(a))
    BY SameArithmetic, SameFees DEF CurrentRates, CurrentRate, Pair, AmountUsd
  <1>4. /\ L!IsActive(s) /\ L!IsActive(d)
        /\ accounts[s].owner = c /\ accounts[s].currency = from
        /\ <<from, to>> \in ActivePairs \cap DOMAIN rates
        /\ 0 < a /\ L!TotalSenderCost(a) <= accounts[s].balance
        /\ usd <= LimitPerTxUsd
    <2>1. /\ IsActive(accounts[s]) /\ IsActive(accounts[d]) /\ Cleared(r)
          /\ seen[r][s] = accounts[s] /\ seen[r][d] = accounts[d]
          /\ Pair(r) \in ActivePairs /\ TotalSenderCost(a) <= accounts[s].balance /\ 0 < a
      BY CrossCommitFacts
    <2>2. L!TotalSenderCost(a) = TotalSenderCost(a)
      BY SameFees
    <2>3. L!IsActive(s) /\ L!IsActive(d)
      BY <2>1 DEF L!IsActive, IsActive
    <2>4. /\ accounts[s].owner = c /\ accounts[s].currency = from
          /\ <<from, to>> \in DOMAIN rates /\ usd <= LimitPerTxUsd
      BY <1>3, <2>1 DEF Cleared
    <2> QED
      BY <1>3, <2>1, <2>2, <2>3, <2>4
  <1>5. accounts' = [accounts EXCEPT
           ![s].balance = left,
           ![d].balance = L!Stored((IF d = s THEN left ELSE accounts[d].balance) + net)]
    BY <1>3, CrossCommitFacts, SameArithmetic, SMTT(30)
  <1>6. transfers' = [transfers EXCEPT ![r] =
           [key |-> k, caller |-> c, src |-> s, dst |-> d,
            srcAmount |-> L!Stored(a), dstAmount |-> net, currency |-> to,
            status |-> "completed", type |-> "cross_currency",
            fee |-> L!SendingFee(a), usd |-> usd, snapshot |-> q]]
    BY <1>2, <1>3, SameArithmetic, SameFees DEF CrossCommit, CrossTransfer
  <1> HIDE DEF net, usd, left
  <1>7. NewNotifications(r) = told
    BY <1>3 DEF NewNotifications
  <1> HIDE DEF told
  <1>8. /\ \A op, on, v : Audit(op, r, on, v) = L!Entry(op, r, on, v)
        /\ DeliveryAudit(r) = delivered
    BY <1>7 DEF Audit, L!Entry, DeliveryAudit
  <1> HIDE DEF delivered
  <1>9. audit' = audit
           \cup {L!Entry("cross_currency_transfer_initiated", r, {s, d}, L!Stored(a)),
                 L!Entry("cross_currency_transfer_completed", r, {s, d}, L!Stored(a))}
           \cup delivered
           \cup (IF usd < AmlThresholdUsd THEN {}
                 ELSE {L!Entry("aml_kyc_screening_triggered", r, {s, d}, usd)})
    <2>1. Stored(a) = L!Stored(a)
      BY SameArithmetic
    <2>2. audit' = audit \cup CrossAudit(r)
      BY DEF CrossCommit
    <2>3. CrossAudit(r) =
             {L!Entry("cross_currency_transfer_initiated", r, {s, d}, L!Stored(a)),
              L!Entry("cross_currency_transfer_completed", r, {s, d}, L!Stored(a))}
             \cup delivered
             \cup (IF usd < AmlThresholdUsd THEN {}
                   ELSE {L!Entry("aml_kyc_screening_triggered", r, {s, d}, usd)})
      BY <1>3, <1>8, <2>1 DEF CrossAudit
    <2> QED
      BY <2>2, <2>3
  <1>10. snapshots' = snapshots /\ notifications' = notifications \cup told
    BY <1>7 DEF CrossCommit
  <1>11. L!PostCross(r, k, c, s, d, a, from, to, q)
    BY <1>2, <1>4, <1>5, <1>6, <1>9, <1>10 DEF L!PostCross, net, usd, left, told, delivered
  <1>12. transfers'[r] # transfers[r]
    <2>1. CrossTransfer(r) \in TransferRow
      BY CrossCommitFacts
    <2>2. transfers'[r] = CrossTransfer(r)
      BY DEF IInv, TypeOK, CrossCommit
    <2> QED
      BY <1>2, <2>1, <2>2, NoTransferAssumption
  <1>13. L!PostSome(r)
    BY <1>1, <1>11, <1>12 DEF L!PostSome
  <1> QED
    BY <1>13 DEF L!Next

(* A handler's step that commits nothing leaves the ledger alone.           *)
LEMMA StepsOutsideCommits ==
  ASSUME IInv, NEW r \in Requests, Arrive(r) \/ Step(r) \/ Lose(r),
         ~ Commit(r), ~ CommitAccount(r), ~ CommitClose(r), ~ CrossCommit(r)
  PROVE  UNCHANGED L!ledger
  <1> SUFFICES UNCHANGED <<tables, snapshots, notifications>>
    BY DEF L!ledger, tables
  <1>1. CASE Arrive(r)
    BY <1>1 DEF Arrive, CreateTransfer, CreateAccount, DeleteAccount,
                CreateCrossCurrencyTransfer, Receive, fx
  <1>2. CASE TransferStep(r) /\ UNCHANGED fx
    BY <1>2 DEF TransferStep, Lookup, ReplayOr, LockSource, LockDestination, LockActive, Check,
                Insert, InsertUnique, Reply, DeadlockAbort, Raise, Rollback, fx
  <1>3. CASE AccountStep(r) /\ UNCHANGED fx
    BY <1>3 DEF AccountStep, RefuseCurrency, PickNumber, InsertAccount, LoadAccount,
                LockAccount, ReplyAccount, Raise, Rollback, fx
  <1>4. CASE CrossStep(r)
    BY <1>4 DEF CrossStep, CheckCapacity, CrossLookup, ReplayOr, ReadLatest, ReadPreview,
                CrossLockSource, CrossLockDestination, LockActive, CrossCheck, CrossInsert,
                InsertUnique, Process, Complete, UpdateTransferStatus, CrossReply,
                CrossDeadlockAbort, Raise, Rollback, fx
  <1>5. CASE Lose(r)
    BY <1>5 DEF Lose, Crash, Raise, Rollback, fx
  <1> QED
    BY <1>1, <1>2, <1>3, <1>4, <1>5 DEF Step

(* Every step of the service is a step of the ledger or leaves it alone.    *)
LEMMA StepSimulation == IInv /\ [Next]_vars => [L!Next]_(L!ledger)
  <1> SUFFICES ASSUME IInv, [Next]_vars PROVE L!Next \/ UNCHANGED L!ledger
    OBVIOUS
  <1>1. CASE UNCHANGED vars
    BY <1>1 DEF vars, storeVars, fx, L!ledger
  <1>2. ASSUME NEW r \in Requests, Arrive(r) \/ Step(r) \/ Lose(r)
        PROVE  L!Next \/ UNCHANGED L!ledger
    <2>1. CASE CrossCommit(r)
      BY <2>1, CrossCommitPosts
    <2>2. CASE Commit(r) \/ CommitAccount(r) \/ CommitClose(r)
      <3>1. UNCHANGED fx
        <4>1. pc[r] \in {"commit", "commit_account", "commit_close"}
          BY <2>2 DEF Commit, CommitAccount, CommitClose
        <4>2. ~ CrossStep(r)
          BY <4>1 DEF CrossStep, CheckCapacity, CrossLookup, ReadLatest, ReadPreview,
                      CrossLockSource, CrossLockDestination, CrossCheck, CrossInsert, Process,
                      Complete, UpdateTransferStatus, CrossCommit, CrossReply, CrossDeadlockAbort
        <4> QED
          BY <1>2, <4>2 DEF Arrive, CreateCrossCurrencyTransfer, Step, Lose
      <3> QED
        BY <2>2, <3>1, CommitPosts, CommitOpens, CommitCloses
    <2>3. CASE ~ Commit(r) /\ ~ CommitAccount(r) /\ ~ CommitClose(r) /\ ~ CrossCommit(r)
      BY <1>2, <2>3, StepsOutsideCommits
    <2> QED
      BY <2>1, <2>2, <2>3
  <1>3. CASE InsertSnapshot
    BY <1>3 DEF InsertSnapshot, storeVars, L!Next, L!Publish
  <1>4. CASE MarkStale
    BY <1>4 DEF MarkStale, storeVars, L!Next, L!Withdraw
  <1>5. CASE Elapse
    BY <1>5 DEF Elapse, storeVars, L!ledger
  <1> QED
    BY <1>1, <1>2, <1>3, <1>4, <1>5 DEF Next, Quiescent

(* The service implements the abstract ledger.                              *)
THEOREM Refinement == Spec => ImplementsLedger
  <1>1. Init => L!Init
    BY DEF Init, StoreInit, CrossInit, L!Init, Audit, L!Entry
  <1> QED
    BY <1>1, StepSimulation, Invariance, PTL DEF Spec, ImplementsLedger, L!Spec
===============================================================================
