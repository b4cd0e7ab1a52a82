-------------------------------- MODULE Money --------------------------------
(***************************************************************************)
(* Decimal arithmetic of the service on integers.                           *)
(*                                                                          *)
(* A monetary value is a number of TICKS; Quantum ticks are one unit of the *)
(* last stored decimal place (Decimal("0.0001"), NUMERIC(19, 4)).  Values   *)
(* the code has quantized are multiples of Quantum; a request may carry     *)
(* finer ones, because its schema does not limit the decimal places.        *)
(* A rate is a number of units of 1/RateScale.  Every value is >= 0, so     *)
(* "half up" and "half away from zero" are the same rounding.               *)
(***************************************************************************)
EXTENDS Integers

CONSTANTS Quantum,     \* ticks in one stored unit, 0.0001
          RateScale    \* units in the exchange rate 1

ASSUME QuantumAssumption == Quantum \in Nat \ {0}
ASSUME RateScaleAssumption == RateScale \in Nat \ {0}

(* n / d rounded to the nearest integer, a tie going up.                    *)
HalfUp(n, d) == (2 * n + d) \div (2 * d)

(* n / d rounded to the nearest integer, a tie going to the even neighbour. *)
HalfEven(n, d) ==
    LET q == n \div d
        r == n % d
    IN  IF 2 * r > d \/ (2 * r = d /\ q % 2 = 1) THEN q + 1 ELSE q

(* What the database keeps of a value written to a NUMERIC(19, 4) column;   *)
(* also quantize(Decimal("0.0001"), rounding=ROUND_HALF_UP).                *)
Stored(v) == Quantum * HalfUp(v, Quantum)

(* (amount * exchange_rate).quantize(Decimal("0.0001")) of execute_transfer:*)
(* Decimal's default context rounds half to even.                           *)
Converted(amount, rate) == Quantum * HalfEven(amount * rate, Quantum * RateScale)

(* (value * factor).quantize(Decimal("0.0001"), rounding=ROUND_HALF_UP).    *)
Scaled(value, factor) == Quantum * HalfUp(value * factor, Quantum * RateScale)
===============================================================================
