-------------------------------- MODULE Float --------------------------------
(***************************************************************************)
(* Non-negative floats of a mantissa of Precision bits, as multiples of a  *)
(* unit that is small enough for every float that occurs: a float is an    *)
(* integer with at most Precision significant bits.  Rounding is to the    *)
(* nearest, and to even between two.                                       *)
(***************************************************************************)
EXTENDS Integers

CONSTANT Precision   \* 24 for a float

ASSUME FloatAssumption == Precision \in Nat \ {0}

\* Exponents of an integer that TLC can hold.
Exponents == 0 .. 30 - Precision

\* The distance between floats of the size of a/n.
Ulp(a, n) ==
  LET fits == {e \in Exponents : a \div n < 2 ^ (Precision + e)}
  IN  2 ^ (CHOOSE e \in fits : \A f \in fits : e <= f)

\* The quotient of a and n, rounded.
FloatDiv(a, n) ==
  LET ulp == Ulp(a, n)
      whole == a \div (n * ulp)
      rest == a % (n * ulp)
      up == 2 * rest > n * ulp \/ (2 * rest = n * ulp /\ whole % 2 = 1)
  IN  (IF up THEN whole + 1 ELSE whole) * ulp

FloatAdd(a, b) == FloatDiv(a + b, 1)

IsFloat(a) == FloatDiv(a, 1) = a
=============================================================================
