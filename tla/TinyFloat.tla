----------------------------- MODULE TinyFloat -----------------------------
(***************************************************************************)
(* A binary floating-point format small enough to enumerate, in place of   *)
(* f64: Precision significant bits, round to nearest and ties to even, an  *)
(* infinity past the largest finite value.  A number is an integer count   *)
(* of the format's least spacing, so every operation is exact integer      *)
(* arithmetic followed by one rounding.  The code reads no NaN here.       *)
(***************************************************************************)
EXTENDS Integers

CONSTANTS Precision,      \* bits of a significand: 53 in f64
          FractionBits,   \* 1.0 is 2^FractionBits spacings
          MaxExponent     \* the widest spacing of a finite value is 2^MaxExponent

ASSUME FormatAssumption ==
  /\ Precision \in Nat \ {0} /\ FractionBits \in Nat /\ MaxExponent \in Nat
  /\ FractionBits \in Precision - 1 .. Precision + MaxExponent

One == 2 ^ FractionBits
Infinity == 2 ^ (Precision + MaxExponent)

\* f64::EPSILON is One \div EpsilonInverse: the spacing of the format at 1.
EpsilonInverse == 2 ^ (Precision - 1)

\* The non-negative finite values, and those among them that are whole numbers.
Floats == {s * 2 ^ e : s \in 0 .. 2 ^ Precision - 1, e \in 0 .. MaxExponent}
WholeFloats == {x \in Floats : x % One = 0}
MaxFloat == CHOOSE x \in Floats : \A y \in Floats : y <= x

\* The spacing of the format around num / den.
Spacing(num, den) ==
  LET Fits(e) == num < den * 2 ^ (Precision + e)
  IN  2 ^ (CHOOSE e \in 0 .. MaxExponent + 1 :
             /\ Fits(e) \/ e = MaxExponent + 1
             /\ e = 0 \/ ~ Fits(e - 1))

\* num / den in whole spacings, the nearer of the two around it and the even one of a tie.
NearestCount[r \in Nat \X (Nat \ {0})] ==
  LET below == r[1] \div r[2]
      over  == 2 * (r[1] % r[2]) - r[2]
  IN  IF over > 0 \/ (over = 0 /\ below % 2 = 1) THEN below + 1 ELSE below

Saturated[x \in Nat] == IF x < Infinity THEN x ELSE Infinity

\* The float nearest num / den.
Nearest(num, den) ==
  LET unit == Spacing(num, den) IN Saturated[NearestCount[<<num, den * unit>>] * unit]

\* Rounding of a ratio, a numerator and a denominator above 0.
Rounded[r \in Int \X (Nat \ {0})] ==
  IF r[1] < 0 THEN - Nearest(- r[1], r[2]) ELSE Nearest(r[1], r[2])

Round(num, den) == Rounded[<<num, den>>]

Plus(x, y) == IF Infinity \in {x, y} THEN Infinity ELSE Round(x + y, 1)
Minus(x, y) == IF x = Infinity THEN Infinity ELSE Round(x - y, 1)
Times(x, y) == IF Infinity \in {x, y} THEN Infinity ELSE Round(x * y, One)
Over(x, y) == Round(x * One, y)                      \* finite x, y > 0
Half(x) == IF x = Infinity THEN Infinity ELSE Round(x, 2)
Double(x) == Plus(x, x)

\* f64::floor and f64::ceil, exact on every finite value.
Floor(x) == (x \div One) * One
Ceil(x) == - Floor(- x)
=============================================================================
