------------------------------ MODULE BitFloat ------------------------------
(***************************************************************************)
(* Floats as f64 has them, with few bits: a value is the integer its bit   *)
(* pattern spells, negated for a negative one.  Neighbouring floats are    *)
(* neighbouring integers and compare as integers; subnormals, overflow to  *)
(* Infinity and NaN are where f64 has them.  Zero has one sign.            *)
(*                                                                         *)
(* exp, ln, ln_1p and sinh are libm's: functions on the bit patterns, of   *)
(* which the proofs take what the assumptions below say and nothing more.  *)
(***************************************************************************)
EXTENDS Integers

CONSTANTS Precision,  \* bits of a significand: 53 in f64
          Depth,      \* the least subnormal is 2^-Depth: 1074 in f64
          Binades,    \* Infinity is 2^(Precision + Binades - Depth)
          ExpAt, LnAt, Ln1pAt, SinhAt,  \* libm's functions
          NaN

ASSUME FormatAssumption ==
  /\ Precision \in Nat /\ Precision >= 3 /\ Binades \in Nat
  /\ Depth \in Nat /\ Depth >= Precision
  /\ NaN \notin Int

MinUnit == - Depth
Leading == 2 ^ (Precision - 1)

\* The bit pattern of m units of 2^s; a carry to m = 2^Precision spells the next binade by itself.
Pattern(m, s) == (s - MinUnit) * Leading + m

Infinity == (Binades + 2) * Leading
One == Pattern(Leading, 1 - Precision)
Two == Pattern(Leading, 2 - Precision)
MinNormal == Leading

Abs(x) == IF x < 0 THEN - x ELSE x
Finite(x) == x # NaN /\ - Infinity < x /\ x < Infinity
IsNormal(x) == Finite(x) /\ Abs(x) >= MinNormal
LessThan(x, y) == x # NaN /\ y # NaN /\ x < y

\* A finite x is Count(x) units of 2^Unit(x).
UnitOf(size) == IF size < 2 * Leading THEN MinUnit ELSE MinUnit + size \div Leading - 1
MagnitudeOf(size) == size - (UnitOf(size) - MinUnit) * Leading
Unit(x) == UnitOf(Abs(x))
Magnitude(x) == MagnitudeOf(Abs(x))
Count(x) == IF x < 0 THEN - Magnitude(x) ELSE Magnitude(x)

NotBelowZero(k) == IF k > 0 THEN k ELSE 0
Up(k) == 2 ^ NotBelowZero(k)
Down(k) == 2 ^ NotBelowZero(- k)

BitLength(n) == CHOOSE b \in 0 .. n : n \div 2 ^ b = 1

\* The k with 2^k <= num / den < 2^(k + 1), which is guess or guess - 1.
LogFrom(num, den, guess) == IF num * Down(guess) >= den * Up(guess) THEN guess ELSE guess - 1
Log2(num, den) == LogFrom(num, den, BitLength(num) - BitLength(den))

\* num / den to the nearest whole number, a tie to the even one.
EvenUp(below, over) == IF over > 0 \/ (over = 0 /\ below % 2 = 1) THEN below + 1 ELSE below
NearestCount(num, den) == EvenUp(num \div den, 2 * (num % den) - den)

\* The unit of a value of magnitude 2^top.
UnitAt(top) == MinUnit + NotBelowZero(top - Precision + 1 - MinUnit)

InUnits(num, den, e, unit) == Pattern(NearestCount(num * Up(e - unit), den * Down(e - unit)), unit)
UpToInfinity(code) == IF code < Infinity THEN code ELSE Infinity

\* The float nearest (num / den) * 2^e, of magnitude 2^top; 0 below half the least one.
NearestAt(num, den, e, top) ==
  IF top < MinUnit - 1 THEN 0 ELSE UpToInfinity(InUnits(num, den, e, UnitAt(top)))

\* The float nearest (num / den) * 2^e, for num >= 0.
NearestTo(num, den, e) == IF num = 0 THEN 0 ELSE NearestAt(num, den, e, Log2(num, den) + e)

Sign(num) == IF num < 0 THEN -1 ELSE 1
Round(num, den, e) == Sign(num) * NearestTo(Abs(num), den, e)

Signed(x, y, size) == IF (x < 0) # (y < 0) THEN - size ELSE size

Neg(x) == IF x = NaN THEN NaN ELSE - x

Side(x) == IF x = 0 THEN 0 ELSE Sign(x)

\* Two summands further apart than the significand: the smaller one only breaks ties.
SumAt(x, y, apart, shift) ==
  Round(Count(x) * 2 ^ shift + (IF apart = shift THEN Count(y) ELSE Side(y)), 1, Unit(x) - shift)

SumOf(x, y, apart) == SumAt(x, y, apart, IF apart < 2 * Precision THEN apart ELSE 2 * Precision)
Sum(x, y) == SumOf(x, y, Unit(x) - Unit(y))

Add(x, y) ==
  IF NaN \in {x, y} \/ (Abs(x) = Infinity /\ y = - x) THEN NaN
  ELSE IF Infinity \in {x, y} THEN Infinity
  ELSE IF - Infinity \in {x, y} THEN - Infinity
  ELSE Sum(IF Abs(x) >= Abs(y) THEN x ELSE y, IF Abs(x) >= Abs(y) THEN y ELSE x)

Sub(x, y) == Add(x, Neg(y))

Mul(x, y) ==
  IF NaN \in {x, y} \/ (0 \in {x, y} /\ ~ (Finite(x) /\ Finite(y))) THEN NaN
  ELSE IF ~ (Finite(x) /\ Finite(y)) THEN Signed(x, y, Infinity)
  ELSE Round(Count(x) * Count(y), 1, Unit(x) + Unit(y))

Div(x, y) ==
  IF NaN \in {x, y} \/ (~ Finite(x) /\ ~ Finite(y)) \/ (x = 0 /\ y = 0) THEN NaN
  ELSE IF ~ Finite(x) \/ y = 0 THEN Signed(x, y, Infinity)
  ELSE IF ~ Finite(y) THEN 0
  ELSE Signed(x, y, NearestTo(Magnitude(x), Magnitude(y), Unit(x) - Unit(y)))

FromNat(i) == NearestTo(i, 1, 0)
Half(x) == Div(x, Two)

\* f64::floor and f64::ceil.
Floor(x) ==
  IF ~ Finite(x) \/ Unit(x) >= 0 THEN x ELSE Round(Count(x) \div 2 ^ (- Unit(x)), 1, 0)
Ceil(x) == Neg(Floor(Neg(x)))

-----------------------------------------------------------------------------
Codes == - Infinity .. Infinity

\* Infinity is 2^TopExponent, and a quarter of it is past the log of every float.
TopExponent == Precision + Binades - Depth
Far == Pattern(Leading, TopExponent - 1 - Precision)

ASSUME RangeAssumption == TopExponent \in Nat /\ TopExponent >= 2

ASSUME ExpAssumption ==
  /\ ExpAt \in [Codes -> 0 .. Infinity]
  /\ ExpAt[- Infinity] = 0 /\ ExpAt[0] = One /\ ExpAt[Infinity] = Infinity
  /\ \A v, w \in Codes : v <= w => ExpAt[v] <= ExpAt[w]

ASSUME LnAssumption ==
  /\ LnAt \in [0 .. Infinity -> Codes]
  /\ LnAt[0] = - Infinity /\ LnAt[One] = 0 /\ LnAt[Infinity] = Infinity
  /\ \A x \in 1 .. Infinity - 1 : - Far <= LnAt[x] /\ LnAt[x] <= Far
  /\ \A x, y \in 0 .. Infinity : x <= y => LnAt[x] <= LnAt[y]

ASSUME Ln1pAssumption ==
  /\ Ln1pAt \in [- One .. Infinity -> Codes]
  /\ Ln1pAt[- One] = - Infinity /\ Ln1pAt[0] = 0
  /\ \A x \in - One + 1 .. Infinity - 1 : Finite(Ln1pAt[x])
  /\ \A x \in - One .. Infinity : IF x < 0 THEN Ln1pAt[x] < 0 ELSE Ln1pAt[x] >= 0

ASSUME SinhAssumption ==
  /\ SinhAt \in [Codes -> Codes]
  /\ \A v \in Codes : v <= 0 => SinhAt[v] <= 0

Exp(v) == IF v = NaN THEN NaN ELSE ExpAt[v]
Ln(x) == IF x = NaN \/ LessThan(x, 0) THEN NaN ELSE LnAt[x]
Ln1p(x) == IF x = NaN \/ LessThan(x, - One) THEN NaN ELSE Ln1pAt[x]
Sinh(v) == IF v = NaN THEN NaN ELSE SinhAt[v]
=============================================================================
