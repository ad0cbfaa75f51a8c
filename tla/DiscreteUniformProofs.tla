----------------------- MODULE DiscreteUniformProofs -----------------------
(***************************************************************************)
(* What holds of DiscreteUniform for every float format and every integer  *)
(* width its assumption allows, and for any bounds, points and quantiles.  *)
(*                                                                         *)
(* The argument goes from the format up.  Rounding is monotone, lands on   *)
(* the grid of the format and leaves the grid alone, so a rounded result   *)
(* never crosses a value of the grid; it errs by half a spacing at most.   *)
(* The rounded reciprocal of a count times the count rounds to 1 or below: *)
(* the product is at most half a spacing above 1, and the tie goes to 1,   *)
(* whose significand is even.  That bounds both tails, and monotone steps  *)
(* order them.  The inverses compare whole candidates by two quotients     *)
(* that only move one way, which is why a correction step never overshoots *)
(* the correction of a higher quantile.  On a support narrower than the    *)
(* significands every whole number they form is exact, and the product,    *)
(* the quotient and a probability are each too close to their values to be *)
(* taken for those of a step two away.                                     *)
(***************************************************************************)
EXTENDS DiscreteUniform, RoundingProofs

\* The widths of the integers and of the floats, and what the assumption says of them.
LEMMA WidthFacts ==
  /\ Precision \in Nat /\ 2 <= Precision /\ Precision - 1 \in Nat /\ Precision - 2 \in Nat
  /\ FractionBits \in Nat /\ MaxExponent \in Nat
  /\ IntBits \in Nat /\ 2 <= IntBits /\ IntBits - 1 \in Nat /\ Precision < IntBits
  /\ IntBits + FractionBits + 1 < Precision + MaxExponent
  /\ IntBits + Precision <= FractionBits + 2
  /\ FractionBits < MaxExponent /\ Precision < FractionBits
BY FormatAssumption, DiscreteUniformAssumption

\* Every count of a support, and twice it, is far from overflow.
LEMMA RangeFacts ==
  /\ 2 ^ IntBits \in Nat \ {0} /\ 2 ^ (IntBits - 1) \in Nat \ {0}
  /\ 2 ^ IntBits = 2 * 2 ^ (IntBits - 1)
  /\ 2 ^ IntBits * One \in Grid /\ 2 ^ (IntBits - 1) * One \in Grid /\ One \in Grid
  /\ 2 * (2 ^ IntBits * One) < Infinity /\ 2 * (2 ^ IntBits * One) \in Grid
  /\ One < Infinity /\ 2 ^ Precision <= 2 ^ (IntBits - 1)
<1>1. (IntBits - 1) + 1 = IntBits /\ Precision <= IntBits - 1
  BY WidthFacts
<1>2. 2 ^ IntBits \in Nat \ {0} /\ 2 ^ (IntBits - 1) \in Nat \ {0} /\ 2 ^ IntBits = 2 * 2 ^ (IntBits - 1)
  BY <1>1, WidthFacts, PowerStep, PowerIsPositive
<1>3. 2 ^ IntBits * One = 2 ^ (IntBits + FractionBits) /\ 2 ^ (IntBits - 1) * One = 2 ^ (IntBits - 1 + FractionBits)
  BY WidthFacts, PowerSum DEF One
<1>4. 2 ^ IntBits * One \in Grid /\ 2 ^ (IntBits - 1) * One \in Grid /\ One \in Grid
  <2>1. /\ IntBits + FractionBits \in Nat /\ IntBits + FractionBits <= Precision + MaxExponent
        /\ IntBits - 1 + FractionBits \in Nat /\ IntBits - 1 + FractionBits <= Precision + MaxExponent
        /\ FractionBits <= Precision + MaxExponent
    BY WidthFacts
  <2> QED BY <1>3, <2>1, WidthFacts, PowerInGrid DEF One
<1>5. 2 * (2 ^ IntBits * One) < Infinity /\ 2 * (2 ^ IntBits * One) \in Grid
  <2>1. /\ IntBits + FractionBits \in Nat /\ Precision + MaxExponent \in Nat
        /\ (IntBits + FractionBits) + 1 \in Nat /\ (IntBits + FractionBits) + 1 < Precision + MaxExponent
    BY WidthFacts
  <2>2. 2 ^ ((IntBits + FractionBits) + 1) = 2 * (2 ^ IntBits * One)
    BY <1>3, <2>1, PowerStep
  <2>3. 2 ^ ((IntBits + FractionBits) + 1) \in Nat \ {0}
    BY <2>1, PowerIsPositive
  <2>4. 2 * 2 ^ ((IntBits + FractionBits) + 1) <= Infinity
    BY <2>1, PowerBelow DEF Infinity
  <2>5. 2 ^ ((IntBits + FractionBits) + 1) \in Grid
    BY <2>1, PowerInGrid
  <2> QED BY <2>2, <2>3, <2>4, <2>5, FormatFacts
<1>6. One < Infinity
  <2>1. One <= 2 ^ IntBits * One /\ 2 ^ IntBits * One \in Nat
    BY <1>2, FormatFacts
  <2> QED BY <1>5, <2>1, FormatFacts
<1>7. 2 ^ Precision <= 2 ^ (IntBits - 1)
  BY <1>1, WidthFacts, PowerUpTo
<1> QED BY <1>2, <1>4, <1>5, <1>6, <1>7

\* A cast is a whole number on the grid, of the sign of the integer, and casts keep the order.
LEMMA AsFloatFacts ==
  ASSUME NEW i \in Int
  PROVE  /\ AsFloat(i) \in Int /\ AsFloat(i) \in Signed
         /\ i >= 0 => AsFloat(i) >= 0
         /\ i <= 0 => AsFloat(i) <= 0
         /\ \E j \in Int : AsFloat(i) = j * One
<1>1. i * One \in Int /\ (i >= 0 => i * One >= 0) /\ (i < 0 => i * One < 0)
  BY FormatFacts
<1>2. i = 0 => AsFloat(i) = 0
  <2>1. 0 * One = 0 * 1 /\ 0 \in Signed
    BY FormatFacts, GridZero DEF Signed
  <2> QED BY <2>1, RoundFixes DEF AsFloat
<1>3. /\ AsFloat(i) \in Int /\ AsFloat(i) \in Signed
      /\ i >= 0 => AsFloat(i) >= 0
      /\ i < 0 => AsFloat(i) <= 0
  BY <1>1, RoundIsSigned DEF AsFloat
<1>4. \E j \in Int : AsFloat(i) = j * One
  BY RoundOfWhole DEF AsFloat
<1> QED BY <1>2, <1>3, <1>4

LEMMA AsFloatClimbs ==
  ASSUME NEW i \in Int, NEW j \in Int, i <= j
  PROVE  AsFloat(i) <= AsFloat(j)
<1>1. i * One <= j * One /\ i * One \in Int /\ j * One \in Int
  BY Products, FormatFacts
<1> QED BY <1>1, RoundClimbs DEF AsFloat

\* The whole numbers with floats of their own: the significands, and their doubles.
LEMMA SmallWholes ==
  ASSUME NEW i \in Int, - (2 ^ Precision) <= i, i <= 2 ^ Precision
  PROVE  /\ i * One \in Signed /\ (2 * i) * One \in Signed
         /\ AsFloat(i) = i * One /\ AsFloat(2 * i) = (2 * i) * One
<1>1. FractionBits \in 0 .. MaxExponent /\ FractionBits + 1 \in 0 .. MaxExponent
  BY WidthFacts
<1>2. 2 ^ (FractionBits + 1) = 2 * One
  BY WidthFacts, PowerStep DEF One
<1>3. \A k \in 0 .. 2 ^ Precision : k * One \in Grid /\ (2 * k) * One \in Grid
  <2> TAKE k \in 0 .. 2 ^ Precision
  <2>1. k * One \in Grid
    BY <1>1 DEF Grid, One
  <2>2. k * 2 ^ (FractionBits + 1) \in Grid
    BY <1>1 DEF Grid
  <2>3. k * (2 * One) = (2 * k) * One
    BY FormatFacts
  <2> QED BY <1>2, <2>1, <2>2, <2>3
<1>4. i * One \in Signed /\ (2 * i) * One \in Signed
  <2>1. i * One \in Int /\ (2 * i) * One \in Int
    BY FormatFacts
  <2>2. CASE i >= 0
    <3>1. i \in 0 .. 2 ^ Precision
      BY <2>2, FormatFacts
    <3> QED BY <1>3, <2>1, <3>1 DEF Signed
  <2>3. CASE i < 0
    <3>1. - i \in 0 .. 2 ^ Precision
      BY <2>3, FormatFacts
    <3>2. - (i * One) = (- i) * One /\ - ((2 * i) * One) = (2 * (- i)) * One
      BY FormatFacts
    <3> QED BY <1>3, <2>1, <3>1, <3>2 DEF Signed
  <2> QED BY <2>2, <2>3
<1>5. (i * One) * 1 = i * One /\ ((2 * i) * One) * 1 = (2 * i) * One
  BY FormatFacts
<1> QED BY <1>4, <1>5, RoundFixes DEF AsFloat

\* The cast of a count lies between 1 and the power of two above every count.
LEMMA CountIsFloat ==
  ASSUME NEW w \in Nat, 1 <= w, w <= 2 ^ (IntBits - 1)
  PROVE  /\ AsFloat(w) \in Nat /\ AsFloat(w) \in Signed
         /\ One <= AsFloat(w) /\ AsFloat(w) <= 2 ^ (IntBits - 1) * One
         /\ AsFloat(w) < Infinity
<1>1. w * One \in Int /\ 1 * One <= w * One /\ w * One <= 2 ^ (IntBits - 1) * One
  BY Products, FormatFacts, RangeFacts
<1>2. One \in Signed /\ 2 ^ (IntBits - 1) * One \in Signed
  BY RangeFacts, FormatFacts DEF Signed
<1>3. One <= AsFloat(w) /\ AsFloat(w) <= 2 ^ (IntBits - 1) * One
  <2>1. One * 1 <= w * One /\ w * One <= (2 ^ (IntBits - 1) * One) * 1
    BY <1>1, FormatFacts, RangeFacts
  <2> QED BY <1>1, <1>2, <2>1, RoundKeepsGrid DEF AsFloat
<1>4. 2 ^ (IntBits - 1) * One < Infinity /\ 2 ^ (IntBits - 1) * One \in Nat
  <2>1. 2 ^ IntBits * One = 2 * (2 ^ (IntBits - 1) * One) /\ 2 ^ (IntBits - 1) * One \in Nat \ {0}
    BY RangeFacts, FormatFacts
  <2> QED BY <2>1, RangeFacts, FormatFacts
<1> QED BY <1>3, <1>4, AsFloatFacts, FormatFacts

\* The product with a rounded reciprocal is at most 1 on every count up to its own: the reciprocal is
\* at most half a spacing too large, and the tie that this leaves at 1 goes to 1.
LEMMA Reciprocal ==
  ASSUME NEW m \in Nat, One <= m, m <= 2 ^ (IntBits - 1) * One
  PROVE  /\ Over(One, m) \in Nat /\ Over(One, m) <= One
         /\ Round(m * Over(One, m), One) <= One
<1> DEFINE r == Over(One, m)
           u == Spacing(One * One, m)
           half == 2 ^ (Precision - 1)
<1>1. m \in Nat \ {0} /\ One * One \in Nat /\ One \in Signed
  BY FormatFacts, RangeFacts DEF Signed
<1>2. r = Nearest(One * One, m) /\ r \in Nat
  BY <1>1, RoundCases, NearestIsNat DEF Over
<1>3. r <= One
  <2>1. One * One <= One * m
    BY FormatFacts, Products
  <2> QED BY <1>1, <2>1, RoundKeepsGrid DEF Over
<1>4. u \in Nat \ {0} /\ 2 * r * m - 2 * (One * One) <= m * u
  <2>1. One * One < m * Infinity
    <3>1. One * One <= m * One /\ m * One < m * Infinity
      BY <1>1, FormatFacts, RangeFacts, Products
    <3>2. m * One \in Nat /\ m * Infinity \in Nat
      BY <1>1, FormatFacts
    <3> QED BY <1>1, <3>1, <3>2
  <2>2. u \in Nat \ {0} /\ 2 * r * m - 2 * (One * One) \in - (m * u) .. m * u
    BY <1>1, <1>2, <2>1, NearestError
  <2>3. 2 * r * m \in Int /\ m * u \in Int
    BY <1>1, <1>2, <2>2
  <2> QED BY <1>1, <2>2, <2>3
<1>5. half \in Nat \ {0} /\ half % 2 = 0
  <2>1. half = 2 * 2 ^ (Precision - 2) /\ 2 ^ (Precision - 2) \in Nat
    <3>1. (Precision - 2) + 1 = Precision - 1
      BY WidthFacts
    <3> QED BY <3>1, WidthFacts, PowerStep, PowerIsPositive
  <2> QED BY <2>1, FormatFacts
\* The reciprocal of a count is no subnormal.
<1>6. m * (half * u) <= One * One
  <2>1. PICK e \in 0 .. MaxExponent + 1 : u = 2 ^ e /\ (e = 0 \/ m * (half * 2 ^ e) <= One * One)
    BY <1>1, NearestFacts, Zenon
  <2>2. CASE e = 0
    <3>1. u = 1
      BY <2>1, <2>2
    <3>2. m * half <= (2 ^ (IntBits - 1) * One) * half
      BY <1>5, Products, RangeFacts, FormatFacts
    <3>3. 2 ^ (IntBits - 1) * half <= One
      <4>1. IntBits - 1 + (Precision - 1) \in Nat /\ IntBits - 1 + (Precision - 1) <= FractionBits
        BY WidthFacts
      <4>2. 2 ^ (IntBits - 1 + (Precision - 1)) = 2 ^ (IntBits - 1) * half
        BY WidthFacts, PowerSum
      <4> QED BY <4>1, <4>2, WidthFacts, PowerUpTo DEF One
    <3>4. One * (2 ^ (IntBits - 1) * half) <= One * One
      BY <1>5, <3>3, Products, RangeFacts, FormatFacts
    <3>5. (2 ^ (IntBits - 1) * One) * half = One * (2 ^ (IntBits - 1) * half)
      BY <1>5, RangeFacts, FormatFacts
    <3>6. m * half \in Nat /\ One * (2 ^ (IntBits - 1) * half) \in Nat
      BY <1>1, <1>5, RangeFacts, FormatFacts
    <3>7. m * (half * u) = m * half
      BY <1>1, <1>5, <3>1
    <3> QED BY <1>1, <3>2, <3>4, <3>5, <3>6, <3>7
  <2> QED BY <2>1, <2>2
<1> DEFINE X == m * r
<1>7. X \in Nat
  BY <1>1, <1>2
<1>8. CASE X <= One * One
  <2>1. X \in Int /\ X <= One * One /\ One \in Nat \ {0}
    BY <1>7, <1>8, FormatFacts
  <2>2. Round(X, One) <= One
    <3> HIDE DEF X
    <3> QED BY <1>1, <2>1, RoundKeepsGrid
  <2> QED BY <1>2, <1>3, <2>2
<1>9. CASE One * One < X
  <2>1. PICK e \in 0 .. MaxExponent + 1, c \in Nat :
           /\ Spacing(X, One) = 2 ^ e /\ c = NearestCount[<<X, One * 2 ^ e>>]
           /\ Nearest(X, One) = IF c * 2 ^ e < Infinity THEN c * 2 ^ e ELSE Infinity
           /\ e = MaxExponent + 1 \/ (X < One * (2 ^ Precision * 2 ^ e) /\ c <= 2 ^ Precision)
           /\ e = 0 \/ (One * (half * 2 ^ e) <= X /\ half <= c)
    <3> HIDE DEF X
    <3> QED BY <1>7, FormatFacts, NearestFacts, Zenon
  <2>2. e \in Nat /\ 2 ^ e \in Nat \ {0}
    BY <2>1, WidthFacts, PowerIsPositive
  <2> DEFINE A == One * One
             M == m * u
             unit == One * 2 ^ e
             g == FractionBits - Precision + 1
  <2>3. A \in Nat \ {0} /\ M \in Nat /\ unit \in Nat \ {0}
    BY <1>1, <1>4, <2>2, FormatFacts
  <2>4. half * M <= A /\ 2 * X <= 2 * A + M
    <3>1. half * M = m * (half * u) /\ 2 * r * m = 2 * X
      BY <1>1, <1>2, <1>4, <1>5
    <3> QED BY <1>2, <1>4, <1>6, <1>7, <2>3, <3>1
  <2>5. X < 2 * A
    <3>1. M <= half * M /\ half * M \in Nat
      BY <1>5, <2>3
    <3> HIDE DEF A, M, X
    <3> QED BY <1>7, <2>3, <2>4, <3>1
  <2>6. g \in Nat /\ g < MaxExponent /\ One = half * 2 ^ g /\ 2 ^ g \in Nat \ {0}
    <3>1. g \in Nat /\ g < MaxExponent /\ (Precision - 1) + g = FractionBits
      BY WidthFacts
    <3> HIDE DEF g
    <3>2. 2 ^ ((Precision - 1) + g) = half * 2 ^ g /\ 2 ^ g \in Nat \ {0}
      BY <3>1, WidthFacts, PowerSum, PowerIsPositive
    <3> QED BY <3>1, <3>2 DEF One
  <2>7. ~ e < g
    <3> SUFFICES ASSUME e < g PROVE FALSE
      OBVIOUS
    <3>1. Precision + e \in Nat /\ Precision + e <= FractionBits /\ e # MaxExponent + 1
      BY <2>2, <2>6, WidthFacts
    <3>2. 2 ^ Precision * 2 ^ e <= One /\ 2 ^ Precision * 2 ^ e \in Nat
      <4>1. 2 ^ (Precision + e) = 2 ^ Precision * 2 ^ e /\ 2 ^ (Precision + e) \in Nat
        <5>1. 2 ^ (Precision + e) = 2 ^ Precision * 2 ^ e
          BY <2>2, WidthFacts, PowerSum
        <5> QED BY <3>1, <5>1, PowerIsPositive
      <4>2. 2 ^ (Precision + e) <= 2 ^ FractionBits
        BY <3>1, WidthFacts, PowerUpTo
      <4> QED BY <4>1, <4>2 DEF One
    <3>3. One * (2 ^ Precision * 2 ^ e) <= One * One
      BY <3>2, FormatFacts, Products
    <3>4. One * (2 ^ Precision * 2 ^ e) \in Nat
      BY <3>2, FormatFacts
    <3> HIDE DEF X
    <3> QED BY <1>7, <1>9, <2>1, <2>3, <3>1, <3>3, <3>4
  <2>8. ~ g < e
    <3> SUFFICES ASSUME g < e PROVE FALSE
      OBVIOUS
    <3>1. 2 * 2 ^ g <= 2 ^ e /\ e # 0
      BY <2>2, <2>6, PowerBelow
    <3>2. half * (2 * 2 ^ g) <= half * 2 ^ e /\ half * 2 ^ e \in Nat
      BY <1>5, <2>2, <2>6, <3>1, Products
    <3>3. 2 * One <= half * 2 ^ e
      BY <1>5, <2>6, <3>2
    <3>4. One * (2 * One) <= One * (half * 2 ^ e)
      BY <3>2, <3>3, FormatFacts, Products
    <3>5. One * (2 * One) = 2 * A /\ One * (half * 2 ^ e) \in Nat
      BY <3>2, FormatFacts
    <3> HIDE DEF X, A
    <3> QED BY <1>7, <2>1, <2>3, <2>5, <3>1, <3>4, <3>5
  <2>9. 2 ^ e = 2 ^ g
    <3>1. e = g
      BY <2>2, <2>6, <2>7, <2>8
    <3> QED BY <3>1
  <2>10. half * unit = A /\ half * 2 ^ e = One
    BY <1>5, <2>2, <2>6, <2>9, FormatFacts
  <2>11. M <= unit
    <3> HIDE DEF A, M, unit
    <3> QED BY <1>5, <2>3, <2>4, <2>10, Products
  <2>12. 2 * X <= 2 * half * unit + unit
    <3>1. 2 * half * unit = 2 * (half * unit)
      BY <1>5, <2>3
    <3> HIDE DEF A, M, unit, X
    <3> QED BY <1>7, <2>3, <2>4, <2>10, <2>11, <3>1
  <2>13. c <= half
    <3> HIDE DEF X, unit, half
    <3> QED BY <1>5, <1>7, <2>1, <2>3, <2>12, CountFacts DEF unit
  <2>14. c * 2 ^ e <= One /\ c * 2 ^ e \in Nat
    BY <1>5, <2>1, <2>2, <2>10, <2>13, Products
  <2>15. Round(X, One) = Nearest(X, One)
    <3> HIDE DEF X
    <3> QED BY <1>7, FormatFacts, RoundCases
  <2> QED BY <1>2, <1>3, <2>1, <2>14, <2>15, RangeFacts, FormatFacts
<1> QED BY <1>1, <1>7, <1>8, <1>9, FormatFacts

-----------------------------------------------------------------------------
\* Bounds that validation lets through.
Valid ==
  /\ min \in Int /\ max \in Int /\ min <= max /\ max - min + 1 <= 2 ^ (IntBits - 1)
  /\ - (2 ^ (IntBits - 1)) <= min /\ max < 2 ^ (IntBits - 1)

\* The product both tails are formed by.
Mass(x) == Times(x, Over(One, n))

\* The count of an accepted support, as a float.
LEMMA ValidCount ==
  ASSUME Valid
  PROVE  /\ n \in Nat /\ n \in Signed /\ One <= n /\ n <= 2 ^ (IntBits - 1) * One /\ n < Infinity
         /\ max - min + 1 \in Nat /\ n = AsFloat(max - min + 1)
<1>1. max - min + 1 \in Nat /\ 1 <= max - min + 1 /\ max - min + 1 <= 2 ^ (IntBits - 1)
  BY DEF Valid
<1> QED BY <1>1, CountIsFloat DEF n

\* A mass of a count up to the support's is a probability, and grows with the count.
LEMMA MassFacts ==
  ASSUME Valid, NEW x \in Int, 0 <= x, x <= n
  PROVE  /\ Mass(x) \in Int /\ 0 <= Mass(x) /\ Mass(x) <= One
         /\ \A y \in Int : 0 <= y /\ y <= x => Mass(y) <= Mass(x)
<1> DEFINE r == Over(One, n)
<1>1. n \in Nat /\ One <= n /\ n <= 2 ^ (IntBits - 1) * One /\ n < Infinity
  BY ValidCount
<1>2. r \in Nat /\ r <= One /\ Round(n * r, One) <= One
  BY <1>1, Reciprocal
<1>3. r # Infinity /\ Infinity \in Nat
  BY <1>2, RangeFacts, FormatFacts
<1> HIDE DEF r
<1>4. \A y \in Int : y <= n => Mass(y) = Round(y * r, One)
  BY <1>1, <1>3 DEF Mass, Times, r
<1>5. \A y, z \in Int : y <= z => Round(y * r, One) <= Round(z * r, One)
  <2> TAKE y, z \in Int
  <2> HAVE y <= z
  <2>1. y * r <= z * r /\ y * r \in Int /\ z * r \in Int
    BY <1>2, Products
  <2> QED BY <2>1, RoundClimbs, FormatFacts
<1>6. x * r \in Int /\ x * r >= 0
  BY <1>2
<1>7. Round(x * r, One) \in Int /\ Round(x * r, One) >= 0
  BY <1>6, RoundIsSigned, FormatFacts
<1>8. n * r \in Int /\ Round(n * r, One) \in Int
  BY <1>1, <1>2, RoundIsSigned, FormatFacts
<1>9. Round(x * r, One) <= One
  <2>1. n \in Int /\ x <= n
    BY <1>1
  <2>2. Round(x * r, One) <= Round(n * r, One)
    BY <1>5, <2>1
  <2>3. One \in Int
    BY FormatFacts
  <2> QED BY <1>2, <1>7, <1>8, <2>2, <2>3
<1>10. \A y \in Int : 0 <= y /\ y <= x => Mass(y) <= Mass(x)
  BY <1>1, <1>4, <1>5
<1> QED BY <1>4, <1>7, <1>9, <1>10

\* The casts of bounds within the significands are exact.
LEMMA ExactCasts ==
  ASSUME Valid, ExactBounds
  PROVE  /\ Lo = min * One /\ Hi = max * One /\ Lo \in Int /\ Hi \in Int
         /\ - (2 ^ Precision) < min /\ max < 2 ^ Precision
<1>1. /\ - (2 ^ Precision) < min /\ min < 2 ^ Precision
      /\ - (2 ^ Precision) < max /\ max < 2 ^ Precision /\ min \in Int /\ max \in Int
  BY DEF ExactBounds, Exact, Valid
<1> QED BY <1>1, SmallWholes, FormatFacts DEF Lo, Hi

\* Where a float point lies among exact bounds.
LEMMA FloatPlaces ==
  ASSUME Valid, ExactBounds, NEW v \in Int, Lo <= v, v < Hi
  PROVE  /\ v \div One \in min .. max - 1
         /\ Minus(Floor(v), Lo) = AsFloat(v \div One - min)
         /\ Minus(Hi, Floor(v)) = AsFloat(max - v \div One)
         /\ Plus(Minus(Floor(v), Lo), One) = Round(AsFloat(v \div One - min) + One, 1)
<1> DEFINE k == v \div One
<1>1. k \in Int /\ v % One \in 0 .. One - 1 /\ v = One * k + (v % One) /\ One \in Nat \ {0}
  BY Quotient, FormatFacts
<1>2. Lo = min * One /\ Hi = max * One /\ min \in Int /\ max \in Int /\ max < 2 ^ Precision
  BY ExactCasts DEF Valid
<1>3. k \in min .. max - 1
  <2> HIDE DEF k
  <2>1. One * min = min * One /\ One * max = max * One
    BY <1>1, <1>2
  <2>2. k < min => One * k + One <= One * min
    BY <1>1, <1>2, Products
  <2>3. max <= k => One * max <= One * k
    BY <1>1, <1>2, Products
  <2>4. One * k \in Int /\ One * min \in Int /\ One * max \in Int
    BY <1>1, <1>2
  <2>5. ~ k < min
    BY <1>1, <1>2, <2>1, <2>2, <2>4
  <2>6. ~ max <= k
    BY <1>1, <1>2, <2>1, <2>3, <2>4
  <2> QED BY <1>1, <1>2, <2>5, <2>6
<1>4. \A i \in Int : i <= 2 ^ (IntBits - 1) => i * One # Infinity /\ AsFloat(i) # Infinity
  <2> TAKE i \in Int
  <2> HAVE i <= 2 ^ (IntBits - 1)
  <2>1. 2 ^ (IntBits - 1) \in Nat /\ 1 <= 2 ^ (IntBits - 1)
    BY RangeFacts
  <2>2. /\ AsFloat(2 ^ (IntBits - 1)) < Infinity /\ AsFloat(2 ^ (IntBits - 1)) \in Nat
        /\ AsFloat(i) <= AsFloat(2 ^ (IntBits - 1)) /\ AsFloat(i) \in Int
    BY <2>1, CountIsFloat, AsFloatClimbs, AsFloatFacts
  <2>3. i * One <= 2 ^ (IntBits - 1) * One /\ i * One \in Int /\ 2 ^ (IntBits - 1) * One \in Nat
    BY <2>1, FormatFacts, Products
  <2>4. 2 ^ IntBits * One = 2 * (2 ^ (IntBits - 1) * One) /\ 0 < 2 ^ (IntBits - 1) * One
    BY RangeFacts, FormatFacts
  <2> QED BY <2>2, <2>3, <2>4, RangeFacts, FormatFacts
<1>5. Floor(v) = k * One
  BY DEF Floor
<1> HIDE DEF k
<1>6. k * One # Infinity /\ max * One # Infinity
  <2>1. k <= 2 ^ (IntBits - 1) /\ max <= 2 ^ (IntBits - 1)
    BY <1>1, <1>2, <1>3, RangeFacts, FormatFacts
  <2> QED BY <1>1, <1>2, <1>4, <2>1
<1>7. k * One - min * One = (k - min) * One /\ max * One - k * One = (max - k) * One
  BY <1>1, <1>2
<1>8. Minus(Floor(v), Lo) = AsFloat(k - min) /\ Minus(Hi, Floor(v)) = AsFloat(max - k)
  BY <1>2, <1>5, <1>6, <1>7 DEF Minus, AsFloat
<1>9. AsFloat(k - min) # Infinity /\ One # Infinity
  <2>1. k - min \in Int /\ k - min <= 2 ^ (IntBits - 1)
    BY <1>1, <1>2, <1>3, RangeFacts DEF Valid
  <2> QED BY <1>4, <2>1, RangeFacts, FormatFacts
<1>10. Plus(Minus(Floor(v), Lo), One) = Round(AsFloat(k - min) + One, 1)
  BY <1>8, <1>9 DEF Plus
<1> QED BY <1>3, <1>8, <1>10 DEF k

\* The points of either dtype, anywhere.
AnyPoint == [kind : {"int"}, at : Int] \cup [kind : {"float"}, at : Int]

\* The points whose probabilities are ordered: of an integer column, or between exact bounds.
Ordered(p) == p \in AnyPoint /\ (p.kind = "int" \/ ExactBounds)

\* The last point of the support, as a point of either dtype sees it.
Top(p) == IF p.kind = "int" THEN max ELSE Hi

\* A float count of the points from min up to k never passes the count of the support.
LEMMA FloatCount ==
  ASSUME Valid, ExactBounds, NEW d \in Nat, d + 1 <= max - min
  PROVE  /\ Round(AsFloat(d) + One, 1) \in Int /\ 0 <= Round(AsFloat(d) + One, 1)
         /\ Round(AsFloat(d) + One, 1) <= n
<1>1. AsFloat(d) \in Int /\ AsFloat(d) >= 0 /\ One \in Nat \ {0} /\ AsFloat(d) + One \in Int
  BY AsFloatFacts, FormatFacts
<1>2. Round(AsFloat(d) + One, 1) \in Int /\ 0 <= Round(AsFloat(d) + One, 1)
  <2>1. AsFloat(d) + One >= 0 /\ 1 \in Nat \ {0}
    BY <1>1
  <2> QED BY <1>1, <2>1, RoundIsSigned
<1>3. PICK h \in Nat : 2 * h \in {d, d + 1}
  <2>1. CASE d % 2 = 0
    <3>1. d \div 2 \in Nat /\ 2 * (d \div 2) = d
      BY <2>1
    <3> QED BY <3>1
  <2>2. CASE d % 2 = 1
    <3>1. (d + 1) \div 2 \in Nat /\ 2 * ((d + 1) \div 2) = d + 1
      BY <2>2
    <3> QED BY <3>1
  <2> QED BY <2>1, <2>2
<1>4. h <= 2 ^ Precision
  BY <1>3, ExactCasts, FormatFacts DEF Valid
<1>5. AsFloat(2 * h) = (2 * h) * One
  <2>1. h \in Int /\ - (2 ^ Precision) <= h
    BY FormatFacts
  <2> QED BY <1>4, <2>1, SmallWholes
<1>6. AsFloat(d) <= AsFloat(2 * h)
  BY <1>3, AsFloatClimbs
<1>7. (2 * h) * One <= (d + 1) * One /\ (2 * h) * One \in Int /\ (d + 1) * One \in Int
  BY <1>1, <1>3, Products
<1>8. (d + 1) * One + One = (d + 2) * One /\ (d + 2) * One \in Int
  BY <1>1
<1>9. (d + 2) * One <= (max - min + 1) * One /\ (max - min + 1) * One \in Int
  BY <1>1, Products DEF Valid
<1>10. AsFloat(d) + One <= (max - min + 1) * One
  BY <1>1, <1>5, <1>6, <1>7, <1>8, <1>9
<1>11. Round(AsFloat(d) + One, 1) <= Round((max - min + 1) * One, 1)
  BY <1>1, <1>9, <1>10, RoundClimbs
<1> QED BY <1>2, <1>11 DEF n, AsFloat

\* The fields of a place, of an integer point and of a float one.
LEMMA PlaceOfInt ==
  ASSUME NEW p, p.kind = "int"
  PROVE  /\ Place(p).below <=> p.at < min
         /\ Place(p).atTop <=> p.at >= max
         /\ Place(p).count = AsFloat(p.at - min + 1) /\ Place(p).tail = AsFloat(max - p.at)
BY DEF Place

LEMMA PlaceOfFloat ==
  ASSUME NEW p, p.kind = "float"
  PROVE  /\ Place(p).below <=> p.at < Lo
         /\ Place(p).atTop <=> p.at >= Hi
         /\ Place(p).count = Plus(Minus(Floor(p.at), Lo), One) /\ Place(p).tail = Minus(Hi, Floor(p.at))
BY DEF Place

\* A place inside the support: its counts are counts of the support.
LEMMA PlaceFacts ==
  ASSUME Valid, NEW p, Ordered(p)
  PROVE  /\ Place(p).atTop <=> p.at >= Top(p)
         /\ ~ (Place(p).below /\ Place(p).atTop)
         /\ ~ Place(p).below /\ ~ Place(p).atTop =>
              /\ Place(p).count \in Int /\ 0 <= Place(p).count /\ Place(p).count <= n
              /\ Place(p).tail \in Int /\ 0 <= Place(p).tail /\ Place(p).tail <= n
<1>1. p.at \in Int /\ p.kind \in {"int", "float"}
  BY DEF Ordered, AnyPoint
<1>2. \A i \in Int : 0 <= i /\ i <= max - min + 1 => AsFloat(i) \in Int /\ 0 <= AsFloat(i) /\ AsFloat(i) <= n
  BY AsFloatFacts, AsFloatClimbs, ValidCount
<1>3. CASE p.kind = "int"
  <2>1. /\ Place(p).below <=> p.at < min
        /\ Place(p).atTop <=> p.at >= max
        /\ Place(p).count = AsFloat(p.at - min + 1) /\ Place(p).tail = AsFloat(max - p.at)
    BY <1>3, PlaceOfInt
  <2>2. ~ p.at < min /\ ~ p.at >= max =>
          /\ p.at - min + 1 \in Int /\ 0 <= p.at - min + 1 /\ p.at - min + 1 <= max - min + 1
          /\ max - p.at \in Int /\ 0 <= max - p.at /\ max - p.at <= max - min + 1
    BY <1>1 DEF Valid
  <2>3. ~ (p.at < min /\ p.at >= max)
    BY <1>1 DEF Valid
  <2> QED BY <1>2, <1>3, <2>1, <2>2, <2>3 DEF Top
<1>4. CASE p.kind = "float"
  <2>1. /\ Place(p).below <=> p.at < Lo
        /\ Place(p).atTop <=> p.at >= Hi
        /\ Place(p).count = Plus(Minus(Floor(p.at), Lo), One) /\ Place(p).tail = Minus(Hi, Floor(p.at))
    BY <1>4, PlaceOfFloat
  <2>2. ExactBounds /\ Lo \in Int /\ Hi \in Int
    BY <1>4, AsFloatFacts DEF Ordered, Lo, Hi, Valid
  <2>3. Lo <= Hi
    BY AsFloatClimbs DEF Lo, Hi, Valid
  <2>4. ASSUME ~ p.at < Lo, ~ p.at >= Hi
        PROVE  /\ Place(p).count \in Int /\ 0 <= Place(p).count /\ Place(p).count <= n
               /\ Place(p).tail \in Int /\ 0 <= Place(p).tail /\ Place(p).tail <= n
    <3> DEFINE k == p.at \div One
    <3>1. k \in min .. max - 1 /\ Place(p).count = Round(AsFloat(k - min) + One, 1)
          /\ Place(p).tail = AsFloat(max - k)
      BY <1>1, <2>1, <2>2, <2>4, FloatPlaces
    <3>2. k - min \in Nat /\ (k - min) + 1 <= max - min
          /\ max - k \in Int /\ 0 <= max - k /\ max - k <= max - min + 1
      BY <3>1 DEF Valid
    <3> HIDE DEF k
    <3> QED BY <1>2, <2>2, <3>1, <3>2, FloatCount
  <2>5. ~ (p.at < Lo /\ p.at >= Hi)
    BY <1>1, <2>2, <2>3
  <2> QED BY <1>4, <2>1, <2>4, <2>5 DEF Top
<1> QED BY <1>1, <1>3, <1>4

\* A later point is placed no lower.
LEMMA PlaceClimbs ==
  ASSUME Valid, NEW p, Ordered(p), NEW r, Ordered(r), p.kind = r.kind, p.at <= r.at
  PROVE  /\ Place(r).below => Place(p).below
         /\ Place(p).atTop => Place(r).atTop
         /\ ~ Place(p).below /\ ~ Place(r).atTop =>
              Place(p).count <= Place(r).count /\ Place(r).tail <= Place(p).tail
<1>1. p.at \in Int /\ r.at \in Int /\ p.kind \in {"int", "float"} /\ min \in Int /\ max \in Int
  BY DEF Ordered, AnyPoint, Valid
<1>2. CASE p.kind = "int"
  <2>1. \A s \in {p, r} : /\ Place(s).below <=> s.at < min
                          /\ Place(s).atTop <=> s.at >= max
                          /\ Place(s).count = AsFloat(s.at - min + 1) /\ Place(s).tail = AsFloat(max - s.at)
    BY <1>2, PlaceOfInt
  <2>2. AsFloat(p.at - min + 1) <= AsFloat(r.at - min + 1) /\ AsFloat(max - r.at) <= AsFloat(max - p.at)
    BY <1>1, AsFloatClimbs
  <2>3. (r.at < min => p.at < min) /\ (p.at >= max => r.at >= max)
    BY <1>1
  <2> QED BY <2>1, <2>2, <2>3
<1>3. CASE p.kind = "float"
  <2>1. \A s \in {p, r} : /\ Place(s).below <=> s.at < Lo
                          /\ Place(s).atTop <=> s.at >= Hi
                          /\ Place(s).count = Plus(Minus(Floor(s.at), Lo), One)
                          /\ Place(s).tail = Minus(Hi, Floor(s.at))
    BY <1>3, PlaceOfFloat
  <2>2. ExactBounds /\ Lo \in Int /\ Hi \in Int
    BY <1>3, <1>1, AsFloatFacts DEF Ordered, Lo, Hi
  <2>3. (r.at < Lo => p.at < Lo) /\ (p.at >= Hi => r.at >= Hi)
    BY <1>1, <2>2
  <2>4. ASSUME ~ p.at < Lo, ~ r.at >= Hi
        PROVE  Place(p).count <= Place(r).count /\ Place(r).tail <= Place(p).tail
    <3> DEFINE k(s) == s.at \div One
    <3>1. \A s \in {p, r} : /\ k(s) \in min .. max - 1 /\ Place(s).count = Round(AsFloat(k(s) - min) + One, 1)
                            /\ Place(s).tail = AsFloat(max - k(s))
      BY <1>1, <2>1, <2>2, <2>4, FloatPlaces
    <3>2. k(p) <= k(r)
      <4>1. \A s \in {p, r} : k(s) \in Int /\ s.at % One \in 0 .. One - 1 /\ s.at = One * k(s) + (s.at % One)
        BY <1>1, Quotient, FormatFacts
      <4> HIDE DEF k
      <4>2. k(r) < k(p) => One * k(r) + One <= One * k(p)
        BY <4>1, FormatFacts, Products
      <4>3. One * k(r) \in Int /\ One * k(p) \in Int /\ One \in Int
        BY <4>1, FormatFacts
      <4> QED BY <1>1, <4>1, <4>2, <4>3
    <3> HIDE DEF k
    <3>3. k(p) \in Int /\ k(r) \in Int
      BY <1>1, <3>1
    <3>4. AsFloat(k(p) - min) <= AsFloat(k(r) - min) /\ AsFloat(max - k(r)) <= AsFloat(max - k(p))
      BY <1>1, <3>2, <3>3, AsFloatClimbs
    <3>5. AsFloat(k(p) - min) \in Int /\ AsFloat(k(r) - min) \in Int /\ One \in Int
      BY <1>1, <3>3, AsFloatFacts, FormatFacts
    <3>6. AsFloat(k(p) - min) + One <= AsFloat(k(r) - min) + One
      BY <3>4, <3>5
    <3>7. Round(AsFloat(k(p) - min) + One, 1) <= Round(AsFloat(k(r) - min) + One, 1)
      BY <3>5, <3>6, RoundClimbs
    <3> QED BY <3>1, <3>4, <3>7
  <2> QED BY <2>1, <2>3, <2>4
<1> QED BY <1>1, <1>2, <1>3

\* Probabilities, exact at the ends of the support, that climb or fall from point to point.
LEMMA TailsFollowPlaces ==
  ASSUME Valid, NEW p, Ordered(p)
  PROVE  /\ Cdf(p) \in Int /\ 0 <= Cdf(p) /\ Cdf(p) <= One
         /\ Sf(p) \in Int /\ 0 <= Sf(p) /\ Sf(p) <= One
         /\ p.at >= Top(p) => Cdf(p) = One /\ Sf(p) = 0
<1> DEFINE at == Place(p)
<1>1. /\ at.atTop <=> p.at >= Top(p)
      /\ ~ (at.below /\ at.atTop)
      /\ ~ at.below /\ ~ at.atTop =>
              /\ at.count \in Int /\ 0 <= at.count /\ at.count <= n
              /\ at.tail \in Int /\ 0 <= at.tail /\ at.tail <= n
  BY PlaceFacts
<1>2. /\ Cdf(p) = IF at.below THEN 0 ELSE IF at.atTop THEN One ELSE Mass(at.count)
      /\ Sf(p) = IF at.below THEN One ELSE IF at.atTop THEN 0 ELSE Mass(at.tail)
  BY DEF Cdf, Sf, Mass
<1> HIDE DEF at
<1> QED BY <1>1, <1>2, MassFacts, FormatFacts

\* A later point of the same dtype has no lower cdf and no higher sf.
LEMMA TailsClimbTogether ==
  ASSUME Valid, NEW p, Ordered(p), NEW r, Ordered(r), p.kind = r.kind, p.at <= r.at
  PROVE  Cdf(p) <= Cdf(r) /\ Sf(r) <= Sf(p)
<1> DEFINE at(s) == Place(s)
<1>1. \A s \in {p, r} : Ordered(s)
  OBVIOUS
<1>2. \A s \in {p, r} :
         ~ at(s).below /\ ~ at(s).atTop =>
              /\ at(s).count \in Int /\ 0 <= at(s).count /\ at(s).count <= n
              /\ at(s).tail \in Int /\ 0 <= at(s).tail /\ at(s).tail <= n
  BY <1>1, PlaceFacts
<1>3. \A s \in {p, r} :
        /\ Cdf(s) = IF at(s).below THEN 0 ELSE IF at(s).atTop THEN One ELSE Mass(at(s).count)
        /\ Sf(s) = IF at(s).below THEN One ELSE IF at(s).atTop THEN 0 ELSE Mass(at(s).tail)
        /\ Cdf(s) \in Int /\ 0 <= Cdf(s) /\ Cdf(s) <= One /\ Sf(s) \in Int /\ 0 <= Sf(s) /\ Sf(s) <= One
  BY <1>1, TailsFollowPlaces DEF Cdf, Sf, Mass
<1>4. /\ at(r).below => at(p).below
      /\ at(p).atTop => at(r).atTop
      /\ ~ at(p).below /\ ~ at(r).atTop => at(p).count <= at(r).count /\ at(r).tail <= at(p).tail
  BY PlaceClimbs
<1> HIDE DEF at
<1>5. CASE at(p).below
  BY <1>3, <1>5
<1>6. CASE at(r).atTop /\ ~ at(r).below
  BY <1>3, <1>6
<1>7. CASE ~ at(p).below /\ ~ at(r).atTop
  <2>1. ~ at(p).atTop /\ ~ at(r).below
    BY <1>4, <1>7
  <2>2. Mass(at(p).count) <= Mass(at(r).count) /\ Mass(at(r).tail) <= Mass(at(p).tail)
    BY <1>2, <1>4, <1>7, <2>1, MassFacts
  <2> QED BY <1>3, <1>7, <2>1, <2>2
<1> QED BY <1>4, <1>5, <1>6, <1>7

\* What the constructor accepts, as the proofs use it.
LEMMA AcceptedIsValid ==
  ASSUME min \in Bounds, max \in Bounds, Accepts(min, max)
  PROVE  Valid
<1>1. MinInt = - (2 ^ (IntBits - 1)) /\ MaxInt = 2 ^ (IntBits - 1) - 1 /\ 2 ^ (IntBits - 1) \in Nat
  BY RangeFacts DEF MinInt, MaxInt
<1>2. min \in MinInt .. MaxInt /\ max \in MinInt .. MaxInt
  BY DiscreteUniformAssumption
<1> QED BY <1>1, <1>2 DEF Accepts, Valid

\* The evaluation points of the model are points of either dtype.
LEMMA PointsAreAny ==
  ASSUME NEW p \in Points
  PROVE  p \in AnyPoint
<1>1. IntPoints \subseteq Int /\ FloatPoints \subseteq Int
  <2>1. MinInt \in Int /\ 2 ^ IntBits - 1 \in Int
    BY RangeFacts DEF MinInt
  <2> QED BY <2>1, DiscreteUniformAssumption
<1> QED BY <1>1 DEF Points, AnyPoint

\* A spacing is positive, and at most 1 below 1.
LEMMA UlpFacts ==
  ASSUME NEW x \in Int
  PROVE  Ulp(x) \in Nat \ {0} /\ (0 <= x /\ x < One => Ulp(x) <= One)
<1> DEFINE a == IF x < 0 THEN - x ELSE x
           half == 2 ^ (Precision - 1)
<1>1. a \in Nat /\ Ulp(x) = Spacing(a, 1) /\ 1 \in Nat \ {0}
  BY DEF Ulp
<1> HIDE DEF a
<1>2. PICK e \in 0 .. MaxExponent + 1 : /\ Spacing(a, 1) = 2 ^ e
                                        /\ e = 0 \/ 1 * (half * 2 ^ e) <= a
  BY <1>1, NearestFacts, Zenon
<1>3. 2 ^ e \in Nat \ {0} /\ (e = 0 => 2 ^ e = 1)
  <2>1. e \in Nat /\ 2 ^ 0 = 1
    BY <1>2, WidthFacts
  <2> QED BY <2>1, PowerIsPositive
<1>4. half \in Nat \ {0} /\ 2 ^ e <= half * 2 ^ e /\ half * 2 ^ e \in Nat /\ 1 * (half * 2 ^ e) = half * 2 ^ e
  BY <1>3, FormatFacts
<1>5. 0 <= x => a = x
  BY DEF a
<1> QED BY <1>1, <1>2, <1>3, <1>4, <1>5, FormatFacts

\* CdfClimbs, from the invariant: the point and the one after it are ordered points.
LEMMA ClimbsHolds ==
  ASSUME IInv PROVE CdfClimbs
<1> SUFFICES ASSUME phase = "evaluated", point.kind = "int" \/ ExactBounds
             PROVE  /\ 0 <= q /\ q <= One
                    /\ point.at >= (IF point.kind = "int" THEN max ELSE Hi) => q = IF method = "cdf" THEN One ELSE 0
                    /\ IF method = "cdf" THEN q <= Cdf(Following(point)) ELSE q >= Sf(Following(point))
  BY DEF CdfClimbs
<1>1. Valid
  BY AcceptedIsValid DEF IInv
<1>2. /\ method \in {"cdf", "sf"} /\ point \in Points
      /\ q = IF method = "cdf" THEN Cdf(point) ELSE Sf(point)
  BY DEF IInv, Evaluated
<1>3. point \in AnyPoint /\ Ordered(point)
  BY <1>2, PointsAreAny DEF Ordered
<1>4. /\ Following(point) \in AnyPoint /\ Following(point).kind = point.kind
      /\ point.at <= Following(point).at
  <2>1. point.at \in Int /\ Ulp(point.at) \in Nat \ {0}
    BY <1>3, UlpFacts DEF AnyPoint
  <2>2. Following(point) = [point EXCEPT !.at = IF point.kind = "int" THEN point.at + 1 ELSE point.at + Ulp(point.at)]
    BY DEF Following
  <2> QED BY <1>3, <2>1, <2>2 DEF AnyPoint
<1>5. Ordered(Following(point))
  BY <1>4 DEF Ordered
<1>6. Cdf(point) <= Cdf(Following(point)) /\ Sf(Following(point)) <= Sf(point)
  BY <1>1, <1>3, <1>4, <1>5, TailsClimbTogether
<1>7. /\ Cdf(point) \in Int /\ 0 <= Cdf(point) /\ Cdf(point) <= One
      /\ Sf(point) \in Int /\ 0 <= Sf(point) /\ Sf(point) <= One
      /\ Sf(Following(point)) \in Int
      /\ point.at >= Top(point) => Cdf(point) = One /\ Sf(point) = 0
  BY <1>1, <1>3, <1>5, TailsFollowPlaces
<1> QED BY <1>2, <1>6, <1>7 DEF Top

\* An integer point and its cast are placed alike among exact bounds.
LEMMA CastsPlaceAlike ==
  ASSUME Valid, ExactBounds, max - min < 2 ^ Precision, NEW i \in Int,
         NEW p, p = [kind |-> "int", at |-> i], NEW c, c = [kind |-> "float", at |-> AsFloat(i)]
  PROVE  Cdf(p) = Cdf(c) /\ Sf(p) = Sf(c)
<1>1. /\ Place(p).below <=> i < min
      /\ Place(p).atTop <=> i >= max
      /\ Place(p).count = AsFloat(i - min + 1) /\ Place(p).tail = AsFloat(max - i)
  BY PlaceOfInt
<1>2. /\ Place(c).below <=> AsFloat(i) < Lo
      /\ Place(c).atTop <=> AsFloat(i) >= Hi
      /\ Place(c).count = Plus(Minus(Floor(AsFloat(i)), Lo), One)
      /\ Place(c).tail = Minus(Hi, Floor(AsFloat(i)))
  BY PlaceOfFloat
<1>3. /\ Lo = min * One /\ Hi = max * One /\ Lo \in Int /\ Hi \in Int /\ Lo <= Hi
      /\ - (2 ^ Precision) < min /\ max < 2 ^ Precision /\ min \in Int /\ max \in Int /\ min <= max
      /\ One \in Nat \ {0} /\ 2 ^ Precision \in Nat /\ AsFloat(i) \in Int
  BY ExactCasts, FormatFacts, AsFloatClimbs, AsFloatFacts DEF Valid, Lo, Hi
<1>4. \A x, y \in Int : x < y => x * One < y * One
  BY <1>3
<1>5. CASE i < min
  <2>1. min - 1 \in Int /\ i <= min - 1 /\ - (2 ^ Precision) <= min - 1 /\ min - 1 <= 2 ^ Precision
    BY <1>3, <1>5
  <2>2. AsFloat(i) <= (min - 1) * One
    BY <2>1, SmallWholes, AsFloatClimbs
  <2>3. (min - 1) * One < min * One /\ (min - 1) * One \in Int
    BY <1>3, <1>4, <2>1
  <2>4. AsFloat(i) < Lo
    BY <1>3, <2>2, <2>3
  <2> QED BY <1>1, <1>2, <1>5, <2>4 DEF Cdf, Sf
<1>6. CASE i >= max
  <2>1. AsFloat(i) >= Hi
    BY <1>3, <1>6, AsFloatClimbs DEF Hi
  <2>2. ~ AsFloat(i) < Lo /\ ~ i < min
    BY <1>3, <1>6, <2>1
  <2> QED BY <1>1, <1>2, <1>6, <2>1, <2>2 DEF Cdf, Sf
<1>7. CASE ~ i < min /\ ~ i >= max
  <2>1. AsFloat(i) = i * One
    BY <1>3, <1>7, SmallWholes
  <2>2. Lo <= AsFloat(i) /\ AsFloat(i) < Hi
    <3>1. min * One <= i * One /\ i * One < max * One
      BY <1>3, <1>4, <1>7, Products
    <3> QED BY <1>3, <2>1, <3>1
  <2>3. AsFloat(i) \div One = i
    BY <1>3, <2>1
  <2>4. /\ Place(c).tail = AsFloat(max - i)
        /\ Place(c).count = Round(AsFloat(i - min) + One, 1)
    BY <1>2, <1>3, <2>2, <2>3, FloatPlaces
  <2>5. AsFloat(i - min) = (i - min) * One
    <3>1. i - min \in Int /\ - (2 ^ Precision) <= i - min /\ i - min <= 2 ^ Precision
      BY <1>3, <1>7
    <3> QED BY <3>1, SmallWholes
  <2>6. (i - min) * One + One = (i - min + 1) * One
    BY <1>3
  <2>7. Place(c).count = AsFloat(i - min + 1)
    BY <2>4, <2>5, <2>6 DEF AsFloat
  <2>8. ~ Place(c).below /\ ~ Place(c).atTop /\ ~ Place(p).below /\ ~ Place(p).atTop
    BY <1>1, <1>2, <1>3, <1>7, <2>2
  <2>9. Place(p).count = Place(c).count /\ Place(p).tail = Place(c).tail
    BY <1>1, <2>4, <2>7
  <2> QED BY <2>8, <2>9 DEF Cdf, Sf
<1> QED BY <1>5, <1>6, <1>7

\* IntAndFloatAgree, from the invariant: both tails read a place alone.
LEMMA AgreementHolds ==
  ASSUME IInv PROVE IntAndFloatAgree
<1> SUFFICES ASSUME phase = "evaluated", point.kind = "int", ExactBounds, max - min < 2 ^ Precision,
                    NEW c, c = [kind |-> "float", at |-> AsFloat(point.at)]
             PROVE  q = IF method = "cdf" THEN Cdf(c) ELSE Sf(c)
  BY DEF IntAndFloatAgree
<1>1. Valid /\ point \in AnyPoint /\ q = IF method = "cdf" THEN Cdf(point) ELSE Sf(point)
  BY AcceptedIsValid, PointsAreAny DEF IInv, Evaluated
<1>2. point.at \in Int /\ point = [kind |-> "int", at |-> point.at]
  BY <1>1 DEF AnyPoint
<1>3. Cdf(point) = Cdf(c) /\ Sf(point) = Sf(c)
  BY <1>1, <1>2, CastsPlaceAlike
<1> QED BY <1>1, <1>3

-----------------------------------------------------------------------------
\* The two inverses.  Each part of either climbs with the quantile, or falls, and is a whole float.
Whole(x) == x \in Int /\ x \in Signed /\ \E i \in Int : x = i * One

\* A rounded whole number is whole.
LEMMA WholeRound ==
  ASSUME NEW x \in Int, \E i \in Int : x = i * One
  PROVE  Whole(Round(x, 1))
BY RoundIsSigned, RoundOfWhole DEF Whole

\* One below and one above, in floats.
LEMMA Neighbours ==
  ASSUME NEW x, Whole(x), NEW y, Whole(y)
  PROVE  /\ Round(x - One, 1) <= x /\ x <= Round(x + One, 1)
         /\ Whole(Round(x - One, 1)) /\ Whole(Round(x + One, 1))
         /\ x < y => x <= Round(y - One, 1) /\ Round(x + One, 1) <= y
         /\ x <= y => Round(x - One, 1) <= Round(y - One, 1) /\ Round(x + One, 1) <= Round(y + One, 1)
<1>1. One \in Nat \ {0} /\ x \in Int /\ y \in Int
  BY FormatFacts DEF Whole
<1>2. Round(x, 1) = x /\ Round(y, 1) = y
  <2>1. x * 1 = x /\ y * 1 = y /\ x \in Signed /\ y \in Signed /\ 1 \in Nat \ {0}
    BY <1>1 DEF Whole
  <2>2. Round(x * 1, 1) = x /\ Round(y * 1, 1) = y
    BY <2>1, RoundFixes
  <2> QED BY <2>1, <2>2
<1>3. PICK i \in Int, j \in Int : x = i * One /\ y = j * One
  BY DEF Whole
<1>4. Whole(Round(x - One, 1)) /\ Whole(Round(x + One, 1))
  <2>1. x - One = (i - 1) * One /\ x + One = (i + 1) * One /\ i - 1 \in Int /\ i + 1 \in Int
    BY <1>1, <1>3
  <2>2. x - One \in Int /\ x + One \in Int
    BY <1>1
  <2>3. (\E k \in Int : x - One = k * One) /\ (\E k \in Int : x + One = k * One)
    BY <2>1
  <2> QED BY <2>2, <2>3, WholeRound
<1>5. x < y => x <= y - One /\ x + One <= y
  <2> HAVE x < y
  <2>1. i < j
    <3>1. j <= i => j * One <= i * One
      BY <1>1, Products
    <3> QED BY <1>1, <1>3, <3>1
  <2>2. (i + 1) * One <= j * One /\ (i + 1) * One = i * One + One
    BY <1>1, <2>1, Products
  <2> QED BY <1>1, <1>3, <2>2
<1>6. \A a, b \in Int : a <= b => Round(a, 1) <= Round(b, 1)
  BY RoundClimbs
<1> QED BY <1>1, <1>2, <1>4, <1>5, <1>6

\* Clamping into the support keeps the order, and whole numbers whole.
LEMMA ClampFacts ==
  ASSUME Valid, NEW x \in Int, NEW y \in Int
  PROVE  /\ Clamp(x) \in Int /\ Lo <= Clamp(x) /\ Clamp(x) <= Hi
         /\ x <= y => Clamp(x) <= Clamp(y)
         /\ Lo \in Int /\ Hi \in Int /\ Whole(Lo) /\ Whole(Hi)
         /\ - (2 ^ (IntBits - 1) * One) <= Lo /\ Hi <= 2 ^ (IntBits - 1) * One
         /\ Whole(x) => Whole(Clamp(x))
<1>1. Lo \in Int /\ Hi \in Int /\ Lo <= Hi /\ Whole(Lo) /\ Whole(Hi)
  BY AsFloatFacts, AsFloatClimbs DEF Lo, Hi, Valid, Whole
<1>2. - (2 ^ (IntBits - 1) * One) <= Lo /\ Hi <= 2 ^ (IntBits - 1) * One
  <2> DEFINE B == 2 ^ (IntBits - 1)
  <2>1. B \in Nat \ {0} /\ B * One \in Nat /\ B * One \in Grid /\ - (B * One) \in Int /\ One \in Nat
    BY RangeFacts, FormatFacts
  <2>2. B * One \in Signed /\ - (B * One) \in Signed
    BY <2>1 DEF Signed
  <2> HIDE DEF B
  <2>3. (- B) * One <= min * One /\ max * One <= B * One /\ min * One \in Int /\ max * One \in Int
    BY <2>1, Products DEF Valid, B
  <2>4. (- (B * One)) * 1 <= min * One /\ max * One <= (B * One) * 1
    BY <2>1, <2>3
  <2>5. - (B * One) <= Round(min * One, 1) /\ Round(max * One, 1) <= B * One
    BY <2>2, <2>3, <2>4, RoundKeepsGrid
  <2> QED BY <2>5 DEF B, Lo, Hi, AsFloat
<1> QED BY <1>1, <1>2 DEF Clamp, Least, Most

\* Quantiles and, past 1, the sums with a spacing that they are compared at.
Quantile(x) == x \in Int /\ 0 <= x /\ x <= 2 * One

\* A quantile times the count stays in the range of the integers, and grows with the quantile.
LEMMA ScaledFacts ==
  ASSUME Valid, NEW x, Quantile(x), NEW y, Quantile(y), x <= y
  PROVE  /\ Times(x, n) \in Int /\ 0 <= Times(x, n) /\ Times(x, n) <= 2 ^ IntBits * One
         /\ Times(x, n) <= Times(y, n)
<1> DEFINE B == 2 ^ IntBits * One
<1>1. /\ n \in Nat /\ n <= 2 ^ (IntBits - 1) * One /\ n < Infinity /\ One \in Nat \ {0}
      /\ x \in Nat /\ y \in Nat /\ x <= 2 * One /\ y <= 2 * One
  BY ValidCount, FormatFacts DEF Quantile
<1>2. 2 * One < Infinity /\ B \in Nat /\ B \in Signed /\ Infinity \in Nat
  <2>1. 2 * One <= 2 ^ IntBits * One
    BY RangeFacts, FormatFacts, Products
  <2>2. B \in Nat \ {0}
    BY RangeFacts, FormatFacts
  <2> QED BY <2>1, <2>2, RangeFacts, FormatFacts DEF Signed
<1>3. \A z \in {x, y} : Times(z, n) = Round(z * n, One)
  BY <1>1, <1>2 DEF Times
<1>4. x * n <= y * n /\ x * n \in Nat /\ y * n \in Nat
  BY <1>1, Products
<1>5. x * n <= B * One
  <2>1. x * n <= (2 * One) * n
    BY <1>1, Products
  <2>2. (2 * One) * n <= (2 * One) * (2 ^ (IntBits - 1) * One)
    BY <1>1, RangeFacts, Products
  <2>3. (2 * One) * (2 ^ (IntBits - 1) * One) = B * One
    BY <1>1, RangeFacts
  <2>4. (2 * One) * n \in Int /\ B * One \in Int
    BY <1>1, <1>2
  <2> QED BY <1>4, <2>1, <2>2, <2>3, <2>4
<1> HIDE DEF B
<1>6. Round(x * n, One) <= B
  BY <1>1, <1>2, <1>4, <1>5, RoundKeepsGrid
<1>7. Round(x * n, One) \in Int /\ 0 <= Round(x * n, One)
  <2>1. x * n \in Int /\ x * n >= 0
    BY <1>4
  <2> QED BY <1>1, <2>1, RoundIsSigned
<1>8. Round(x * n, One) <= Round(y * n, One)
  BY <1>1, <1>4, RoundClimbs
<1> QED BY <1>3, <1>6, <1>7, <1>8 DEF B

\* The parts of Ppf and Isf: the candidate, the point below it and the quotients they are compared
\* by.
PpfCandidate(x) == Minus(Plus(Lo, Ceil(Times(x, n))), One)
PpfBelowIt(x) == Clamp(Minus(PpfCandidate(x), One))
CdfAt(b) == Over(Plus(Minus(Floor(b), Lo), One), n)
IsfCandidate(x) == Minus(Hi, Floor(Times(x, n)))
SfAt(k) == Over(Minus(Hi, k), n)

\* No cast of an accepted support is infinite.
LEMMA EndsAreFinite ==
  ASSUME Valid
  PROVE  /\ Lo # Infinity /\ Hi # Infinity /\ One # Infinity /\ Lo < Infinity /\ Hi < Infinity
         /\ Lo <= 2 ^ IntBits * One /\ 2 ^ IntBits * One \in Nat
         /\ Lo \in Int /\ Hi \in Int /\ Hi - Lo <= 2 ^ IntBits * One
<1>1. /\ 2 ^ (IntBits - 1) * One \in Nat \ {0} /\ 2 ^ IntBits * One = 2 * (2 ^ (IntBits - 1) * One)
      /\ 2 * (2 ^ IntBits * One) < Infinity /\ One < Infinity /\ Infinity \in Nat /\ One \in Nat
  BY RangeFacts, FormatFacts
<1>2. /\ Lo \in Int /\ Hi \in Int /\ Hi <= 2 ^ (IntBits - 1) * One /\ - (2 ^ (IntBits - 1) * One) <= Lo
  BY ClampFacts, FormatFacts
<1>3. Lo <= Hi
  BY AsFloatClimbs DEF Lo, Hi, Valid
<1> QED BY <1>1, <1>2, <1>3

\* A candidate is a whole finite number, and the candidate of a higher quantile is no lower.
LEMMA PpfCandidateFacts ==
  ASSUME Valid, NEW x, Quantile(x), NEW y, Quantile(y), x <= y
  PROVE  /\ Whole(PpfCandidate(x)) /\ PpfCandidate(x) < Infinity
         /\ PpfCandidate(x) <= PpfCandidate(y)
<1> DEFINE B == 2 ^ IntBits * One
           T(z) == Times(z, n)
<1>1. Lo # Infinity /\ Lo <= B /\ B \in Nat /\ Whole(Lo) /\ Lo \in Int
  BY EndsAreFinite, ClampFacts
<1>2. /\ 2 * B < Infinity /\ 2 * B \in Signed /\ Infinity \in Nat /\ B < Infinity /\ One \in Nat \ {0}
  BY <1>1, RangeFacts, FormatFacts DEF Signed
<1>3. \A z \in {x, y} : T(z) \in Int /\ T(z) <= B
  BY ScaledFacts DEF Quantile
<1>4. T(x) <= T(y)
  BY ScaledFacts
<1>5. \A z \in {x, y} : Ceil(T(z)) \in Int /\ Ceil(T(z)) <= B /\ \E i \in Int : Ceil(T(z)) = i * One
  <2> TAKE z \in {x, y}
  <2>1. T(z) \in Int /\ T(z) <= T(z) /\ T(z) <= 2 ^ IntBits * One /\ 2 ^ IntBits \in Int
    BY <1>3, RangeFacts
  <2> HIDE DEF T
  <2> QED BY <2>1, FloorFacts
<1> HIDE DEF B
<1>6. Ceil(T(x)) <= Ceil(T(y))
  <2> HIDE DEF T
  <2> QED BY <1>3, <1>4, FloorFacts
<1>7. \A z \in {x, y} :
        /\ Plus(Lo, Ceil(T(z))) = Round(Lo + Ceil(T(z)), 1)
        /\ Whole(Round(Lo + Ceil(T(z)), 1)) /\ Round(Lo + Ceil(T(z)), 1) <= 2 * B
  <2> TAKE z \in {x, y}
  <2>1. Ceil(T(z)) \in Int /\ Ceil(T(z)) <= B /\ Ceil(T(z)) # Infinity
    BY <1>1, <1>2, <1>5
  <2>2. Plus(Lo, Ceil(T(z))) = Round(Lo + Ceil(T(z)), 1)
    BY <1>1, <2>1 DEF Plus
  <2>3. PICK i \in Int, j \in Int : Lo = i * One /\ Ceil(T(z)) = j * One
    BY <1>1, <1>5 DEF Whole
  <2>4. Lo + Ceil(T(z)) = (i + j) * One /\ i + j \in Int /\ Lo + Ceil(T(z)) \in Int
    BY <1>1, <1>2, <2>1, <2>3
  <2>5. Lo + Ceil(T(z)) <= (2 * B) * 1
    BY <1>1, <2>1
  <2> HIDE DEF T
  <2>6. Whole(Round(Lo + Ceil(T(z)), 1))
    BY <2>4, WholeRound
  <2> QED BY <1>2, <2>2, <2>4, <2>5, <2>6, RoundKeepsGrid
<1> DEFINE R(z) == Round(Lo + Ceil(T(z)), 1)
<1>8. R(x) <= R(y)
  <2>1. Lo + Ceil(T(x)) <= Lo + Ceil(T(y)) /\ Lo + Ceil(T(x)) \in Int /\ Lo + Ceil(T(y)) \in Int
    BY <1>1, <1>5, <1>6
  <2> HIDE DEF T
  <2> QED BY <2>1, RoundClimbs
<1>9. \A z \in {x, y} : Whole(R(z)) /\ R(z) <= 2 * B /\ PpfCandidate(z) = Round(R(z) - One, 1)
  <2> TAKE z \in {x, y}
  <2>1. Whole(R(z)) /\ R(z) <= 2 * B /\ Plus(Lo, Ceil(T(z))) = R(z)
    BY <1>7
  <2>2. R(z) \in Int /\ R(z) # Infinity
    BY <1>1, <1>2, <2>1 DEF Whole
  <2> QED BY <2>1, <2>2 DEF PpfCandidate, Minus
<1> HIDE DEF R, T
<1>10. Whole(PpfCandidate(x)) /\ PpfCandidate(x) <= R(x) /\ PpfCandidate(x) <= PpfCandidate(y)
  BY <1>8, <1>9, Neighbours
<1>11. PpfCandidate(x) \in Int /\ R(x) \in Int
  BY <1>9, <1>10 DEF Whole
<1> QED BY <1>1, <1>2, <1>9, <1>10, <1>11

\* A candidate of isf is a whole finite number, and that of a higher quantile is no higher.
LEMMA IsfCandidateFacts ==
  ASSUME Valid, NEW x, Quantile(x), NEW y, Quantile(y), x <= y
  PROVE  /\ Whole(IsfCandidate(x)) /\ IsfCandidate(x) < Infinity
         /\ IsfCandidate(y) <= IsfCandidate(x)
<1> DEFINE F(z) == Floor(Times(z, n))
<1>1. Hi # Infinity /\ Hi < Infinity /\ Whole(Hi) /\ Hi \in Int /\ Hi \in Signed
  BY EndsAreFinite, ClampFacts DEF Whole
<1>2. \A z \in {x, y} : Times(z, n) \in Int /\ 0 <= Times(z, n)
  BY ScaledFacts DEF Quantile
<1>3. Times(x, n) <= Times(y, n)
  BY ScaledFacts
<1>4. \A z \in {x, y} : F(z) \in Int /\ 0 <= F(z) /\ \E i \in Int : F(z) = i * One
  <2> TAKE z \in {x, y}
  <2>1. 0 * One <= Times(z, n) /\ Times(z, n) <= Times(z, n) /\ 0 \in Int /\ 0 * One = 0
    BY <1>2, FormatFacts
  <2>2. /\ Floor(Times(z, n)) \in Int
        /\ \E i \in Int : Floor(Times(z, n)) = i * One
        /\ \A i \in Int : i * One <= Times(z, n) => i * One <= Floor(Times(z, n))
    BY <1>2, <2>1, FloorFacts
  <2>3. 0 * One <= Floor(Times(z, n))
    BY <2>1, <2>2
  <2> QED BY <2>1, <2>2, <2>3
<1>5. F(x) <= F(y)
  BY <1>2, <1>3, FloorFacts
<1> HIDE DEF F
<1>6. \A z \in {x, y} : IsfCandidate(z) = Round(Hi - F(z), 1)
  BY <1>1 DEF IsfCandidate, Minus, F
<1>7. Whole(Round(Hi - F(x), 1))
  <2>1. PICK i \in Int, j \in Int : Hi = i * One /\ F(x) = j * One
    BY <1>1, <1>4 DEF Whole
  <2>2. Hi - F(x) = (i - j) * One /\ i - j \in Int /\ Hi - F(x) \in Int
    BY <1>1, <1>4, <2>1, FormatFacts
  <2> QED BY <2>2, WholeRound
<1>8. Hi - F(y) <= Hi - F(x) /\ Hi - F(x) \in Int /\ Hi - F(y) \in Int /\ Hi - F(x) <= Hi * 1
  BY <1>1, <1>4, <1>5
<1>9. Round(Hi - F(y), 1) <= Round(Hi - F(x), 1) /\ Round(Hi - F(x), 1) <= Hi
  BY <1>1, <1>8, RoundClimbs, RoundKeepsGrid
<1>10. Round(Hi - F(x), 1) \in Int
  BY <1>7 DEF Whole
<1> QED BY <1>1, <1>6, <1>7, <1>9, <1>10, FormatFacts

\* The probabilities the corrections compare with the quantile climb with the point, and fall with it.
LEMMA CdfAtClimbs ==
  ASSUME Valid, NEW a \in Int, NEW b \in Int, Lo <= a, a <= b, b <= Hi
  PROVE  CdfAt(a) <= CdfAt(b) /\ CdfAt(a) \in Int
<1> DEFINE B == 2 ^ IntBits * One
           D(z) == Round(Floor(z) - Lo, 1)
<1>1. /\ Lo \in Int /\ Hi \in Int /\ Hi < Infinity /\ One # Infinity /\ Hi - Lo <= B
      /\ B \in Nat /\ B \in Signed /\ B < Infinity /\ Infinity \in Nat /\ One \in Nat \ {0}
  BY EndsAreFinite, RangeFacts, FormatFacts DEF Signed
<1>2. \A z \in {a, b} : Floor(z) \in Int /\ Floor(z) <= Hi /\ z \in Int
  <2> TAKE z \in {a, b}
  <2>1. z <= z /\ z \in Int /\ z <= Hi
    BY <1>1
  <2>2. Floor(z) \in Int /\ Floor(z) <= z
    BY <2>1, FloorFacts
  <2> QED BY <1>1, <2>1, <2>2
<1>3. Floor(a) <= Floor(b)
  BY FloorFacts
<1> HIDE DEF B
<1>4. \A z \in {a, b} : Minus(Floor(z), Lo) = D(z) /\ D(z) \in Int /\ D(z) # Infinity
  <2> TAKE z \in {a, b}
  <2>1. Floor(z) # Infinity /\ Floor(z) - Lo \in Int /\ Floor(z) - Lo <= B * 1
    BY <1>1, <1>2
  <2>2. D(z) \in Int /\ D(z) <= B
    BY <1>1, <2>1, RoundIsSigned, RoundKeepsGrid
  <2> QED BY <1>1, <2>1, <2>2 DEF Minus
<1>5. D(a) <= D(b)
  <2>1. Floor(a) - Lo <= Floor(b) - Lo /\ Floor(a) - Lo \in Int /\ Floor(b) - Lo \in Int
    BY <1>1, <1>2, <1>3
  <2> QED BY <2>1, RoundClimbs
<1> HIDE DEF D
<1> DEFINE E(z) == Round(D(z) + One, 1)
<1>6. \A z \in {a, b} : D(z) + One \in Int /\ E(z) \in Int /\ CdfAt(z) = Round(E(z) * One, n)
  <2> TAKE z \in {a, b}
  <2>1. D(z) + One \in Int
    BY <1>1, <1>4
  <2>2. Plus(Minus(Floor(z), Lo), One) = E(z)
    BY <1>1, <1>4 DEF Plus
  <2> QED BY <2>1, <2>2, RoundIsSigned DEF CdfAt, Over
<1>7. E(a) <= E(b)
  <2>1. D(a) + One <= D(b) + One
    BY <1>1, <1>4, <1>5
  <2> QED BY <1>6, <2>1, RoundClimbs
<1> HIDE DEF E
<1>8. E(a) * One <= E(b) * One /\ E(a) * One \in Int /\ E(b) * One \in Int
  BY <1>1, <1>6, <1>7, Products
<1>9. n \in Nat \ {0}
  BY ValidCount, FormatFacts
<1>10. Round(E(a) * One, n) <= Round(E(b) * One, n) /\ Round(E(a) * One, n) \in Int
  BY <1>8, <1>9, RoundClimbs, RoundIsSigned
<1> QED BY <1>6, <1>10

\* The survival quotient of a higher point is no higher.
LEMMA SfAtFalls ==
  ASSUME Valid, NEW a \in Int, NEW b \in Int, a <= b
  PROVE  SfAt(b) <= SfAt(a) /\ SfAt(a) \in Int
<1>1. Hi \in Int /\ Hi # Infinity /\ One \in Nat \ {0} /\ n \in Nat \ {0}
  BY EndsAreFinite, ValidCount, FormatFacts
<1>2. \A z \in {a, b} : SfAt(z) = Round(Round(Hi - z, 1) * One, n)
  BY <1>1 DEF SfAt, Minus, Over
<1>3. Hi - b <= Hi - a /\ Hi - a \in Int /\ Hi - b \in Int
  BY <1>1
<1>4. Round(Hi - b, 1) <= Round(Hi - a, 1) /\ Round(Hi - b, 1) \in Int /\ Round(Hi - a, 1) \in Int
  BY <1>3, RoundClimbs, RoundIsSigned
<1>5. Round(Hi - b, 1) * One <= Round(Hi - a, 1) * One /\ Round(Hi - b, 1) * One \in Int
      /\ Round(Hi - a, 1) * One \in Int
  BY <1>1, <1>4, Products
<1> QED BY <1>1, <1>2, <1>5, RoundClimbs, RoundIsSigned

\* A higher quantile never has a lower ppf: were its candidate stepped down and the other not, the
\* quotients would disagree.
LEMMA PpfClimbs ==
  ASSUME Valid, NEW x, Quantile(x), NEW y, Quantile(y), x <= y
  PROVE  /\ Ppf(x) \in Int /\ Lo <= Ppf(x) /\ Ppf(x) <= Hi
         /\ Ppf(x) <= Ppf(y)
<1> DEFINE C(z) == PpfCandidate(z)
           D(z) == Round(C(z) - One, 1)
           Answers(z) == Clamp(IF CdfAt(Clamp(D(z))) >= z THEN Clamp(D(z)) ELSE C(z))
<1>1. \A z \in {x, y} : Whole(C(z)) /\ C(z) < Infinity /\ z \in Int
  <2> TAKE z \in {x, y}
  <2>1. Quantile(z) /\ z <= z /\ z \in Int
    BY DEF Quantile
  <2> QED BY <2>1, PpfCandidateFacts
<1>2. C(x) <= C(y)
  BY PpfCandidateFacts
<1>3. \A z \in {x, y} : C(z) \in Int /\ D(z) \in Int /\ Whole(D(z)) /\ D(z) <= C(z)
  BY <1>1, Neighbours DEF Whole
<1>4. D(x) <= D(y) /\ (C(x) < C(y) => C(x) <= D(y))
  BY <1>1, <1>2, Neighbours
<1>5. \A z \in {x, y} : Ppf(z) = Answers(z)
  <2> TAKE z \in {x, y}
  <2>1. C(z) # Infinity
    BY <1>1, <1>3, FormatFacts
  <2>2. Minus(C(z), One) = D(z)
    BY <2>1 DEF Minus
  <2> QED BY <2>2 DEF Ppf, PpfCandidate, CdfAt
<1> HIDE DEF C, D
<1>6. /\ \A u \in Int : Clamp(u) \in Int /\ Lo <= Clamp(u) /\ Clamp(u) <= Hi
      /\ \A u, v \in Int : u <= v => Clamp(u) <= Clamp(v)
      /\ \A u \in Int : Clamp(Clamp(u)) = Clamp(u)
  <2>1. /\ \A u \in Int : Clamp(u) \in Int /\ Lo <= Clamp(u) /\ Clamp(u) <= Hi
        /\ \A u, v \in Int : u <= v => Clamp(u) <= Clamp(v)
        /\ Lo \in Int /\ Hi \in Int
    BY ClampFacts
  <2>2. \A u \in Int : Lo <= u /\ u <= Hi => Clamp(u) = u
    BY <2>1 DEF Clamp, Most, Least
  <2> QED BY <2>1, <2>2
<1> DEFINE K(z) == Clamp(D(z))
           L(z) == Clamp(C(z))
<1>7. /\ K(x) \in Int /\ K(y) \in Int /\ L(x) \in Int /\ L(y) \in Int
      /\ Lo <= K(x) /\ K(x) <= K(y) /\ K(y) <= Hi /\ L(x) <= L(y)
      /\ K(x) <= L(x) /\ K(y) <= L(y) /\ (C(x) < C(y) => L(x) <= K(y))
      /\ Lo <= L(x) /\ L(x) <= Hi /\ K(x) <= Hi
  BY <1>2, <1>3, <1>4, <1>6
<1>8. \A z \in {x, y} : Answers(z) = IF CdfAt(K(z)) >= z THEN K(z) ELSE L(z)
  BY <1>3, <1>6
<1>9. C(x) = C(y) => K(x) = K(y)
  BY DEF D
<1>10. CdfAt(K(x)) <= CdfAt(K(y)) /\ CdfAt(K(x)) \in Int
  BY <1>7, CdfAtClimbs
<1>11. CdfAt(K(y)) \in Int
  <2>1. Lo <= K(y) /\ K(y) <= K(y)
    BY <1>3, <1>6, <1>7
  <2> QED BY <1>7, <2>1, CdfAtClimbs
<1> HIDE DEF K, L, Answers
<1>12. Ppf(x) \in {K(x), L(x)} /\ Ppf(x) \in Int /\ Lo <= Ppf(x) /\ Ppf(x) <= Hi
  BY <1>5, <1>7, <1>8
<1>13. Answers(x) <= Answers(y)
  <2>1. CASE CdfAt(K(x)) >= x
    BY <1>7, <1>8, <2>1, EndsAreFinite
  <2>2. CASE ~ CdfAt(K(x)) >= x /\ ~ CdfAt(K(y)) >= y
    BY <1>7, <1>8, <2>2
  <2>3. CASE ~ CdfAt(K(x)) >= x /\ CdfAt(K(y)) >= y
    <3>1. C(x) # C(y)
      <4> SUFFICES ASSUME C(x) = C(y) PROVE FALSE
        OBVIOUS
      <4> QED BY <1>1, <1>9, <1>10, <2>3
    <3>2. L(x) <= K(y)
      BY <1>2, <1>3, <1>7, <3>1
    <3> QED BY <1>8, <2>3, <3>2
  <2> QED BY <2>1, <2>2, <2>3
<1> QED BY <1>5, <1>12, <1>13

\* A higher quantile never has a higher isf, whichever of the three neighbours each one answers.
LEMMA IsfFalls ==
  ASSUME Valid, NEW x, Quantile(x), NEW y, Quantile(y), x <= y
  PROVE  /\ Isf(x) \in Int /\ Lo <= Isf(x) /\ Isf(x) <= Hi
         /\ Isf(y) <= Isf(x)
<1> DEFINE C(z) == IsfCandidate(z)
           D(z) == Round(C(z) - One, 1)
           U(z) == Round(C(z) + One, 1)
           Choice(z) == IF SfAt(D(z)) <= z THEN D(z) ELSE IF SfAt(C(z)) <= z THEN C(z) ELSE U(z)
<1>1. \A z \in {x, y} : Whole(C(z)) /\ C(z) < Infinity /\ z \in Int
  <2> TAKE z \in {x, y}
  <2>1. Quantile(z) /\ z <= z /\ z \in Int
    BY DEF Quantile
  <2> QED BY <2>1, IsfCandidateFacts
<1>2. C(y) <= C(x)
  BY IsfCandidateFacts
<1>3. \A z \in {x, y} : /\ C(z) \in Int /\ D(z) \in Int /\ U(z) \in Int
                        /\ Whole(D(z)) /\ Whole(U(z)) /\ D(z) <= C(z) /\ C(z) <= U(z)
  BY <1>1, Neighbours DEF Whole
<1>4. /\ C(y) < C(x) => C(y) <= D(x) /\ U(y) <= C(x)
      /\ C(y) < D(x) => U(y) <= D(x)
  <2>1. Whole(C(y)) /\ Whole(C(x)) /\ Whole(D(x))
    BY <1>1, <1>3
  <2> HIDE DEF C, D
  <2>2. C(y) < C(x) => C(y) <= Round(C(x) - One, 1) /\ U(y) <= C(x)
    BY <2>1, Neighbours
  <2>3. C(y) < D(x) => U(y) <= D(x)
    BY <2>1, Neighbours
  <2> QED BY <2>2, <2>3 DEF D
<1>5. \A z \in {x, y} : Isf(z) = Clamp(Choice(z))
  <2> TAKE z \in {x, y}
  <2>1. C(z) # Infinity /\ One # Infinity
    BY <1>1, <1>3, EndsAreFinite, FormatFacts
  <2>2. Minus(C(z), One) = D(z) /\ Plus(C(z), One) = U(z)
    BY <2>1 DEF Minus, Plus
  <2> QED BY <2>2 DEF Isf, IsfCandidate, SfAt
<1>6. C(x) = C(y) => D(x) = D(y) /\ U(x) = U(y)
  OBVIOUS
<1> HIDE DEF C, D, U
<1>7. \A z \in {x, y} : Choice(z) \in {D(z), C(z), U(z)}
  OBVIOUS
<1>8. Choice(y) <= Choice(x)
  <2>1. CASE C(x) = C(y)
    <3>1. D(x) = D(y) /\ U(x) = U(y)
      BY <1>6, <2>1
    <3>2. SfAt(D(x)) \in Int /\ SfAt(C(x)) \in Int
      <4>1. D(x) <= D(x) /\ C(x) <= C(x)
        BY <1>3
      <4> QED BY <1>3, <4>1, SfAtFalls
    <3> QED BY <1>1, <1>3, <2>1, <3>1, <3>2
  <2>2. CASE C(y) < C(x)
    <3>1. C(y) <= D(x) /\ U(y) <= C(x)
      BY <1>4, <2>2
    <3>2. Choice(y) <= U(y) /\ Choice(y) \in Int
      BY <1>3, <1>7
    <3>3. CASE Choice(x) \in {C(x), U(x)}
      <4> HIDE DEF Choice
      <4> QED BY <1>3, <3>1, <3>2, <3>3
    <3>4. CASE Choice(x) = D(x) /\ SfAt(D(x)) <= x
      <4>1. CASE C(y) < D(x)
        <5>1. U(y) <= D(x)
          BY <1>4, <4>1
        <5> HIDE DEF Choice
        <5> QED BY <1>3, <3>2, <3>4, <5>1
      <4>2. CASE C(y) = D(x)
        <5>1. SfAt(C(y)) <= y
          <6>1. SfAt(C(y)) \in Int
            BY <1>3, <4>2, SfAtFalls
          <6> QED BY <1>1, <3>4, <4>2, <6>1
        <5>2. Choice(y) \in {D(y), C(y)}
          BY <5>1
        <5> HIDE DEF Choice
        <5> QED BY <1>3, <3>4, <4>2, <5>2
      <4> QED BY <1>3, <3>1, <4>1, <4>2
    <3> QED BY <3>3, <3>4
  <2> QED BY <1>2, <1>3, <2>1, <2>2
<1>9. Choice(x) \in Int /\ Choice(y) \in Int
  BY <1>3, <1>7
<1> HIDE DEF Choice
<1> QED BY <1>5, <1>8, <1>9, ClampFacts

\* A probability is a float at every point, a float one on wide bounds included.
LEMMA ProbabilityIsFloat ==
  ASSUME Valid, NEW p \in Points
  PROVE  Cdf(p) \in Signed /\ Sf(p) \in Signed
<1> DEFINE at == Place(p)
<1>1. p \in AnyPoint /\ p.kind \in {"int", "float"} /\ p.at \in Int
  BY PointsAreAny DEF AnyPoint
<1>2. /\ min \in Int /\ max \in Int /\ Lo \in Int /\ Hi \in Int /\ One \in Nat /\ Infinity \in Int
      /\ Over(One, n) \in Int
  <2>1. n \in Nat /\ One <= n /\ n <= 2 ^ (IntBits - 1) * One
    BY ValidCount
  <2>2. Over(One, n) \in Int
    BY <2>1, Reciprocal
  <2> QED BY <2>2, AsFloatFacts, FormatFacts DEF Valid, Lo, Hi
<1>3. ASSUME NEW x \in Int, NEW y \in Int PROVE Plus(x, y) \in Int /\ Minus(x, y) \in Int /\ Times(x, y) \in Signed
  <2>1. x + y \in Int /\ x - y \in Int /\ x * y \in Int /\ 1 \in Nat \ {0} /\ One \in Nat \ {0}
    BY FormatFacts
  <2>2. Round(x + y, 1) \in Int /\ Round(x - y, 1) \in Int /\ Round(x * y, One) \in Signed
    BY <2>1, RoundIsSigned
  <2>3. Infinity \in Signed
    BY <1>2, InfinityInGrid DEF Signed
  <2> QED BY <1>2, <2>2, <2>3 DEF Plus, Minus, Times
<1>4. Floor(p.at) \in Int
  BY <1>1, FormatFacts DEF Floor
<1>5. at.count \in Int /\ at.tail \in Int
  <2>1. CASE p.kind = "int"
    <3>1. p.at - min + 1 \in Int /\ max - p.at \in Int
      BY <1>1, <1>2
    <3>2. AsFloat(p.at - min + 1) \in Int /\ AsFloat(max - p.at) \in Int
      BY <3>1, AsFloatFacts
    <3> QED BY <2>1, <3>2 DEF Place
  <2>2. CASE p.kind = "float"
    <3>1. Minus(Floor(p.at), Lo) \in Int /\ Minus(Hi, Floor(p.at)) \in Int /\ One \in Int
      <4> DEFINE f == Floor(p.at)
      <4>1. f \in Int
        BY <1>4
      <4> HIDE DEF f
      <4>2. Minus(f, Lo) \in Int /\ Minus(Hi, f) \in Int
        BY <1>2, <1>3, <4>1
      <4> QED BY <1>2, <4>2 DEF f
    <3>2. Plus(Minus(Floor(p.at), Lo), One) \in Int
      BY <1>3, <3>1
    <3> QED BY <2>2, <3>1, <3>2 DEF Place
  <2> QED BY <1>1, <2>1, <2>2
<1> HIDE DEF at
<1>6. Times(at.count, Over(One, n)) \in Signed /\ Times(at.tail, Over(One, n)) \in Signed
  BY <1>2, <1>3, <1>5
<1>7. 0 \in Signed /\ One \in Signed
  BY <1>2, GridZero, RangeFacts DEF Signed
<1> QED BY <1>6, <1>7 DEF Cdf, Sf, at

\* What an inverse is asked for is a float: a probability that was found, or the caller's quantile.
LEMMA AskedIsFloat ==
  ASSUME IInv, phase = "inverted"
  PROVE  Valid /\ q \in Int /\ q \in Signed /\ answer = InverseOf(method, q)
<1>1. Valid /\ (Evaluated \/ q \in Quantiles) /\ answer = InverseOf(method, q)
  BY AcceptedIsValid DEF IInv
<1>2. q \in Signed
  <2>1. CASE Evaluated
    BY <1>1, <2>1, ProbabilityIsFloat DEF Evaluated
  <2>2. CASE q \in Quantiles
    <3>1. \A f \in Floats : f \in Grid /\ f \in Int /\ - (- f) = f
      BY FloatsAndGrid, GridIsNat
    <3>2. PICK f \in Floats : q = f \/ q = - f
      BY <2>2, DiscreteUniformAssumption
    <3> QED BY <3>1, <3>2 DEF Signed
  <2> QED BY <1>1, <2>1, <2>2
<1> QED BY <1>1, <1>2 DEF Signed

\* InverseClimbs, from the invariant.
LEMMA InverseClimbsHolds ==
  ASSUME IInv PROVE InverseClimbs
<1> SUFFICES ASSUME phase = "inverted"
             PROVE  /\ IF InUnit(q) THEN Lo <= answer /\ answer <= Hi ELSE answer = NULL
                    /\ InUnit(q) /\ q < One =>
                         IF method \in {"cdf", "ppf"} THEN answer <= Ppf(q + Ulp(q)) ELSE answer >= Isf(q + Ulp(q))
  BY DEF InverseClimbs
<1>1. Valid /\ q \in Int /\ answer = InverseOf(method, q)
  BY AskedIsFloat
<1>2. CASE ~ InUnit(q)
  BY <1>1, <1>2 DEF InverseOf
<1>3. CASE InUnit(q)
  <2>1. Quantile(q) /\ q <= q
    BY <1>1, <1>3, FormatFacts DEF Quantile, InUnit
  <2>2. answer = IF method \in {"cdf", "ppf"} THEN Ppf(q) ELSE Isf(q)
    BY <1>1, <1>3 DEF InverseOf
  <2>3. Lo <= answer /\ answer <= Hi
    BY <1>1, <2>1, <2>2, PpfClimbs, IsfFalls
  <2>4. ASSUME q < One
        PROVE  IF method \in {"cdf", "ppf"} THEN answer <= Ppf(q + Ulp(q)) ELSE answer >= Isf(q + Ulp(q))
    <3>1. Ulp(q) \in Nat \ {0} /\ Ulp(q) <= One /\ One \in Nat
      BY <1>1, <1>3, <2>4, UlpFacts, FormatFacts DEF InUnit
    <3>2. Quantile(q + Ulp(q)) /\ q <= q + Ulp(q) /\ q + Ulp(q) <= q + Ulp(q)
      BY <1>1, <1>3, <2>4, <3>1 DEF Quantile, InUnit
    <3>3. Ppf(q) <= Ppf(q + Ulp(q))
      BY <1>1, <2>1, <3>2, PpfClimbs
    <3>4. Isf(q + Ulp(q)) <= Isf(q) /\ Isf(q) \in Int /\ Isf(q + Ulp(q)) \in Int
      BY <1>1, <2>1, <3>2, IsfFalls
    <3> QED BY <2>2, <3>3, <3>4
  <2> QED BY <1>3, <2>3, <2>4
<1> QED BY <1>2, <1>3

-----------------------------------------------------------------------------
\* Half of 1 is on the grid.
LEMMA HalfOfOne ==
  /\ One \div 2 \in Nat \ {0} /\ One = 2 * (One \div 2)
<1>1. FractionBits - 1 \in Nat /\ (FractionBits - 1) + 1 = FractionBits
  BY WidthFacts
<1>2. One = 2 * 2 ^ (FractionBits - 1) /\ 2 ^ (FractionBits - 1) \in Nat \ {0}
  BY <1>1, PowerStep, PowerIsPositive DEF One
<1> QED BY <1>2

\* Half a step away from a rounded whole number, the roundings of the number and of the sum make no
\* more than the spacing of the result between them.
LEMMA HalfStep ==
  ASSUME NEW m \in Nat, m <= 2 ^ (IntBits - 1), NEW s \in {- (One \div 2), 0, One \div 2}, m * One + s >= 0,
         NEW b, b = Nearest(Nearest(m * One, 1) + s, 1)
  PROVE  /\ Nearest(m * One, 1) + s \in Nat /\ b \in Nat /\ Spacing(b, 1) \in Nat
         /\ b - (m * One + s) \in - Spacing(b, 1) .. Spacing(b, 1)
<1> DEFINE H == One \div 2
           half == 2 ^ (Precision - 1)
           a == Nearest(m * One, 1)
<1>1. H \in Nat \ {0} /\ One = 2 * H /\ One \in Nat \ {0} /\ m * One \in Nat /\ 1 \in Nat \ {0}
  BY HalfOfOne
<1>2. a \in Nat /\ a <= 2 ^ (IntBits - 1) * One /\ m * One <= 2 ^ (IntBits - 1) * One
  <2>1. m * One <= 2 ^ (IntBits - 1) * One /\ 2 ^ (IntBits - 1) * One \in Nat /\ 2 ^ (IntBits - 1) * One \in Grid
    BY RangeFacts, FormatFacts, Products
  <2>2. m * One <= (2 ^ (IntBits - 1) * One) * 1
    BY <1>1, <2>1
  <2> QED BY <1>1, <2>1, <2>2, NearestIsNat, NearestKeepsGrid
<1>3. 2 ^ (IntBits - 1) * One + One < Infinity /\ 2 ^ (IntBits - 1) * One \in Nat /\ Infinity \in Nat
  <2>1. One <= 2 ^ (IntBits - 1) * One /\ 2 ^ (IntBits - 1) * One \in Nat \ {0}
    BY RangeFacts, FormatFacts
  <2>2. 2 ^ IntBits * One = 2 * (2 ^ (IntBits - 1) * One)
    BY RangeFacts, FormatFacts
  <2> QED BY <2>1, <2>2, RangeFacts, FormatFacts
<1> HIDE DEF H, a
<1>4. m * One < Infinity /\ a + s < Infinity /\ s \in Int /\ s \in {- H, 0, H}
  BY <1>1, <1>2, <1>3 DEF H
<1>5. m <= 2 ^ Precision => a = m * One
  <2> HAVE m <= 2 ^ Precision
  <2>1. AsFloat(m) = m * One
    BY SmallWholes, FormatFacts
  <2> QED BY <1>1, <2>1, RoundCases DEF AsFloat, a
\* Past the significands the number is far from 0, and its spacing is not that of a half.
<1>6. ASSUME 2 ^ Precision < m
      PROVE  \E e \in 0 .. MaxExponent + 1 :
               /\ Spacing(m * One, 1) = 2 ^ e /\ half * 2 ^ e <= m * One
               /\ FractionBits < e /\ e <= MaxExponent /\ half * 2 ^ e \in Grid
  <2>1. PICK e \in 0 .. MaxExponent + 1 :
           /\ Spacing(m * One, 1) = 2 ^ e
           /\ e = 0 \/ 1 * (half * 2 ^ e) <= m * One
    BY <1>1, NearestFacts, Zenon
  <2>2. e \in Nat /\ 2 ^ e \in Nat \ {0} /\ half \in Nat \ {0} /\ 2 ^ Precision = 2 * half /\ 2 ^ Precision \in Nat
    BY <2>1, WidthFacts, FormatFacts, PowerIsPositive
  <2>3. /\ 2 ^ (FractionBits + 1) = 2 * One /\ FractionBits + 1 \in 0 .. MaxExponent + 1
        /\ FractionBits + 1 \in Nat
    BY WidthFacts, PowerStep DEF One
  <2>4. half * (2 * One) <= m * One
    <3>1. 2 ^ Precision * One <= m * One
      BY <1>1, <1>6, <2>2, Products
    <3> QED BY <1>1, <2>2, <3>1
  <2>5. 2 * One <= 2 ^ e
    BY <1>1, <2>1, <2>3, <2>4, SpacingFrom
  <2>6. FractionBits < e
    <3>1. e <= FractionBits => 2 ^ e <= One
      BY <2>2, WidthFacts, PowerUpTo DEF One
    <3> QED BY <1>1, <2>2, <2>5, <3>1, WidthFacts
  <2>7. half * 2 ^ e <= m * One
    BY <1>1, <2>1, <2>2, <2>6, WidthFacts
  <2>8. e # MaxExponent + 1
    <3> SUFFICES ASSUME e = MaxExponent + 1 PROVE FALSE
      OBVIOUS
    <3>1. 2 ^ e = 2 * 2 ^ MaxExponent /\ 2 ^ MaxExponent \in Nat
      BY WidthFacts, PowerStep, PowerIsPositive
    <3>2. half * 2 ^ e = Infinity
      <4>1. Infinity = 2 ^ Precision * 2 ^ MaxExponent
        BY FormatFacts, PowerSum DEF Infinity
      <4> QED BY <2>2, <3>1, <4>1
    <3> QED BY <1>1, <1>3, <1>4, <2>7, <3>2
  <2>9. half * 2 ^ e \in Grid
    <3>1. half \in 0 .. 2 ^ Precision /\ e \in 0 .. MaxExponent
      BY <2>1, <2>2, <2>8, WidthFacts
    <3> QED BY <3>1 DEF Grid
  <2> QED BY <2>1, <2>2, <2>6, <2>7, <2>8, <2>9, WidthFacts
<1>7. ASSUME 2 ^ Precision < m
      PROVE  a + s \in Nat /\ Spacing(m * One, 1) <= Spacing(b, 1)
  <2>1. PICK e \in 0 .. MaxExponent + 1 :
               /\ Spacing(m * One, 1) = 2 ^ e /\ half * 2 ^ e <= m * One
               /\ FractionBits < e /\ e <= MaxExponent /\ half * 2 ^ e \in Grid
    BY <1>6, <1>7
  <2> DEFINE g == half * 2 ^ e
  <2>2. /\ e \in Nat /\ 2 ^ e \in Nat \ {0} /\ half \in Nat \ {0} /\ 2 ^ Precision = 2 * half /\ g \in Nat
        /\ FractionBits \in Nat
    BY <2>1, WidthFacts, FormatFacts, PowerIsPositive
  <2>3. g <= a
    <3>1. g * 1 <= m * One /\ g \in Grid
      BY <2>1, <2>2
    <3> HIDE DEF g
    <3> QED BY <1>1, <3>1, NearestKeepsGrid DEF a
  <2>4. e - 1 \in Nat /\ 2 ^ e = 2 * 2 ^ (e - 1) /\ 2 ^ (e - 1) \in Nat \ {0} /\ One <= 2 ^ (e - 1)
    <3>1. e - 1 \in Nat /\ (e - 1) + 1 = e /\ FractionBits <= e - 1
      BY <2>1, <2>2
    <3>2. 2 ^ ((e - 1) + 1) = 2 * 2 ^ (e - 1) /\ 2 ^ (e - 1) \in Nat \ {0}
      BY <3>1, PowerStep, PowerIsPositive
    <3> QED BY <2>2, <3>1, <3>2, PowerUpTo DEF One
  <2> DEFINE u == 2 ^ (e - 1)
  <2>5. g = 2 ^ Precision * u /\ u <= half * u /\ half * u \in Nat /\ 2 * (half * u) = g
    BY <2>2, <2>4
  <2>6. a + s \in Nat /\ g - H <= a + s /\ half * u <= g - H
    <3> HIDE DEF g, u
    <3> QED BY <1>1, <1>2, <1>4, <2>2, <2>3, <2>4, <2>5 DEF u
  <2>7. g <= b
    <3>1. CASE g <= a + s
      <4>1. g * 1 <= a + s /\ g \in Grid
        BY <2>1, <2>2, <3>1
      <4> HIDE DEF g
      <4> QED BY <1>1, <2>6, <4>1, NearestKeepsGrid DEF a
    <3>2. CASE a + s < g
      <4> DEFINE c == NearestCount[<<a + s, 1 * u>>]
      <4>1. e - 1 \in 0 .. MaxExponent
        <5>1. e \in Nat /\ e <= MaxExponent /\ e - 1 \in Nat /\ MaxExponent \in Nat
          BY <2>1, <2>2, <2>4, WidthFacts
        <5> QED BY <5>1
      <4>2. Spacing(a + s, 1) = u
        <5>1. a + s < 1 * (2 ^ Precision * u) /\ 1 * (half * u) <= a + s
          <6> HIDE DEF g, u
          <6> QED BY <1>1, <2>2, <2>5, <2>6, <3>2
        <5> QED BY <1>1, <2>6, <4>1, <5>1, ExponentIs
      <4>3. 2 ^ Precision <= c
        <5>1. 2 ^ Precision % 2 = 0 /\ 2 ^ Precision \in Nat
          BY <2>2
        <5>2. 2 * 2 ^ Precision * (1 * u) = 2 * g /\ 1 * u = u
          BY <2>2, <2>4, <2>5
        <5>3. 2 * g <= 2 * (a + s) + u
          <6> HIDE DEF g, u
          <6> QED BY <1>1, <1>4, <2>2, <2>4, <2>6 DEF u
        <5> HIDE DEF g, u
        <5> QED BY <2>4, <2>6, <5>1, <5>2, <5>3, CountFacts DEF u
      <4>4. c \in Nat /\ b = IF c * u < Infinity THEN c * u ELSE Infinity
        <5>1. PICK d \in 0 .. MaxExponent + 1, k \in Nat :
                /\ Spacing(a + s, 1) = 2 ^ d /\ k = NearestCount[<<a + s, 1 * 2 ^ d>>]
                /\ Nearest(a + s, 1) = IF k * 2 ^ d < Infinity THEN k * 2 ^ d ELSE Infinity
          BY <1>1, <2>6, NearestFacts, Zenon
        <5>2. 2 ^ d = u /\ k = c /\ b = Nearest(a + s, 1)
          BY <4>2, <5>1 DEF a
        <5> QED BY <5>1, <5>2
      <4>5. 2 ^ Precision * u <= c * u /\ c * u \in Nat
        <5> HIDE DEF c
        <5> QED BY <2>2, <2>4, <4>3, <4>4, Products
      <4>6. g <= Infinity
        BY <2>1, GridIsNat
      <4> HIDE DEF c, u
      <4> QED BY <1>3, <2>2, <2>5, <4>4, <4>5, <4>6
    <3> QED BY <2>2, <2>6, <3>1, <3>2
  <2>8. b \in Nat
    BY <1>1, <2>6, NearestIsNat DEF a
  <2> QED BY <2>1, <2>6, <2>7, <2>8, SpacingFrom
<1>8. a + s \in Nat
  BY <1>1, <1>2, <1>4, <1>5, <1>7, FormatFacts
<1>9. /\ Spacing(b, 1) \in Nat /\ Spacing(a + s, 1) <= Spacing(b, 1) /\ Spacing(a + s, 1) \in Nat
      /\ 2 * b - 2 * (a + s) \in - Spacing(a + s, 1) .. Spacing(a + s, 1)
      /\ b \in Nat
  BY <1>1, <1>4, <1>8, SpacingOfNearest, NearestIsNat DEF a
<1>10. CASE m <= 2 ^ Precision
  <2>1. a = m * One
    BY <1>5, <1>10
  <2> QED BY <1>1, <1>4, <1>8, <1>9, <2>1 DEF a
<1>11. CASE 2 ^ Precision < m
  <2>1. Spacing(m * One, 1) \in Nat /\ 2 * a - 2 * (m * One) \in - Spacing(m * One, 1) .. Spacing(m * One, 1)
    BY <1>1, <1>4, SpacingOfNearest DEF a
  <2>2. Spacing(m * One, 1) <= Spacing(b, 1)
    BY <1>7, <1>11
  <2> QED BY <1>1, <1>2, <1>4, <1>8, <1>9, <2>1, <2>2 DEF a
<1> QED BY <1>10, <1>11, FormatFacts

\* The spacing at a rounded value of either sign.
LEMMA UlpOfNearest ==
  ASSUME NEW b \in Nat
  PROVE  Ulp(b) = Spacing(b, 1) /\ Ulp(- b) = Spacing(b, 1)
<1>1. CASE b = 0
  BY <1>1 DEF Ulp
<1>2. CASE b > 0
  BY <1>2 DEF Ulp
<1> QED BY <1>1, <1>2

\* An integer of the width does not wrap.
LEMMA WrapKeeps ==
  ASSUME NEW i \in Int, - (2 ^ (IntBits - 1)) <= i, i < 2 ^ (IntBits - 1)
  PROVE  Wrap(i) = i
<1> DEFINE B == 2 ^ (IntBits - 1)
<1>1. B \in Nat \ {0} /\ 2 ^ IntBits = 2 * B /\ MinInt = - B
  BY RangeFacts DEF MinInt
<1> HIDE DEF B
<1>2. i + B \in Nat /\ i + B < 2 * B
  BY <1>1 DEF B
<1>3. (i + B) % (2 * B) = i + B
  BY <1>1, <1>2
<1>4. i - MinInt = i + B
  BY <1>1
<1> QED BY <1>1, <1>2, <1>3, <1>4 DEF Wrap

\* MidpointIsExact, from the invariant: the lower half of the width never overflows, and the half
\* that is added rounds once.
LEMMA MidpointHolds ==
  ASSUME IInv PROVE MidpointIsExact
<1> SUFFICES ASSUME phase = "moment"
             PROVE  /\ 2 * answer - (min + max) * One \in - 2 * Ulp(answer) .. 2 * Ulp(answer)
                    /\ ExactBounds => answer = Round((min + max) * One, 2)
  BY DEF MidpointIsExact
<1> DEFINE H == One \div 2
           w == max - min
           o == w % 2
           m == min + w \div 2
           T == m * One + o * H
<1>1. Valid /\ answer = Midpoint
  BY AcceptedIsValid DEF IInv
<1>2. /\ min \in Int /\ max \in Int /\ min <= max /\ w <= 2 ^ (IntBits - 1) - 1
      /\ - (2 ^ (IntBits - 1)) <= min /\ max < 2 ^ (IntBits - 1) /\ 2 ^ (IntBits - 1) \in Nat \ {0}
  BY <1>1, RangeFacts DEF Valid
<1>3. o \in {0, 1} /\ w = 2 * (w \div 2) + o /\ m \in Int /\ min <= m /\ m <= max /\ w \in Int
  BY <1>2
<1>4. Wrap(w) = w /\ Wrap(m) = m
  <2> HIDE DEF w, m
  <2>1. w \in Int /\ - (2 ^ (IntBits - 1)) <= w /\ w < 2 ^ (IntBits - 1)
    BY <1>2, <1>3 DEF w
  <2>2. m \in Int /\ - (2 ^ (IntBits - 1)) <= m /\ m < 2 ^ (IntBits - 1)
    BY <1>2, <1>3
  <2> QED BY <2>1, <2>2, WrapKeeps
<1>5. H \in Nat \ {0} /\ One = 2 * H /\ o * H \in {0, H} /\ H < Infinity
  BY <1>3, HalfOfOne, RangeFacts, FormatFacts
<1>6. answer = Round(AsFloat(m) + o * H, 1) /\ AsFloat(m) \in Int
  <2>1. Midpoint = Plus(AsFloat(m), o * H)
    BY <1>4 DEF Midpoint
  <2> HIDE DEF w, m, o, H
  <2>2. AsFloat(m) \in Int /\ AsFloat(m) # Infinity
    <3>1. m <= 2 ^ (IntBits - 1) /\ 1 <= 2 ^ (IntBits - 1)
      BY <1>2, <1>3
    <3>2. AsFloat(m) <= AsFloat(2 ^ (IntBits - 1)) /\ AsFloat(2 ^ (IntBits - 1)) < Infinity
          /\ AsFloat(2 ^ (IntBits - 1)) \in Nat
      BY <1>2, <1>3, <3>1, AsFloatClimbs, CountIsFloat
    <3> QED BY <1>3, <3>2, AsFloatFacts, FormatFacts
  <2>3. o * H # Infinity
    BY <1>5, FormatFacts
  <2> QED BY <1>1, <2>1, <2>2, <2>3 DEF Plus
<1>7. (min + max) * One = 2 * T /\ T \in Int
  <2>1. min + max = 2 * m + o
    BY <1>2, <1>3
  <2>2. (2 * m + o) * (2 * H) = 2 * (m * (2 * H) + o * H) /\ m * (2 * H) + o * H \in Int
    <3> HIDE DEF m, o, H
    <3> QED BY <1>3, <1>5
  <2> QED BY <1>5, <2>1, <2>2
<1> HIDE DEF w, o, m, H, T
<1>8. ExactBounds => answer = Round((min + max) * One, 2)
  <2> HAVE ExactBounds
  <2>1. - (2 ^ Precision) <= m /\ m <= 2 ^ Precision
    BY <1>1, <1>2, <1>3, ExactCasts, FormatFacts
  <2>2. AsFloat(m) = m * One
    BY <1>3, <2>1, SmallWholes
  <2>3. answer = Round(T, 1)
    BY <1>6, <2>2 DEF T
  <2> QED BY <1>7, <2>3, RoundOfDouble
<1>9. /\ answer - T \in - Ulp(answer) .. Ulp(answer) /\ answer \in Int /\ Ulp(answer) \in Nat
  <2>1. CASE m >= 0
    <3> DEFINE a == Nearest(m * One, 1)
               b == Nearest(a + o * H, 1)
    <3>1. m \in Nat /\ m * One \in Nat /\ m <= 2 ^ (IntBits - 1)
      BY <1>2, <1>3, <2>1, FormatFacts
    <3>2. /\ a + o * H \in Nat /\ b \in Nat /\ Spacing(b, 1) \in Nat
          /\ b - T \in - Spacing(b, 1) .. Spacing(b, 1)
      <4>1. o * H \in {- (One \div 2), 0, One \div 2} /\ m * One + o * H >= 0
        BY <1>5, <3>1 DEF H
      <4> QED BY <3>1, <4>1, HalfStep DEF T
    <3>3. AsFloat(m) = a
      BY <3>1, RoundIsSigned DEF AsFloat
    <3>4. answer = b
      BY <1>6, <3>2, <3>3, RoundIsSigned
    <3> HIDE DEF b
    <3> QED BY <3>2, <3>4, UlpOfNearest
  <2>2. CASE m < 0
    <3> DEFINE M == - m
               s == - (o * H)
               a == Nearest(M * One, 1)
               b == Nearest(a + s, 1)
    <3>1. M \in Nat /\ M * One \in Nat /\ M <= 2 ^ (IntBits - 1) /\ M * One = - (m * One) /\ m * One < 0
          /\ One <= M * One
      BY <1>2, <1>3, <2>2, FormatFacts
    <3>2. /\ a + s \in Nat /\ b \in Nat /\ Spacing(b, 1) \in Nat
          /\ b - (M * One + s) \in - Spacing(b, 1) .. Spacing(b, 1)
      <4>1. s \in {- (One \div 2), 0, One \div 2} /\ M * One + s >= 0
        BY <1>5, <3>1 DEF H
      <4> HIDE DEF M, s
      <4> QED BY <3>1, <4>1, HalfStep
    <3>3. AsFloat(m) = - a
      <4>1. m * One \in Int /\ m * One < 0 /\ 1 \in Nat \ {0} /\ - (m * One) = M * One
        <5> HIDE DEF M
        <5> QED BY <1>3, <3>1, FormatFacts
      <4>2. Round(m * One, 1) = - Nearest(- (m * One), 1)
        BY <4>1, RoundCases
      <4> HIDE DEF M
      <4> QED BY <4>1, <4>2 DEF AsFloat
    <3>4. a \in Nat /\ s \in Int /\ - a + o * H = - (a + s)
      <4>1. a \in Nat
        <5> HIDE DEF M
        <5> QED BY <3>1, NearestIsNat
      <4>2. o * H \in Int
        BY <1>5
      <4> HIDE DEF a, M
      <4> QED BY <4>1, <4>2
    <3>5. answer = - b
      <4>1. answer = Round(- (a + s), 1)
        BY <1>6, <3>3, <3>4
      <4>2. Round(a + s, 1) = b
        BY <3>2, RoundIsSigned
      <4> QED BY <3>2, <4>1, <4>2, RoundOfNegative
    <3>6. T = - (M * One + s)
      BY <1>3, <1>5, <3>1 DEF T
    <3>7. Ulp(answer) = Spacing(b, 1)
      <4> HIDE DEF b
      <4> QED BY <3>2, <3>5, UlpOfNearest
    <3>8. M * One + s \in Int
      BY <3>1, <3>4
    <3> HIDE DEF b, M, s
    <3> QED BY <3>2, <3>5, <3>6, <3>7, <3>8
  <2> QED BY <1>3, <2>1, <2>2
<1> QED BY <1>7, <1>8, <1>9

-----------------------------------------------------------------------------
(***************************************************************************)
(* Supports narrower than the significands.  Every whole number the        *)
(* inverses form is exact there; what is rounded is a product, a quotient  *)
(* and, in a probability, the reciprocal too.                              *)
(***************************************************************************)
Count == max - min + 1

\* The support's bounds and its count have floats of their own.
LEMMA NarrowFacts ==
  ASSUME Valid, Narrow
  PROVE  /\ Count \in Nat \ {0} /\ Count <= 2 ^ (Precision - 1) /\ n = Count * One /\ n \in Nat \ {0}
         /\ n < Infinity /\ One < Infinity /\ Infinity \in Nat /\ One \in Nat \ {0}
         /\ Lo = min * One /\ Hi = max * One /\ min \in Int /\ max \in Int
         /\ - (2 ^ Precision) < min /\ max < 2 ^ Precision
         /\ 2 ^ (Precision - 1) \in Nat \ {0} /\ 2 ^ Precision = 2 * 2 ^ (Precision - 1)
<1>1. Count \in Nat \ {0} /\ Count <= 2 ^ (Precision - 1) /\ ExactBounds /\ min \in Int /\ max \in Int
  BY DEF Count, Narrow, Valid
<1>2. /\ 2 ^ (Precision - 1) \in Nat \ {0} /\ 2 ^ Precision = 2 * 2 ^ (Precision - 1)
      /\ One \in Nat \ {0} /\ Infinity \in Nat
  BY FormatFacts
<1>3. - (2 ^ Precision) <= Count /\ Count <= 2 ^ Precision /\ Count \in Int
  BY <1>1, <1>2
<1>4. n = Count * One
  BY <1>3, SmallWholes DEF n, Count
<1> QED BY <1>1, <1>2, <1>4, ExactCasts, ValidCount, RangeFacts

\* Whole numbers add and subtract exactly inside the significands.
LEMMA WholesAreExact ==
  ASSUME NEW i \in Int, NEW j \in Int, i <= 2 ^ Precision, j <= 2 ^ Precision
  PROVE  /\ - (2 ^ Precision) <= i + j /\ i + j <= 2 ^ Precision => Plus(i * One, j * One) = (i + j) * One
         /\ - (2 ^ Precision) <= i - j /\ i - j <= 2 ^ Precision => Minus(i * One, j * One) = (i - j) * One
<1>1. \A k \in Int : k <= 2 ^ Precision => k * One # Infinity
  <2> TAKE k \in Int
  <2> HAVE k <= 2 ^ Precision
  <2>1. k <= 2 ^ (IntBits - 1) /\ 2 ^ (IntBits - 1) \in Int /\ One \in Nat
    BY RangeFacts, FormatFacts
  <2>2. k * One <= 2 ^ (IntBits - 1) * One /\ k * One \in Int /\ 2 ^ (IntBits - 1) * One \in Int
    BY <2>1, Products
  <2>3. 2 ^ IntBits * One = 2 * (2 ^ (IntBits - 1) * One) /\ 0 <= 2 ^ (IntBits - 1) * One
    BY RangeFacts, FormatFacts
  <2> QED BY <2>2, <2>3, RangeFacts, FormatFacts
<1>2. i * One + j * One = (i + j) * One /\ i * One - j * One = (i - j) * One /\ i + j \in Int /\ i - j \in Int
  BY FormatFacts
<1>3. Plus(i * One, j * One) = AsFloat(i + j) /\ Minus(i * One, j * One) = AsFloat(i - j)
  BY <1>1, <1>2 DEF Plus, Minus, AsFloat
<1> QED BY <1>2, <1>3, SmallWholes

\* The exponents of a half, and of the floats below 1.
LEMMA NarrowExponents ==
  /\ FractionBits - 1 \in 0 .. MaxExponent /\ FractionBits - Precision \in 0 .. MaxExponent
  /\ 2 ^ (FractionBits - 1) \in Nat \ {0} /\ 2 ^ (FractionBits - Precision) \in Nat \ {0}
  /\ 2 * 2 ^ (FractionBits - 1) = One
  /\ 2 ^ Precision * 2 ^ (FractionBits - Precision) = One
  /\ 2 * (2 ^ (Precision - 1) * 2 ^ (FractionBits - Precision)) = One
  /\ 2 ^ Precision * 2 ^ (FractionBits - 1) = 2 ^ (Precision - 1) * One
  /\ 2 ^ (Precision - 1) * 2 ^ (Precision - 1) <= One
<1>1. /\ FractionBits - 1 \in 0 .. MaxExponent /\ FractionBits - Precision \in 0 .. MaxExponent
      /\ FractionBits - 1 \in Nat /\ FractionBits - Precision \in Nat
      /\ (FractionBits - 1) + 1 = FractionBits /\ Precision + (FractionBits - Precision) = FractionBits
      /\ Precision \in Nat /\ Precision - 1 \in Nat
      /\ (Precision - 1) + (Precision - 1) <= FractionBits /\ (Precision - 1) + (Precision - 1) \in Nat
      /\ FractionBits \in Nat
  BY WidthFacts
<1>2. /\ 2 ^ (FractionBits - 1) \in Nat \ {0} /\ 2 ^ (FractionBits - Precision) \in Nat \ {0}
      /\ 2 ^ (Precision - 1) \in Nat \ {0} /\ 2 ^ Precision = 2 * 2 ^ (Precision - 1)
  BY <1>1, PowerIsPositive, FormatFacts
<1>3. 2 * 2 ^ (FractionBits - 1) = One
  BY <1>1, PowerStep DEF One
<1>4. 2 ^ Precision * 2 ^ (FractionBits - Precision) = One
  <2>1. 2 ^ (Precision + (FractionBits - Precision)) = 2 ^ Precision * 2 ^ (FractionBits - Precision)
    BY <1>1, PowerSum
  <2> QED BY <1>1, <2>1 DEF One
<1>5. 2 * (2 ^ (Precision - 1) * 2 ^ (FractionBits - Precision)) = One
  BY <1>2, <1>4
<1>6. 2 ^ Precision * 2 ^ (FractionBits - 1) = 2 ^ (Precision - 1) * One
  BY <1>2, <1>3
<1>7. 2 ^ ((Precision - 1) + (Precision - 1)) = 2 ^ (Precision - 1) * 2 ^ (Precision - 1)
  BY <1>1, PowerSum
<1>8. 2 ^ ((Precision - 1) + (Precision - 1)) <= One
  BY <1>1, PowerUpTo DEF One
<1> QED BY <1>1, <1>2, <1>3, <1>4, <1>5, <1>6, <1>7, <1>8

\* The cdf's step at the k-th point, correctly rounded: what the inverses compare with.
Edge(k) == Round(k * One, Count)

\* A quotient of the inverses is a rounded step, in order and a quarter of a point from its own.
LEMMA EdgeFacts ==
  ASSUME Valid, Narrow, NEW k \in Nat
  PROVE  /\ Over(k * One, n) = Edge(k) /\ Edge(k) \in Nat /\ Edge(0) = 0
         /\ \A j \in Nat : j <= k => Edge(j) <= Edge(k)
         /\ \A x \in Signed : /\ k * One <= x * Count => Edge(k) <= x
                              /\ x * Count <= k * One => x <= Edge(k)
         /\ k = Count => Edge(k) = One
         /\ k <= Count => Edge(k) <= One /\ 4 * (Edge(k) * Count) - 4 * (k * One) \in - One .. One
<1>1. /\ Count \in Nat \ {0} /\ Count <= 2 ^ (Precision - 1) /\ n = Count * One /\ One \in Nat \ {0}
      /\ 2 ^ (Precision - 1) \in Nat \ {0}
  BY NarrowFacts
<1>2. Over(k * One, n) = Edge(k)
  BY <1>1, RoundScales DEF Over, Edge
<1>3. \A j \in Nat : Edge(j) \in Nat /\ Edge(j) = Nearest(j * One, Count)
  <2> TAKE j \in Nat
  <2>1. j * One \in Int /\ j * One >= 0
    BY <1>1
  <2>2. Round(j * One, Count) = Nearest(j * One, Count) /\ Round(j * One, Count) \in Int /\ Round(j * One, Count) >= 0
    BY <1>1, <2>1, RoundIsSigned
  <2> QED BY <2>2 DEF Edge
<1>4. \A j \in Nat : j <= k => Edge(j) <= Edge(k)
  <2> TAKE j \in Nat
  <2> HAVE j <= k
  <2>1. j * One <= k * One /\ j * One \in Int /\ k * One \in Int
    BY <1>1, Products
  <2> QED BY <1>1, <2>1, RoundClimbs DEF Edge
<1>5. \A x \in Signed : (k * One <= x * Count => Edge(k) <= x) /\ (x * Count <= k * One => x <= Edge(k))
  <2>1. k * One \in Int
    BY <1>1
  <2> QED BY <1>1, <2>1, RoundKeepsGrid DEF Edge
<1>6. One \in Signed /\ 0 \in Signed
  BY <1>1, RangeFacts, GridZero DEF Signed
<1>7. Edge(0) = 0 /\ (k = Count => Edge(k) = One)
  <2>1. 0 * One = 0 * Count /\ One * Count = Count * One
    BY <1>1
  <2> QED BY <1>1, <1>6, <2>1, RoundFixes DEF Edge
<1>8. ASSUME k < Count
      PROVE  Edge(k) <= One /\ 4 * (Edge(k) * Count) - 4 * (k * One) \in - One .. One
  <2> DEFINE u == 2 ^ (FractionBits - Precision)
             v == Nearest(k * One, Count)
  <2>1. k * One < Count * One /\ k * One \in Nat /\ Count * One \in Nat
    <3>1. One * k < One * Count
      BY <1>1, <1>8, Products
    <3> QED BY <1>1, <3>1
  <2>2. /\ FractionBits - Precision \in 0 .. MaxExponent /\ u \in Nat \ {0} /\ 2 ^ Precision * u = One
        /\ 2 * (2 ^ (Precision - 1) * u) = One
    BY NarrowExponents
  <2>3. 2 * v * Count - 2 * (k * One) \in - (Count * u) .. Count * u
    BY <1>1, <2>1, <2>2, ErrorUpTo
  <2>4. Count * u <= 2 ^ (Precision - 1) * u /\ Count * u \in Nat /\ 2 ^ (Precision - 1) * u \in Nat
    BY <1>1, <2>2, Products
  <2>5. Edge(k) = v /\ v \in Nat
    BY <1>3
  <2> HIDE DEF u, v
  <2>6. 4 * (v * Count) - 4 * (k * One) \in - One .. One
    <3>1. 2 * v * Count = 2 * (v * Count) /\ v * Count \in Nat
      BY <1>1, <2>5
    <3> QED BY <1>1, <2>1, <2>2, <2>3, <2>4, <3>1
  <2>7. Edge(k) <= One
    <3>1. One * Count = Count * One
      BY <1>1
    <3> QED BY <1>5, <1>6, <2>1, <3>1
  <2> QED BY <2>5, <2>6, <2>7
<1>9. CASE k = Count
  <2>1. 4 * (One * Count) - 4 * (Count * One) = 0 /\ 0 \in - One .. One /\ One <= One
    BY <1>1
  <2> QED BY <1>2, <1>3, <1>4, <1>5, <1>7, <1>9, <2>1
<1> QED BY <1>1, <1>2, <1>3, <1>4, <1>5, <1>7, <1>8, <1>9

\* The units of a whole number's rounding cancel.
LEMMA RoundOverOne ==
  ASSUME NEW z \in Int
  PROVE  Round(z * One, 1 * One) = Round(z, 1)
<1>1. One \in Nat \ {0} /\ 1 \in Nat \ {0}
  BY FormatFacts
<1> QED BY <1>1, RoundScales

\* A quantile times the count is a quarter of a point off at most, and on its side of every whole number.
LEMMA ScaledIsClose ==
  ASSUME Valid, Narrow, NEW x \in Nat, x <= One
  PROVE  /\ Times(x, n) \in Nat /\ x * Count \in Nat
         /\ 4 * Times(x, n) - 4 * (x * Count) \in - One .. One
         /\ \A j \in 0 .. Count : /\ j * One <= x * Count => j * One <= Times(x, n)
                                  /\ x * Count <= j * One => Times(x, n) <= j * One
<1>1. /\ Count \in Nat \ {0} /\ Count <= 2 ^ (Precision - 1) /\ n = Count * One /\ n \in Nat /\ One \in Nat \ {0}
      /\ n < Infinity /\ One < Infinity /\ Infinity \in Nat
      /\ 2 ^ (Precision - 1) \in Nat \ {0} /\ 2 ^ Precision = 2 * 2 ^ (Precision - 1)
  BY NarrowFacts
<1>2. x * Count \in Nat /\ x * n = (x * Count) * One /\ One = 1 * One /\ 1 \in Nat \ {0}
  BY <1>1
<1>3. Times(x, n) = Round(x * Count, 1)
  <2>1. Times(x, n) = Round(x * n, One)
    BY <1>1 DEF Times
  <2>2. Round((x * Count) * One, 1 * One) = Round(x * Count, 1)
    BY <1>2, RoundOverOne
  <2> QED BY <1>2, <2>1, <2>2
<1>4. Times(x, n) \in Nat /\ Times(x, n) = Nearest(x * Count, 1)
  <2>1. x * Count \in Int /\ x * Count >= 0
    BY <1>2
  <2>2. /\ Round(x * Count, 1) = Nearest(x * Count, 1) /\ Round(x * Count, 1) \in Int
        /\ Round(x * Count, 1) >= 0
    BY <1>2, <2>1, RoundIsSigned
  <2> QED BY <1>3, <2>2
<1>5. \A j \in 0 .. Count : /\ j * One <= x * Count => j * One <= Times(x, n)
                            /\ x * Count <= j * One => Times(x, n) <= j * One
  <2> TAKE j \in 0 .. Count
  <2>1. j \in Int /\ - (2 ^ Precision) <= j /\ j <= 2 ^ Precision
    BY <1>1
  <2>2. j * One \in Signed /\ (j * One) * 1 = j * One
    BY <1>1, <2>1, SmallWholes
  <2> QED BY <1>2, <1>3, <2>2, RoundKeepsGrid
<1>6. 4 * Times(x, n) - 4 * (x * Count) \in - One .. One
  <2>1. CASE x = One
    <3>1. Count \in 0 .. Count /\ Count * One <= x * Count /\ x * Count <= Count * One
      BY <1>1, <2>1
    <3>2. Count * One <= Times(x, n) /\ Times(x, n) <= Count * One
      BY <1>5, <3>1
    <3>3. 4 * Times(x, n) - 4 * (x * Count) = 0
      BY <1>1, <1>2, <1>4, <3>1, <3>2
    <3> QED BY <1>1, <3>3
  <2>2. CASE x < One
    <3> DEFINE h == 2 ^ (FractionBits - 1)
               v == Nearest(x * Count, 1)
    <3>1. /\ FractionBits - 1 \in 0 .. MaxExponent /\ h \in Nat \ {0} /\ 2 * h = One
          /\ 2 ^ Precision * h = 2 ^ (Precision - 1) * One
      BY NarrowExponents
    <3>2. x * Count < 2 ^ (Precision - 1) * One
      <4>1. Count * x < Count * One /\ Count * One <= 2 ^ (Precision - 1) * One
        BY <1>1, <2>2, Products
      <4>2. Count * x = x * Count /\ Count * One \in Nat /\ 2 ^ (Precision - 1) * One \in Nat
        BY <1>1
      <4> QED BY <1>2, <4>1, <4>2
    <3>3. x * Count < 1 * (2 ^ Precision * h)
      BY <1>1, <3>1, <3>2
    <3>4. 2 * v * 1 - 2 * (x * Count) \in - (1 * h) .. 1 * h
      BY <1>2, <3>1, <3>3, ErrorUpTo
    <3>5. v = Times(x, n)
      BY <1>4
    <3> HIDE DEF h, v
    <3> QED BY <1>1, <1>2, <1>4, <3>1, <3>4, <3>5
  <2> QED BY <1>1, <2>1, <2>2
<1> QED BY <1>2, <1>4, <1>5, <1>6

\* A probability inside the support is less than three quarters of a point from its step, although
\* the reciprocal and the product are both rounded.
LEMMA MassIsClose ==
  ASSUME Valid, Narrow, NEW i \in 1 .. Count - 1
  PROVE  /\ Mass(i * One) \in Nat /\ Mass(i * One) <= One /\ Mass(i * One) * Count \in Nat
         /\ 4 * (Mass(i * One) * Count) < 4 * (i * One) + 3 * One
         /\ 4 * (i * One) < 4 * (Mass(i * One) * Count) + 3 * One
<1> DEFINE r == Over(One, n)
           half == 2 ^ (Precision - 1)
           S == Spacing(One, Count)
           W == Count * S
           Y == i * r
           u == 2 ^ (FractionBits - Precision)
<1>1. /\ Count \in Nat \ {0} /\ Count <= half /\ n = Count * One /\ n \in Nat \ {0} /\ One \in Nat \ {0}
      /\ n < Infinity /\ One < Infinity /\ Infinity \in Nat
      /\ half \in Nat \ {0} /\ 2 ^ Precision = 2 * half
  BY NarrowFacts
<1>2. i \in Nat \ {0} /\ i + 1 <= Count /\ i <= Count /\ i + 1 <= half
  BY <1>1
<1>3. r = Nearest(One, Count) /\ r \in Nat /\ r <= One
  <2>1. 1 \in Nat /\ 1 * One = One /\ 1 <= Count
    BY <1>1
  <2>2. Over(1 * One, n) = Edge(1) /\ Edge(1) \in Nat /\ Edge(1) <= One
    BY <2>1, EdgeFacts
  <2>3. Round(One, Count) = Nearest(One, Count)
    <3>1. One \in Int /\ One >= 0
      BY <1>1
    <3> QED BY <1>1, <3>1, RoundIsSigned
  <2> QED BY <2>1, <2>2, <2>3 DEF Edge
<1>4. S \in Nat \ {0} /\ Count * (half * S) <= One
  <2>1. PICK e \in 0 .. MaxExponent + 1 :
           /\ S = 2 ^ e
           /\ e = 0 \/ Count * (half * 2 ^ e) <= One
    BY <1>1, NearestFacts, Zenon
  <2>2. S \in Nat \ {0} /\ (e = 0 => S = 1)
    <3>1. e \in Nat /\ 2 ^ 0 = 1
      BY <2>1, FormatFacts
    <3> QED BY <2>1, <3>1, PowerIsPositive
  <2>3. CASE e = 0
    <3>1. Count * half <= half * half /\ half * half <= One /\ Count * half \in Nat /\ half * half \in Nat
      BY <1>1, NarrowExponents, Products
    <3>2. half * S = half
      BY <1>1, <2>2, <2>3
    <3> QED BY <1>1, <2>2, <3>1, <3>2
  <2>4. CASE e # 0
    BY <2>1, <2>2, <2>4
  <2> QED BY <2>3, <2>4
<1>5. 2 * r * Count - 2 * One \in - W .. W
  <2>1. One < Count * Infinity
    <3>1. 1 * Infinity <= Count * Infinity /\ Count * Infinity \in Nat
      BY <1>1, Products
    <3> QED BY <1>1, <3>1
  <2> QED BY <1>1, <1>3, <2>1, NearestError
<1>6. W \in Nat \ {0} /\ half * W <= One /\ half * W \in Nat
  <2>1. half * (Count * S) = Count * (half * S)
    BY <1>1, <1>4
  <2>2. Count * S \in Nat \ {0}
    BY <1>1, <1>4
  <2> HIDE DEF S, half
  <2>3. half * (Count * S) \in Nat
    BY <1>1, <2>2
  <2> QED BY <1>4, <2>1, <2>2, <2>3
<1> HIDE DEF r, half, S, W
<1>7. Y \in Nat /\ Y * Count \in Nat /\ r * Count \in Nat /\ i * One \in Nat
  <2>1. Y \in Nat
    BY <1>2, <1>3
  <2> HIDE DEF Y
  <2> QED BY <1>1, <1>2, <1>3, <2>1
<1>8. 2 * (Y * Count) < 2 * (i * One) + One /\ 2 * (i * One) < 2 * (Y * Count) + One
  <2> DEFINE d == 2 * r * Count - 2 * One
  <2>1. d \in Int /\ - W <= d /\ d <= W
    BY <1>1, <1>3, <1>5, <1>6
  <2>2. i * d = 2 * (Y * Count) - 2 * (i * One)
    BY <1>1, <1>2, <1>3
  <2> HIDE DEF d
  <2>3. i * (- W) <= i * d /\ i * d <= i * W /\ i * (- W) = - (i * W) /\ i * W \in Nat /\ i * d \in Int
    BY <1>2, <1>6, <2>1, Products
  <2>4. (i + 1) * W <= half * W /\ (i + 1) * W = i * W + W
    BY <1>1, <1>2, <1>6, Products
  <2>5. i * W < One
    BY <1>1, <1>6, <2>3, <2>4
  <2> HIDE DEF Y
  <2> QED BY <1>1, <1>7, <2>2, <2>3, <2>5
<1>9. Y < One
  <2>1. (i + 1) * One <= Count * One /\ (i + 1) * One = i * One + One /\ Count * One \in Nat
    BY <1>1, <1>2, Products
  <2> HIDE DEF Y
  <2>2. Y * Count < Count * One
    BY <1>1, <1>7, <1>8, <2>1
  <2>3. One <= Y => Count * One <= Count * Y
    BY <1>1, <1>7, Products
  <2>4. Count * Y = Y * Count
    BY <1>1, <1>7
  <2> QED BY <1>1, <1>7, <2>1, <2>2, <2>3, <2>4
<1>10. Mass(i * One) = Round(Y, 1)
  <2>1. i * One <= Count * One /\ i * One # Infinity /\ r # Infinity
    <3>1. i * One <= Count * One
      BY <1>1, <1>2, Products
    <3> QED BY <1>1, <1>3, <1>7, <3>1
  <2>2. Mass(i * One) = Round((i * One) * r, One)
    BY <2>1 DEF Mass, Times, r
  <2>3. (i * One) * r = Y * One /\ One = 1 * One /\ 1 \in Nat \ {0}
    BY <1>1, <1>2, <1>3
  <2> HIDE DEF Y
  <2>4. Round(Y * One, 1 * One) = Round(Y, 1)
    BY <1>7, RoundOverOne
  <2> QED BY <2>2, <2>3, <2>4
<1> HIDE DEF Y
<1>11. Round(Y, 1) = Nearest(Y, 1) /\ Round(Y, 1) \in Nat /\ 1 \in Nat \ {0}
  <2>1. Y \in Int /\ Y >= 0 /\ 1 \in Nat \ {0}
    BY <1>7
  <2>2. Round(Y, 1) = Nearest(Y, 1) /\ Round(Y, 1) \in Int /\ Round(Y, 1) >= 0
    BY <2>1, RoundIsSigned
  <2> QED BY <2>1, <2>2
<1>12. /\ FractionBits - Precision \in 0 .. MaxExponent /\ u \in Nat \ {0} /\ 2 ^ Precision * u = One
       /\ 2 * (half * u) = One
  BY NarrowExponents DEF half
<1>13. 2 * Nearest(Y, 1) * 1 - 2 * Y \in - (1 * u) .. 1 * u
  <2>1. Y < 1 * (2 ^ Precision * u)
    BY <1>1, <1>9, <1>12
  <2> QED BY <1>7, <1>11, <1>12, <2>1, ErrorUpTo
<1> DEFINE Q == Round(Y, 1)
<1>14. Q \in Nat /\ 2 * Q - 2 * Y \in - u .. u
  BY <1>7, <1>11, <1>12, <1>13
<1> HIDE DEF u, Q
<1>15. 4 * (Q * Count) - 4 * (Y * Count) \in - One .. One /\ Q * Count \in Nat
  <2> DEFINE d == 2 * Q - 2 * Y
  <2>1. d \in Int /\ - u <= d /\ d <= u
    BY <1>7, <1>12, <1>14
  <2>2. Count * d = 2 * (Q * Count) - 2 * (Y * Count) /\ Q * Count \in Nat
    BY <1>1, <1>7, <1>14
  <2> HIDE DEF d
  <2>3. Count * (- u) <= Count * d /\ Count * d <= Count * u /\ Count * (- u) = - (Count * u)
    BY <1>1, <1>12, <2>1, Products
  <2>4. Count * u <= half * u /\ Count * u \in Nat /\ half * u \in Nat /\ Count * d \in Int
    BY <1>1, <1>12, <2>1, Products
  <2> QED BY <1>1, <1>7, <1>12, <2>2, <2>3, <2>4
<1>16. Q <= One
  <2>1. One \in Signed /\ Y <= One * 1 /\ Y \in Int /\ 1 \in Nat \ {0}
    BY <1>1, <1>7, <1>9, RangeFacts DEF Signed
  <2> QED BY <2>1, RoundKeepsGrid DEF Q
<1> QED BY <1>1, <1>7, <1>8, <1>10, <1>14, <1>15, <1>16 DEF Q

\* A whole number of steps, as far as the support and one step beyond it: exact in every part.
LEMMA NarrowWholes ==
  ASSUME Valid, Narrow, NEW i \in Int, NEW j \in Int
  PROVE  /\ i * One \in Int /\ (i * One = j * One => i = j) /\ (i * One <= j * One <=> i <= j)
         /\ Floor(i * One) = i * One
         /\ min <= i /\ i <= max => Clamp(i * One) = i * One
         /\ i < min => Clamp(i * One) = min * One
<1>1. /\ One \in Nat \ {0} /\ Lo = min * One /\ Hi = max * One /\ min \in Int /\ max \in Int /\ min <= max
      /\ Lo \in Int /\ Hi \in Int
  <2>1. One \in Nat \ {0} /\ Lo = min * One /\ Hi = max * One /\ min \in Int /\ max \in Int
    BY NarrowFacts
  <2> QED BY <2>1 DEF Valid
<1>2. \A a, b \in Int : a <= b <=> a * One <= b * One
  <2> TAKE a, b \in Int
  <2>1. a <= b => a * One <= b * One
    BY <1>1, Products
  <2>2. One * a <= One * b => a <= b
    BY <1>1, Products
  <2>3. One * a = a * One /\ One * b = b * One
    BY <1>1
  <2> QED BY <2>1, <2>2, <2>3
<1>3. i * One \in Int /\ (i * One = j * One => i = j) /\ (i * One <= j * One <=> i <= j)
  <2>1. i <= j <=> i * One <= j * One
    BY <1>2
  <2>2. j <= i <=> j * One <= i * One
    BY <1>2
  <2>3. i * One \in Int /\ j * One \in Int
    BY <1>1
  <2> QED BY <2>1, <2>2, <2>3
<1>4. Floor(i * One) = i * One
  <2>1. i * One <= i * One /\ i * One \in Int
    BY <1>3
  <2>2. Floor(i * One) <= i * One /\ i * One <= Floor(i * One) /\ Floor(i * One) \in Int
    BY <2>1, FloorFacts
  <2> QED BY <1>3, <2>2
<1>5. min <= i /\ i <= max => Lo <= i * One /\ i * One <= Hi
  <2>1. min <= i => min * One <= i * One
    BY <1>1, <1>2
  <2>2. i <= max => i * One <= max * One
    BY <1>1, <1>2
  <2> QED BY <1>1, <2>1, <2>2
<1>6. i < min => i * One <= Lo /\ Lo <= Hi
  <2>1. i < min => i * One <= min * One
    BY <1>1, <1>2
  <2>2. min * One <= max * One
    BY <1>1, <1>2
  <2> QED BY <1>1, <2>1, <2>2
<1> QED BY <1>1, <1>3, <1>4, <1>5, <1>6 DEF Clamp, Most, Least

\* Which support point ppf answers: the candidate, unless the step below it reaches the quantile.
LEMMA PpfIs ==
  ASSUME Valid, Narrow, NEW x \in Int, NEW c \in 1 .. Count, Ceil(Times(x, n)) = c * One
  PROVE  \E a \in 1 .. Count : /\ Ppf(x) = (min + a - 1) * One
                               /\ a = IF c >= 2 /\ Edge(c - 1) >= x THEN c - 1 ELSE c
<1> DEFINE b == IF c >= 2 THEN c - 1 ELSE 1
           a == IF c >= 2 /\ Edge(c - 1) >= x THEN c - 1 ELSE c
<1>1. /\ Count \in Nat \ {0} /\ Count <= 2 ^ (Precision - 1) /\ One \in Nat \ {0}
      /\ Lo = min * One /\ Hi = max * One /\ min \in Int /\ max \in Int
      /\ - (2 ^ Precision) < min /\ max < 2 ^ Precision /\ max = min + Count - 1
      /\ 2 ^ (Precision - 1) \in Nat \ {0} /\ 2 ^ Precision = 2 * 2 ^ (Precision - 1)
      /\ 1 * One = One
  BY NarrowFacts DEF Count
<1>2. c \in Int /\ 1 <= c /\ c <= Count /\ b \in Int /\ 1 <= b /\ b <= Count /\ a \in 1 .. Count
  BY <1>1
<1>3. Plus(Lo, Ceil(Times(x, n))) = (min + c) * One
  <2>1. min <= 2 ^ Precision /\ c <= 2 ^ Precision /\ - (2 ^ Precision) <= min + c /\ min + c <= 2 ^ Precision
    BY <1>1, <1>2
  <2> QED BY <1>1, <1>2, <2>1, WholesAreExact
<1>4. PpfCandidate(x) = (min + c - 1) * One
  <2>1. /\ min + c \in Int /\ 1 \in Int /\ min + c <= 2 ^ Precision /\ 1 <= 2 ^ Precision
        /\ - (2 ^ Precision) <= (min + c) - 1 /\ (min + c) - 1 <= 2 ^ Precision
    BY <1>1, <1>2
  <2>2. Minus((min + c) * One, 1 * One) = ((min + c) - 1) * One
    BY <2>1, WholesAreExact
  <2> QED BY <1>1, <1>3, <2>2 DEF PpfCandidate
<1>5. Minus(PpfCandidate(x), One) = (min + c - 2) * One
  <2>1. /\ min + c - 1 \in Int /\ 1 \in Int /\ min + c - 1 <= 2 ^ Precision /\ 1 <= 2 ^ Precision
        /\ - (2 ^ Precision) <= (min + c - 1) - 1 /\ (min + c - 1) - 1 <= 2 ^ Precision
        /\ (min + c - 1) - 1 = min + c - 2
    BY <1>1, <1>2
  <2>2. Minus((min + c - 1) * One, 1 * One) = ((min + c - 1) - 1) * One
    BY <2>1, WholesAreExact
  <2> QED BY <1>1, <1>4, <2>1, <2>2
<1>6. PpfBelowIt(x) = (min + b - 1) * One
  <2>1. CASE c >= 2
    <3>1. min + c - 2 \in Int /\ min <= min + c - 2 /\ min + c - 2 <= max /\ min + c - 2 = min + b - 1
      BY <1>1, <1>2, <2>1
    <3> QED BY <1>5, <3>1, NarrowWholes DEF PpfBelowIt
  <2>2. CASE ~ c >= 2
    <3>1. min + c - 2 \in Int /\ min + c - 2 < min /\ min = min + b - 1
      BY <1>1, <1>2, <2>2
    <3> QED BY <1>5, <3>1, NarrowWholes DEF PpfBelowIt
  <2> QED BY <2>1, <2>2
<1>7. CdfAt(PpfBelowIt(x)) = Edge(b)
  <2> HIDE DEF b
  <2> DEFINE i == min + b - 1
  <2>1. /\ i \in Int /\ i <= 2 ^ Precision /\ min <= 2 ^ Precision /\ i - min = b - 1
        /\ - (2 ^ Precision) <= b - 1 /\ b - 1 <= 2 ^ Precision /\ 1 <= 2 ^ Precision
        /\ (b - 1) + 1 = b /\ - (2 ^ Precision) <= b /\ b <= 2 ^ Precision /\ b - 1 \in Int /\ b \in Nat /\ 1 \in Int
    BY <1>1, <1>2
  <2> HIDE DEF i
  <2>2. Floor(i * One) = i * One
    BY <2>1, NarrowWholes
  <2>3. Minus(i * One, min * One) = (b - 1) * One
    <3>1. - (2 ^ Precision) <= i - min /\ i - min <= 2 ^ Precision
      BY <2>1
    <3>2. Minus(i * One, min * One) = (i - min) * One
      BY <1>1, <2>1, <3>1, WholesAreExact
    <3> QED BY <2>1, <3>2
  <2>4. Plus((b - 1) * One, 1 * One) = b * One
    <3>1. - (2 ^ Precision) <= (b - 1) + 1 /\ (b - 1) + 1 <= 2 ^ Precision
      BY <2>1
    <3>2. Plus((b - 1) * One, 1 * One) = ((b - 1) + 1) * One
      BY <2>1, <3>1, WholesAreExact
    <3> QED BY <2>1, <3>2
  <2>5. Over(b * One, n) = Edge(b)
    BY <2>1, EdgeFacts
  <2>6. PpfBelowIt(x) = i * One
    BY <1>6 DEF i
  <2> QED BY <1>1, <2>2, <2>3, <2>4, <2>5, <2>6 DEF CdfAt
<1>8. Ppf(x) = Clamp(IF Edge(b) >= x THEN PpfBelowIt(x) ELSE PpfCandidate(x))
  BY <1>7 DEF Ppf, PpfBelowIt, PpfCandidate, CdfAt
<1>9. (IF Edge(b) >= x THEN PpfBelowIt(x) ELSE PpfCandidate(x)) = (min + a - 1) * One
  <2>1. CASE c >= 2
    <3>1. b = c - 1
      BY <2>1
    <3>2. a = IF Edge(b) >= x THEN b ELSE c
      BY <2>1, <3>1
    <3> HIDE DEF a, b
    <3> QED BY <1>4, <1>6, <3>2
  <2>2. CASE ~ c >= 2
    <3>1. b = 1 /\ c = 1 /\ a = 1
      BY <1>2, <2>2
    <3> HIDE DEF a, b
    <3> QED BY <1>4, <1>6, <3>1
  <2> QED BY <2>1, <2>2
<1>10. Clamp((min + a - 1) * One) = (min + a - 1) * One
  <2> HIDE DEF a
  <2>1. min + a - 1 \in Int /\ min <= min + a - 1 /\ min + a - 1 <= max
    BY <1>1, <1>2
  <2> QED BY <2>1, NarrowWholes
<1>11. Ppf(x) = (min + a - 1) * One /\ a = IF c >= 2 /\ Edge(c - 1) >= x THEN c - 1 ELSE c
  BY <1>8, <1>9, <1>10
<1> HIDE DEF a
<1> QED BY <1>2, <1>11

\* Which support point isf answers, counted down from the top: the first of three tails that is at
\* most the quantile.
LEMMA IsfIs ==
  ASSUME Valid, Narrow, NEW x \in Nat, x < One, NEW f \in 0 .. Count, Floor(Times(x, n)) = f * One
  PROVE  \E s \in 0 .. Count - 1 :
           /\ Isf(x) = (max - s) * One
           /\ s = IF f < Count /\ Edge(f + 1) <= x THEN f + 1 ELSE IF Edge(f) <= x THEN f ELSE f - 1
<1> DEFINE s == IF f < Count /\ Edge(f + 1) <= x THEN f + 1 ELSE IF Edge(f) <= x THEN f ELSE f - 1
           C == IsfCandidate(x)
           D == Minus(C, One)
           Choice == IF SfAt(D) <= x THEN D ELSE IF SfAt(C) <= x THEN C ELSE Plus(C, One)
<1>1. /\ Count \in Nat \ {0} /\ Count <= 2 ^ (Precision - 1) /\ One \in Nat \ {0}
      /\ Lo = min * One /\ Hi = max * One /\ min \in Int /\ max \in Int
      /\ - (2 ^ Precision) < min /\ max < 2 ^ Precision /\ max = min + Count - 1
      /\ 2 ^ (Precision - 1) \in Nat \ {0} /\ 2 ^ Precision = 2 * 2 ^ (Precision - 1)
      /\ 1 * One = One
  BY NarrowFacts DEF Count
<1>2. f \in Nat /\ f <= Count
  BY <1>1
<1>3. Edge(0) = 0 /\ Edge(Count) = One /\ \A k \in Nat : Edge(k) \in Nat
  <2>1. \A k \in Nat : Edge(k) \in Nat /\ Edge(0) = 0 /\ (k = Count => Edge(k) = One)
    BY EdgeFacts
  <2> QED BY <1>1, <2>1
\* Points of the support, and one below, are exact, and so are their tails.
<1>4. \A i \in Nat : i <= Count =>
        /\ (max - i) * One \in Int /\ Minus(Hi, (max - i) * One) = i * One /\ SfAt((max - i) * One) = Edge(i)
  <2> TAKE i \in Nat
  <2> HAVE i <= Count
  <2>1. /\ max - i \in Int /\ max <= 2 ^ Precision /\ max - i <= 2 ^ Precision /\ max - (max - i) = i
        /\ - (2 ^ Precision) <= max - (max - i) /\ max - (max - i) <= 2 ^ Precision
    BY <1>1
  <2>2. Minus(max * One, (max - i) * One) = (max - (max - i)) * One
    BY <1>1, <2>1, WholesAreExact
  <2>3. Over(i * One, n) = Edge(i)
    BY EdgeFacts
  <2>4. (max - i) * One \in Int
    BY <1>1, <2>1
  <2> QED BY <1>1, <2>1, <2>2, <2>3, <2>4 DEF SfAt
<1>5. C = (max - f) * One
  <2>1. /\ max <= 2 ^ Precision /\ f <= 2 ^ Precision /\ f \in Int
        /\ - (2 ^ Precision) <= max - f /\ max - f <= 2 ^ Precision
    BY <1>1, <1>2
  <2> QED BY <1>1, <2>1, WholesAreExact DEF IsfCandidate
<1>6. SfAt(C) = Edge(f)
  BY <1>2, <1>4, <1>5
<1>7. Plus(C, One) = (max - (f - 1)) * One
  <2>1. /\ max - f \in Int /\ 1 \in Int /\ max - f <= 2 ^ Precision /\ 1 <= 2 ^ Precision
        /\ (max - f) + 1 = max - (f - 1)
    BY <1>1, <1>2
  <2>2. - (2 ^ Precision) <= (max - f) + 1 /\ (f >= 1 => (max - f) + 1 <= 2 ^ Precision)
    BY <1>1, <1>2
  <2>3. f = 0 => (max - f) + 1 <= 2 ^ Precision
    BY <1>1
  <2>4. Plus((max - f) * One, 1 * One) = ((max - f) + 1) * One
    BY <1>2, <2>1, <2>2, <2>3, WholesAreExact
  <2> QED BY <1>1, <1>5, <2>1, <2>4
<1>8. f < Count => D = (max - (f + 1)) * One /\ SfAt(D) = Edge(f + 1)
  <2> HAVE f < Count
  <2>1. /\ max - f \in Int /\ 1 \in Int /\ max - f <= 2 ^ Precision /\ 1 <= 2 ^ Precision
        /\ - (2 ^ Precision) <= (max - f) - 1 /\ (max - f) - 1 <= 2 ^ Precision
        /\ (max - f) - 1 = max - (f + 1) /\ f + 1 \in Nat /\ f + 1 <= Count
    BY <1>1, <1>2
  <2>2. Minus((max - f) * One, 1 * One) = ((max - f) - 1) * One
    BY <2>1, WholesAreExact
  <2>3. D = (max - (f + 1)) * One
    BY <1>1, <1>5, <2>1, <2>2
  <2> QED BY <1>4, <2>1, <2>3
\* At the bottom the point below may leave the significands, but its tail is no less than 1.
<1>9. f = Count => ~ SfAt(D) <= x
  <2> HAVE f = Count
  <2>1. Quantile(x) /\ x <= x
    BY <1>1 DEF Quantile
  <2>2. Whole(C) /\ C < Infinity
    BY <2>1, IsfCandidateFacts
  <2>3. Round(C - One, 1) <= C /\ Whole(Round(C - One, 1))
    <3> HIDE DEF C
    <3> QED BY <2>2, Neighbours
  <2>4. C \in Int /\ D = Round(C - One, 1)
    <3>1. C \in Int /\ C # Infinity
      BY <2>2, FormatFacts DEF Whole
    <3> QED BY <3>1 DEF Minus
  <2>5. D \in Int /\ D <= C
    BY <2>3, <2>4 DEF Whole
  <2> HIDE DEF C, D
  <2>6. SfAt(C) <= SfAt(D) /\ SfAt(D) \in Int
    <3>1. D <= D
      BY <2>5
    <3> QED BY <2>4, <2>5, <3>1, SfAtFalls
  <2> QED BY <1>1, <1>3, <1>6, <2>6
<1> HIDE DEF C, D
<1>10. s \in 0 .. Count - 1
  <2>1. f = 0 => Edge(f) <= x
    BY <1>3
  <2>2. f = Count => ~ Edge(f) <= x
    BY <1>1, <1>3
  <2>3. f + 1 = Count => ~ Edge(f + 1) <= x
    BY <1>1, <1>3
  <2> QED BY <1>1, <1>2, <2>1, <2>2, <2>3
<1>11. Choice = (max - s) * One
  <2>1. CASE f < Count
    <3> QED BY <1>5, <1>6, <1>7, <1>8, <2>1
  <2>2. CASE f = Count
    <3>1. ~ f < Count
      BY <1>1, <2>2
    <3> QED BY <1>5, <1>6, <1>7, <1>9, <2>2, <3>1
  <2> QED BY <1>1, <1>2, <2>1, <2>2
<1>12. Isf(x) = Clamp(Choice)
  BY DEF Isf, IsfCandidate, SfAt, C, D
<1>13. Clamp((max - s) * One) = (max - s) * One
  <2> HIDE DEF s
  <2>1. max - s \in Int /\ min <= max - s /\ max - s <= max
    BY <1>1, <1>10
  <2> QED BY <2>1, NarrowWholes
<1>14. Isf(x) = (max - s) * One
  BY <1>11, <1>12, <1>13
<1> QED BY <1>10, <1>14

\* A value of the grid as a multiple of the spacing at a value no higher.
LEMMA MultipleOfSpacing ==
  ASSUME NEW f \in Grid, NEW g \in Grid, f <= g
  PROVE  \E k \in Nat : g = k * Spacing(f, 1)
<1>1. f \in Nat /\ g \in Nat /\ 1 \in Nat \ {0}
  BY GridIsNat
<1>2. PICK e \in 0 .. MaxExponent + 1 : /\ Spacing(f, 1) = 2 ^ e
                                        /\ e = 0 \/ 1 * (2 ^ (Precision - 1) * 2 ^ e) <= f
  BY <1>1, NearestFacts, Zenon
<1>3. e \in Nat /\ 2 ^ e \in Nat /\ 2 ^ (Precision - 1) * 2 ^ e \in Nat
  <2>1. e \in Nat
    BY <1>2, FormatFacts
  <2> QED BY <2>1, PowerIsPositive, FormatFacts
<1>4. CASE e = 0
  <2>1. 2 ^ 0 = 1
    OBVIOUS
  <2>2. Spacing(f, 1) = 1 /\ g = g * 1
    BY <1>1, <1>2, <1>4, <2>1
  <2>3. g = g * Spacing(f, 1)
    BY <2>2
  <2> QED BY <1>1, <2>3
<1>5. CASE e # 0
  <2>1. 2 ^ (Precision - 1) * 2 ^ e <= g
    BY <1>1, <1>2, <1>3, <1>5
  <2>2. \E k \in Nat : g = k * 2 ^ e
    BY <1>3, <2>1, MultipleFrom
  <2> QED BY <1>2, <2>2
<1> QED BY <1>4, <1>5

\* A rounded step, its spacing, and how far the two are from the step itself.
LEMMA EdgeSpacing ==
  ASSUME Valid, Narrow, NEW k \in 1 .. Count
  PROVE  /\ Edge(k) \in Grid /\ Spacing(Edge(k), 1) \in Nat \ {0}
         /\ Edge(k) < 2 ^ Precision * Spacing(Edge(k), 1)
         /\ 2 * (Edge(k) * Count) - 2 * (k * One)
              \in - (Count * Spacing(Edge(k), 1)) .. Count * Spacing(Edge(k), 1)
<1> DEFINE E == Edge(k)
           v == Spacing(E, 1)
           half == 2 ^ (Precision - 1)
<1>1. /\ Count \in Nat \ {0} /\ One \in Nat \ {0} /\ One < Infinity /\ Infinity \in Nat /\ 1 \in Nat \ {0}
      /\ half \in Nat \ {0} /\ 2 ^ Precision = 2 * half
  BY NarrowFacts
<1>2. k \in Nat /\ k <= Count /\ k * One \in Nat /\ k * One < Count * Infinity
  <2>1. k \in Nat /\ k <= Count /\ k * One \in Nat
    BY <1>1
  <2>2. k * One <= Count * One /\ Count * One < Count * Infinity /\ Count * One \in Nat /\ Count * Infinity \in Nat
    BY <1>1, <2>1, Products
  <2> QED BY <1>1, <2>1, <2>2
<1>3. E = Nearest(k * One, Count) /\ E \in Nat /\ E <= One
  <2>1. Edge(k) \in Nat /\ Edge(k) <= One
    BY <1>2, EdgeFacts
  <2>2. k * One \in Int /\ k * One >= 0
    BY <1>2
  <2>3. Round(k * One, Count) = Nearest(k * One, Count)
    BY <1>1, <2>2, RoundIsSigned
  <2> QED BY <2>1, <2>3 DEF Edge
<1>4. E \in Grid
  BY <1>1, <1>2, <1>3, NearestInGrid
<1>5. PICK e \in 0 .. MaxExponent + 1, c \in Nat :
           /\ Spacing(k * One, Count) = 2 ^ e
           /\ Nearest(k * One, Count) = IF c * 2 ^ e < Infinity THEN c * 2 ^ e ELSE Infinity
           /\ e = 0 \/ half <= c
  BY <1>1, <1>2, NearestFacts, Zenon
<1>6. e \in Nat /\ 2 ^ e \in Nat \ {0} /\ c * 2 ^ e \in Nat
  <2>1. e \in Nat
    BY <1>5, FormatFacts
  <2> QED BY <1>5, <2>1, PowerIsPositive
<1>7. E = c * 2 ^ e
  BY <1>1, <1>3, <1>5, <1>6
<1>8. PICK d \in 0 .. MaxExponent + 1 :
           /\ v = 2 ^ d
           /\ d = MaxExponent + 1 \/ E < 1 * (2 ^ Precision * 2 ^ d)
           /\ d = 0 \/ 1 * (half * 2 ^ d) <= E
  BY <1>1, <1>3, NearestFacts, Zenon
<1>9. d \in Nat /\ v \in Nat \ {0}
  <2>1. d \in Nat
    BY <1>8, FormatFacts
  <2> QED BY <1>8, <2>1, PowerIsPositive
<1>10. 2 ^ e <= v
  <2>1. CASE e = 0
    <3>1. 2 ^ e = 1
      BY <2>1
    <3> QED BY <1>9, <3>1
  <2>2. CASE e # 0
    <3>1. half * 2 ^ e <= c * 2 ^ e
      BY <1>1, <1>5, <1>6, <2>2, Products
    <3> HIDE DEF E
    <3> QED BY <1>3, <1>5, <1>7, <3>1, SpacingFrom
  <2> QED BY <2>1, <2>2
<1>11. E < 2 ^ Precision * v
  <2>1. d # MaxExponent + 1
    <3> SUFFICES ASSUME d = MaxExponent + 1 PROVE FALSE
      OBVIOUS
    <3>1. 2 ^ d = 2 * 2 ^ MaxExponent /\ 2 ^ MaxExponent \in Nat 
          /\ Infinity = 2 ^ Precision * 2 ^ MaxExponent /\ d # 0
      <4>1. 2 ^ (MaxExponent + 1) = 2 * 2 ^ MaxExponent /\ 2 ^ MaxExponent \in Nat
        BY FormatFacts, PowerStep, PowerIsPositive
      <4> QED BY <4>1, FormatFacts, PowerSum DEF Infinity
    <3>2. half * 2 ^ d = Infinity
      BY <1>1, <3>1
    <3> HIDE DEF E
    <3> QED BY <1>1, <1>3, <1>8, <3>1, <3>2
  <2>2. 1 * (2 ^ Precision * v) = 2 ^ Precision * v
    BY <1>1, <1>9
  <2> QED BY <1>8, <2>1, <2>2
<1>12. 2 * (E * Count) - 2 * (k * One) \in - (Count * v) .. Count * v
  <2>1. 2 * E * Count - 2 * (k * One) \in - (Count * 2 ^ e) .. Count * 2 ^ e
    BY <1>1, <1>2, <1>3, <1>5, NearestError
  <2>2. Count * 2 ^ e <= Count * v /\ Count * 2 ^ e \in Nat /\ Count * v \in Nat
    BY <1>1, <1>6, <1>9, <1>10, Products
  <2>3. 2 * E * Count = 2 * (E * Count) /\ E * Count \in Nat
    BY <1>1, <1>3
  <2> HIDE DEF E, v
  <2> QED BY <1>2, <2>1, <2>2, <2>3
<1> QED BY <1>4, <1>9, <1>11, <1>12

\* A quantile two spacings past a rounded step does not come back to it when it is scaled.
LEMMA PastTheEdge ==
  ASSUME Valid, Narrow, NEW x \in Grid, x <= One, NEW k \in 1 .. Count,
         Edge(k) < x, x # Edge(k) + Ulp(Edge(k))
  PROVE  k * One < Times(x, n)
<1> DEFINE E == Edge(k)
           v == Spacing(E, 1)
           half == 2 ^ (Precision - 1)
           W == Count * v
           K == k * One
           Z == x * Count
<1>1. /\ Count \in Nat \ {0} /\ One \in Nat \ {0} /\ n = Count * One /\ n < Infinity /\ Infinity \in Nat
      /\ half \in Nat \ {0} /\ 2 ^ Precision = 2 * half /\ 1 \in Nat \ {0} /\ One < Infinity
  BY NarrowFacts
<1>2. /\ E \in Grid /\ v \in Nat \ {0} /\ E < 2 ^ Precision * v
      /\ 2 * (E * Count) - 2 * K \in - W .. W
  BY EdgeSpacing
<1>3. /\ E \in Nat /\ x \in Nat /\ k \in Nat /\ k <= Count
      /\ K \in Nat /\ W \in Nat \ {0} /\ Z \in Nat /\ E * Count \in Nat
  <2>1. E \in Nat /\ x \in Nat
    BY <1>2, GridIsNat
  <2>2. k \in Nat /\ k <= Count /\ k * One \in Nat /\ x * Count \in Nat /\ E * Count \in Nat
    BY <1>1, <2>1
  <2>3. Count * v \in Nat \ {0}
    BY <1>1, <1>2
  <2> QED BY <2>1, <2>2, <2>3
<1>4. Ulp(E) = v
  BY <1>3, UlpOfNearest
<1>5. E + 2 * v <= x
  <2>1. E <= E /\ E <= x
    BY <1>3
  <2>2. PICK i \in Nat, j \in Nat : E = i * v /\ x = j * v
    BY <1>2, <2>1, MultipleOfSpacing
  <2>3. i < j /\ j # i + 1
    <3>1. j <= i => j * v <= i * v
      BY <1>2, <2>2, Products
    <3>2. j = i + 1 => j * v = i * v + v
      BY <1>2, <2>2
    <3> HIDE DEF E, v
    <3> QED BY <1>3, <1>4, <2>2, <3>1, <3>2 DEF E
  <2>4. (i + 2) * v <= j * v /\ (i + 2) * v = i * v + 2 * v
    <3> HIDE DEF E, v
    <3> QED BY <1>2, <2>2, <2>3, Products
  <2> QED BY <2>2, <2>4
<1>6. 2 * K + 3 * W <= 2 * Z
  <2>1. Count * (E + 2 * v) <= Count * x
    <3> HIDE DEF E, v
    <3> QED BY <1>1, <1>2, <1>3, <1>5, Products
  <2>2. Count * (E + 2 * v) = E * Count + 2 * W /\ Count * x = Z
    <3> HIDE DEF E, v
    <3> QED BY <1>1, <1>2, <1>3
  <2> HIDE DEF E, v, W, Z, K
  <2> QED BY <1>2, <1>3, <2>1, <2>2
<1>7. Times(x, n) = Nearest(Z, 1) /\ Times(x, n) \in Nat
  <2>1. Times(x, n) = Round(x * n, One)
    BY <1>1, <1>3 DEF Times
  <2>2. x * n = Z * One /\ One = 1 * One
    BY <1>1, <1>3
  <2>3. Round(Z * One, 1 * One) = Round(Z, 1)
    BY <1>3, RoundOverOne
  <2>4. Z \in Int /\ Z >= 0
    BY <1>3
  <2> HIDE DEF Z
  <2>5. Round(Z, 1) = Nearest(Z, 1) /\ Round(Z, 1) \in Int /\ Round(Z, 1) >= 0
    BY <1>1, <2>4, RoundIsSigned
  <2> QED BY <2>1, <2>2, <2>3, <2>5
<1>8. Z < Infinity
  <2>1. Count * x <= Count * One /\ Count * x = Z
    BY <1>1, <1>3, Products
  <2> HIDE DEF Z
  <2> QED BY <1>1, <1>3, <2>1
<1> SUFFICES ASSUME Times(x, n) <= K PROVE FALSE
  BY <1>3, <1>7
<1> DEFINE T == Nearest(Z, 1)
           S == Spacing(T, 1)
<1>9. T \in Nat /\ T <= K
  BY <1>7
<1>10. S \in Nat \ {0} /\ 2 * Z <= 2 * T + S
  <2>1. /\ Spacing(Z, 1) \in Nat /\ Spacing(Z, 1) <= S /\ S \in Nat \ {0}
        /\ 2 * T - 2 * Z \in - Spacing(Z, 1) .. Spacing(Z, 1)
    <3> HIDE DEF Z
    <3> QED BY <1>3, <1>8, SpacingOfNearest
  <2> HIDE DEF Z, T, S
  <2> QED BY <1>3, <1>9, <2>1
<1>11. S = 1 \/ half * S <= T
  <2> HIDE DEF T
  <2>1. PICK d \in 0 .. MaxExponent + 1 : S = 2 ^ d /\ (d = 0 \/ 1 * (half * 2 ^ d) <= T)
    BY <1>1, <1>9, NearestFacts, Zenon
  <2>2. d = 0 => S = 1
    BY <2>1
  <2>3. 1 * (half * S) = half * S
    BY <1>1, <1>10
  <2> QED BY <2>1, <2>2, <2>3
<1> HIDE DEF T, S, Z
<1>12. 3 * W <= S
  <2> HIDE DEF W, K
  <2> QED BY <1>3, <1>6, <1>9, <1>10
<1>13. 2 * K < 4 * (half * W) + W
  <2>1. Count * E < Count * (2 ^ Precision * v)
    <3>1. 2 ^ Precision * v \in Int
      BY <1>1, <1>2
    <3> HIDE DEF E, v
    <3> QED BY <1>1, <1>2, <1>3, <3>1, Products
  <2>2. Count * (2 ^ Precision * v) = 2 * (half * W) /\ Count * E = E * Count /\ half * W \in Nat
    <3> HIDE DEF E, v
    <3> QED BY <1>1, <1>2, <1>3
  <2> HIDE DEF E, v, W, K
  <2> QED BY <1>2, <1>3, <2>1, <2>2
<1> HIDE DEF W, K
<1>14. /\ half * (3 * W) <= half * S /\ half * (3 * W) = 3 * (half * W) /\ W <= half * W
       /\ half * W \in Nat /\ half * S \in Nat
  <2>1. 3 * W \in Nat
    BY <1>3
  <2> QED BY <1>1, <1>3, <1>10, <1>12, <2>1, Products
<1> HIDE DEF half
<1> QED BY <1>3, <1>9, <1>10, <1>11, <1>12, <1>13, <1>14

\* The whole numbers around a scaled quantile.
LEMMA ScaledWholes ==
  ASSUME Valid, Narrow, NEW x \in Nat, x <= One
  PROVE  /\ \E f \in 0 .. Count : /\ Floor(Times(x, n)) = f * One
                                  /\ f * One <= Times(x, n) /\ Times(x, n) < (f + 1) * One
         /\ \E c \in 0 .. Count : /\ Ceil(Times(x, n)) = c * One
                                  /\ (c - 1) * One < Times(x, n) /\ Times(x, n) <= c * One
<1> DEFINE T == Times(x, n)
<1>1. Count \in Nat \ {0} /\ One \in Nat \ {0} /\ 0 \in 0 .. Count /\ Count \in 0 .. Count
  BY NarrowFacts
<1>2. T \in Nat /\ 0 * One <= T /\ T <= Count * One
  <2>1. /\ Times(x, n) \in Nat
        /\ \A j \in 0 .. Count : x * Count <= j * One => Times(x, n) <= j * One
    BY ScaledIsClose
  <2>2. Count * x <= Count * One /\ Count * x = x * Count
    BY <1>1, Products
  <2> QED BY <1>1, <2>1, <2>2
<1> HIDE DEF T
<1>3. /\ Floor(T) \in Int /\ Floor(T) <= T /\ \E i \in Int : Floor(T) = i * One
      /\ \A i \in Int : i * One <= T => i * One <= Floor(T)
      /\ Ceil(T) \in Int /\ \E i \in Int : Ceil(T) = i * One
      /\ \A i \in Int : T <= i * One => Ceil(T) <= i * One
  <2>1. T \in Int /\ T <= T
    BY <1>2
  <2> QED BY <2>1, FloorFacts
<1>4. T <= Ceil(T)
  <2>1. - T \in Int /\ - T <= - T
    BY <1>2
  <2>2. Floor(- T) <= - T /\ Floor(- T) \in Int
    BY <2>1, FloorFacts
  <2> QED BY <1>2, <2>2 DEF Ceil
<1>5. PICK f \in Int : Floor(T) = f * One
  BY <1>3
<1>6. PICK c \in Int : Ceil(T) = c * One
  BY <1>3
<1>7. T < (f + 1) * One
  <2>1. f + 1 \in Int /\ (f + 1) * One = f * One + One /\ f * One \in Int
    BY <1>1, <1>5
  <2> QED BY <1>1, <1>2, <1>3, <1>5, <2>1
<1>8. (c - 1) * One < T
  <2>1. c - 1 \in Int /\ (c - 1) * One = c * One - One /\ c * One \in Int
    BY <1>1, <1>6
  <2>2. T <= (c - 1) * One => Ceil(T) <= (c - 1) * One
    BY <1>3, <2>1
  <2> QED BY <1>1, <1>2, <1>6, <2>1, <2>2
<1>9. f \in 0 .. Count /\ c \in 0 .. Count
  <2>1. 0 * One <= f * One /\ f * One <= Count * One /\ 0 * One <= c * One /\ c * One <= Count * One
    <3>1. f * One \in Int /\ c * One \in Int /\ 0 * One \in Int /\ Count * One \in Int /\ 0 \in Int /\ Count \in Int
      BY <1>1
    <3>2. 0 * One <= Floor(T) /\ Ceil(T) <= Count * One
      BY <1>2, <1>3, <3>1
    <3> QED BY <1>2, <1>3, <1>4, <1>5, <1>6, <3>1, <3>2
  <2>2. 0 \in Int /\ Count \in Int
    BY <1>1
  <2>3. 0 <= f /\ f <= Count /\ 0 <= c /\ c <= Count
    BY <2>1, <2>2, NarrowWholes
  <2> QED BY <2>3
<1> QED BY <1>3, <1>4, <1>5, <1>6, <1>7, <1>8, <1>9 DEF T

\* Away from the edges ppf answers the step that rational arithmetic does: a candidate one too high
\* is stepped down, and none is one too low.
LEMMA PpfOffEdges ==
  ASSUME Valid, Narrow, NEW x \in Grid, x <= One,
         \A k \in 0 .. Count : x # Edge(k) /\ x # Edge(k) + Ulp(Edge(k))
  PROVE  Ppf(x) = (min - ((- (x * Count)) \div One) - 1) * One
<1> DEFINE Z == x * Count
           d == (- Z) \div One
           r == (- Z) % One
           j == - d
           T == Times(x, n)
<1>1. /\ Count \in Nat \ {0} /\ One \in Nat \ {0} /\ min \in Int /\ 0 \in 0 .. Count /\ 1 \in Nat \ {0}
  BY NarrowFacts
<1>2. x \in Nat /\ x \in Signed
  <2>1. x \in Nat
    BY GridIsNat
  <2> QED BY <2>1 DEF Signed
<1>3. /\ T \in Nat /\ Z \in Nat
      /\ \A i \in 0 .. Count : (i * One <= Z => i * One <= T) /\ (Z <= i * One => T <= i * One)
  BY <1>2, ScaledIsClose
<1>4. PICK c \in 0 .. Count : Ceil(T) = c * One /\ (c - 1) * One < T /\ T <= c * One
  BY <1>2, ScaledWholes
<1>5. 0 < x /\ 0 < Z
  <2>1. Edge(0) = 0
    BY <1>1, EdgeFacts
  <2>2. 0 < x
    BY <1>1, <1>2, <2>1
  <2> QED BY <1>1, <1>2, <2>2
<1>6. d \in Int /\ r \in 0 .. One - 1 /\ - Z = One * d + r
  <2>1. - Z \in Int
    BY <1>3
  <2> HIDE DEF Z
  <2> QED BY <1>1, <2>1, Quotient
<1>7. Z <= Count * One
  <2>1. Count * x <= Count * One /\ Count * x = x * Count
    BY <1>1, <1>2, Products
  <2> QED BY <2>1
<1> HIDE DEF Z, d, r, T
<1>8. j \in Int /\ (j - 1) * One < Z /\ Z <= j * One
  <2>1. One * d = - (j * One) /\ j \in Int /\ (j - 1) * One = j * One - One /\ j * One \in Int
    BY <1>1, <1>6
  <2> QED BY <1>1, <1>3, <1>6, <2>1
<1> HIDE DEF j
<1>9. 1 <= j /\ j <= Count
  <2>1. 0 * One = 0 /\ 0 * One < j * One /\ (j - 1) * One < Count * One
    <3>1. j * One \in Int /\ (j - 1) * One \in Int /\ Count * One \in Int
      BY <1>1, <1>8
    <3> QED BY <1>1, <1>3, <1>5, <1>7, <1>8, <3>1
  <2>2. ~ j * One <= 0 * One /\ ~ Count * One <= (j - 1) * One
    <3>1. j * One \in Int /\ (j - 1) * One \in Int /\ Count * One \in Int
      BY <1>1, <1>8
    <3> QED BY <2>1, <3>1
  <2>3. j - 1 \in Int /\ 0 \in Int /\ Count \in Int
    BY <1>1, <1>8
  <2>4. ~ j <= 0 /\ ~ Count <= j - 1
    BY <1>8, <2>2, <2>3, NarrowWholes
  <2> QED BY <1>1, <1>8, <2>4
<1>10. c \in {j - 1, j}
  <2>1. /\ j - 1 \in 0 .. Count /\ j \in 0 .. Count /\ c \in Int /\ c - 1 \in Int
        /\ c * One \in Int /\ (c - 1) * One \in Int
        /\ j * One \in Int /\ (j - 1) * One \in Int
    BY <1>1, <1>4, <1>8, <1>9
  <2>2. (j - 1) * One <= T /\ T <= j * One
    <3>1. (j - 1) * One <= Z
      BY <1>3, <1>8, <2>1
    <3> QED BY <1>3, <1>8, <2>1, <3>1
  <2>3. (j - 1) * One <= c * One /\ ~ j * One <= (c - 1) * One
    BY <1>3, <1>4, <2>1, <2>2
  <2>4. j - 1 <= c /\ ~ j <= c - 1
    BY <1>8, <2>1, <2>3, NarrowWholes
  <2> QED BY <1>8, <2>1, <2>4
<1>11. \A k \in 1 .. Count : k * One < Z => Edge(k) < x /\ k * One < T
  <2> TAKE k \in 1 .. Count
  <2> HAVE k * One < Z
  <2>1. k \in Nat /\ k \in 0 .. Count /\ k * One <= x * Count
    <3>1. k \in Nat /\ k \in 0 .. Count /\ k * One \in Int
      BY <1>1
    <3> QED BY <1>3, <3>1 DEF Z
  <2>2. Edge(k) <= x /\ Edge(k) \in Nat
    BY <1>2, <2>1, EdgeFacts
  <2>3. Edge(k) < x /\ x # Edge(k) + Ulp(Edge(k))
    BY <1>2, <2>1, <2>2
  <2> QED BY <2>3, PastTheEdge DEF T
<1>12. c = j
  <2> SUFFICES ASSUME c = j - 1 PROVE FALSE
    BY <1>10
  <2>1. CASE c = 0
    <3>1. T = 0
      <4>1. 0 * One = 0
        BY <1>1
      <4> QED BY <1>3, <1>4, <2>1, <4>1
    <3>2. 1 <= Z /\ 1 \in Signed
      <4>1. 1 * 2 ^ 0 = 1 /\ 1 \in Nat /\ 0 \in Nat /\ 1 <= 2 ^ Precision /\ 1 <= Infinity
        BY FormatFacts
      <4>2. 1 \in Grid
        <5>1. 1 * 2 ^ 0 \in Grid
          BY <4>1, GridValue
        <5> QED BY <4>1, <5>1
      <4> QED BY <1>3, <1>5, <4>2 DEF Signed
    <3>3. T = Round(Z, 1)
      <4>1. n = Count * One /\ n < Infinity /\ One < Infinity /\ Infinity \in Nat
        BY NarrowFacts
      <4>2. T = Round(x * n, One) /\ x * n = (x * Count) * One /\ One = 1 * One
        BY <1>1, <1>2, <4>1 DEF T, Times
      <4>3. Round(Z * One, 1 * One) = Round(Z, 1)
        BY <1>3, RoundOverOne
      <4> QED BY <4>2, <4>3 DEF Z
    <3>4. 1 <= Round(Z, 1)
      <4>1. 1 * 1 <= Z /\ Z \in Int
        BY <1>3, <3>2
      <4> QED BY <1>1, <3>2, <4>1, RoundKeepsGrid
    <3> QED BY <3>1, <3>3, <3>4
  <2>2. CASE c # 0
    <3>1. c \in 1 .. Count /\ c * One < Z
      BY <1>1, <1>4, <1>8, <2>2
    <3>2. c * One < T /\ c * One \in Int
      BY <1>1, <1>11, <3>1
    <3> QED BY <1>3, <1>4, <3>2
  <2> QED BY <2>1, <2>2
<1>13. j \in 1 .. Count /\ Ceil(Times(x, n)) = j * One /\ x \in Int
  BY <1>2, <1>4, <1>8, <1>9, <1>12 DEF T
<1>14. j >= 2 => ~ Edge(j - 1) >= x
  <2> HAVE j >= 2
  <2>1. j - 1 \in 1 .. Count /\ j - 1 \in Nat
    BY <1>1, <1>8, <1>9
  <2>2. Edge(j - 1) < x /\ Edge(j - 1) \in Nat
    BY <1>8, <1>11, <2>1, EdgeFacts
  <2> QED BY <1>2, <2>2
<1>15. Ppf(x) = (min + j - 1) * One
  <2>1. PICK a \in 1 .. Count : /\ Ppf(x) = (min + a - 1) * One
                                /\ a = IF j >= 2 /\ Edge(j - 1) >= x THEN j - 1 ELSE j
    BY <1>13, PpfIs
  <2> QED BY <1>14, <2>1
<1>16. min + j - 1 = min - d - 1
  BY <1>1, <1>6 DEF j
<1> QED BY <1>15, <1>16 DEF d, Z

\* Away from the edges isf answers the step that rational arithmetic does: of the three neighbours
\* it tries, the first whose tail is small enough is that one.
LEMMA IsfOffEdges ==
  ASSUME Valid, Narrow, NEW x \in Grid, x <= One, \A k \in 0 .. Count : x # Edge(k)
  PROVE  Isf(x) = (max - (x * Count) \div One) * One
<1> DEFINE Z == x * Count
           g == Z \div One
           r == Z % One
           T == Times(x, n)
<1>1. Count \in Nat \ {0} /\ One \in Nat \ {0} /\ max \in Int /\ Count \in 0 .. Count
  BY NarrowFacts
<1>2. x \in Nat /\ x \in Signed /\ x < One
  <2>1. x \in Nat
    BY GridIsNat
  <2>2. Edge(Count) = One
    BY <1>1, EdgeFacts
  <2> QED BY <1>1, <2>1, <2>2 DEF Signed
<1>3. /\ T \in Nat /\ Z \in Nat
      /\ \A i \in 0 .. Count : (i * One <= Z => i * One <= T) /\ (Z <= i * One => T <= i * One)
  BY <1>2, ScaledIsClose
<1>4. PICK f \in 0 .. Count : Floor(T) = f * One /\ f * One <= T /\ T < (f + 1) * One
  BY <1>2, ScaledWholes
<1>5. g \in Int /\ r \in 0 .. One - 1 /\ Z = One * g + r
  <2>1. Z \in Int
    BY <1>3
  <2> HIDE DEF Z
  <2> QED BY <1>1, <2>1, Quotient
<1>6. Z < Count * One
  <2>1. Count * x < Count * One /\ Count * x = x * Count
    BY <1>1, <1>2, Products
  <2> QED BY <2>1
<1> HIDE DEF Z, g, r, T
<1>7. g * One <= Z /\ Z < (g + 1) * One
  <2>1. One * g = g * One /\ (g + 1) * One = g * One + One /\ g * One \in Int
    BY <1>1, <1>5
  <2> QED BY <1>1, <1>3, <1>5, <2>1
<1>8. 0 <= g /\ g < Count
  <2>1. /\ g \in Int /\ g + 1 \in Int /\ 0 \in Int /\ Count \in Int
        /\ g * One \in Int /\ (g + 1) * One \in Int /\ Count * One \in Int /\ 0 * One = 0
    BY <1>1, <1>5
  <2>2. ~ (g + 1) * One <= 0 * One /\ ~ Count * One <= g * One
    BY <1>3, <1>6, <1>7, <2>1
  <2>3. ~ g + 1 <= 0 /\ ~ Count <= g
    BY <2>1, <2>2, NarrowWholes
  <2> QED BY <2>1, <2>3
<1>9. f \in {g, g + 1}
  <2>1. /\ g \in 0 .. Count /\ g + 1 \in 0 .. Count /\ f \in Int /\ f + 1 \in Int
        /\ f * One \in Int /\ (f + 1) * One \in Int
        /\ g * One \in Int /\ (g + 1) * One \in Int
    BY <1>1, <1>4, <1>5, <1>8
  <2>2. g * One <= T /\ T <= (g + 1) * One
    <3>1. Z <= (g + 1) * One
      BY <1>3, <1>7, <2>1
    <3> QED BY <1>3, <1>7, <2>1, <3>1
  <2>3. f * One <= (g + 1) * One /\ ~ (f + 1) * One <= g * One
    BY <1>3, <1>4, <2>1, <2>2
  <2>4. f <= g + 1 /\ ~ f + 1 <= g
    BY <2>1, <2>3, NarrowWholes
  <2> QED BY <2>1, <2>4
<1>10. \A k \in 0 .. Count : Edge(k) <= x <=> k <= g
  <2> TAKE k \in 0 .. Count
  <2>1. k \in Nat /\ g \in Int /\ g + 1 \in Int /\ k * One \in Int /\ g * One \in Int /\ (g + 1) * One \in Int
    BY <1>1, <1>5
  <2>2. Edge(k) \in Nat /\ (k * One <= Z => Edge(k) <= x) /\ (Z <= k * One => x <= Edge(k))
    BY <1>2, <2>1, EdgeFacts DEF Z
  <2>3. k <= g => Edge(k) <= x
    <3>1. k <= g => k * One <= g * One
      BY <2>1, NarrowWholes
    <3> QED BY <1>3, <1>7, <2>1, <2>2, <3>1
  <2>4. g + 1 <= k => ~ Edge(k) <= x
    <3>1. g + 1 <= k => (g + 1) * One <= k * One
      BY <2>1, NarrowWholes
    <3>2. x # Edge(k)
      OBVIOUS
    <3> QED BY <1>2, <1>3, <1>7, <2>1, <2>2, <3>1, <3>2
  <2> QED BY <2>1, <2>3, <2>4
<1>11. PICK s \in 0 .. Count - 1 :
          /\ Isf(x) = (max - s) * One
          /\ s = IF f < Count /\ Edge(f + 1) <= x THEN f + 1 ELSE IF Edge(f) <= x THEN f ELSE f - 1
  BY <1>2, <1>4, IsfIs DEF T
<1>12. s = g
  <2>1. f < Count => f + 1 \in 0 .. Count
    BY <1>1
  <2>2. ~ (f < Count /\ Edge(f + 1) <= x)
    BY <1>5, <1>9, <1>10, <2>1
  <2>3. Edge(f) <= x <=> f = g
    BY <1>5, <1>9, <1>10
  <2> QED BY <1>5, <1>9, <1>11, <2>2, <2>3
<1> QED BY <1>11, <1>12 DEF g, Z

\* RationalOffEdges, from the invariant.
LEMMA RationalHolds ==
  ASSUME IInv PROVE RationalOffEdges
<1> DEFINE count == max - min + 1
           forward == method \in {"cdf", "ppf"}
           OnEdge == \E k \in 0 .. count :
                       LET edge == Round(k * One, count)
                       IN  q = edge \/ (forward /\ q = edge + Ulp(edge))
           exact == IF forward
                    THEN min - ((- q * count) \div One) - 1
                    ELSE max - (q * count) \div One
<1> SUFFICES ASSUME phase = "inverted", InUnit(q), Narrow, ~ OnEdge
             PROVE  answer = exact * One
  BY Zenon DEF RationalOffEdges
<1>1. Valid /\ q \in Int /\ q \in Signed /\ answer = InverseOf(method, q)
  BY AskedIsFloat
<1>2. q \in Grid /\ q <= One
  <2>1. q >= 0 /\ q <= One
    BY DEF InUnit
  <2>2. q \in Grid \/ - q \in Grid
    BY <1>1 DEF Signed
  <2>3. - q \in Grid => q = 0
    <3>1. - q \in Grid => - q \in Nat
      BY GridIsNat
    <3> QED BY <1>1, <2>1, <3>1
  <2> QED BY <2>1, <2>2, <2>3, GridZero
<1>3. \A k \in 0 .. Count : q # Edge(k) /\ (forward => q # Edge(k) + Ulp(Edge(k)))
  BY DEF Edge, Count
<1> HIDE DEF OnEdge
<1>4. CASE forward
  <2>1. answer = Ppf(q)
    BY <1>1, <1>4 DEF InverseOf
  <2>2. \A k \in 0 .. Count : q # Edge(k) /\ q # Edge(k) + Ulp(Edge(k))
    BY <1>3, <1>4
  <2>3. Ppf(q) = (min - ((- (q * Count)) \div One) - 1) * One
    BY <1>1, <1>2, <2>2, PpfOffEdges
  <2>4. exact = min - ((- (q * Count)) \div One) - 1
    BY <1>4 DEF Count
  <2> QED BY <2>1, <2>3, <2>4
<1>5. CASE ~ forward
  <2>1. answer = Isf(q)
    BY <1>1, <1>5 DEF InverseOf
  <2>2. \A k \in 0 .. Count : q # Edge(k)
    BY <1>3
  <2>3. Isf(q) = (max - (q * Count) \div One) * One
    BY <1>1, <1>2, <2>2, IsfOffEdges
  <2>4. exact = max - (q * Count) \div One
    BY <1>5 DEF Count
  <2> QED BY <2>1, <2>3, <2>4
<1> QED BY <1>4, <1>5

\* How far the scaled probability of a step is from it, and the steps two away from it.
LEMMA MassAmongEdges ==
  ASSUME Valid, Narrow, NEW i \in 1 .. Count - 1
  PROVE  /\ Mass(i * One) \in Nat /\ Mass(i * One) < One
         /\ (i - 1) * One < Times(Mass(i * One), n) /\ Times(Mass(i * One), n) < (i + 1) * One
         /\ Edge(i - 1) < Mass(i * One) /\ Mass(i * One) < Edge(i + 1)
<1> DEFINE x == Mass(i * One)
           Z == x * Count
           T == Times(x, n)
<1>1. /\ Count \in Nat \ {0} /\ One \in Nat \ {0} /\ i \in Nat /\ i - 1 \in Nat /\ i + 1 \in Nat
      /\ i + 1 <= Count /\ i - 1 <= Count /\ i * One \in Nat /\ (i - 1) * One = i * One - One
      /\ (i + 1) * One = i * One + One /\ Count * One \in Nat /\ (i + 1) * One <= Count * One
  <2>1. Count \in Nat \ {0} /\ One \in Nat \ {0} /\ i \in Nat /\ i - 1 \in Nat /\ i + 1 \in Nat
        /\ i + 1 <= Count /\ i - 1 <= Count
    BY NarrowFacts
  <2> QED BY <2>1, Products
<1>2. /\ x \in Nat /\ x <= One /\ Z \in Nat
      /\ 4 * Z < 4 * (i * One) + 3 * One /\ 4 * (i * One) < 4 * Z + 3 * One
  BY MassIsClose
<1>3. T \in Nat /\ 4 * T - 4 * Z \in - One .. One
  BY <1>2, ScaledIsClose
<1>4. \A k \in {i - 1, i + 1} : Edge(k) \in Nat /\ Edge(k) * Count \in Nat
        /\ 4 * (Edge(k) * Count) - 4 * (k * One) \in - One .. One
  <2> TAKE k \in {i - 1, i + 1}
  <2>1. k \in Nat /\ k <= Count
    BY <1>1
  <2>2. Edge(k) \in Nat /\ 4 * (Edge(k) * Count) - 4 * (k * One) \in - One .. One
    BY <2>1, EdgeFacts
  <2> QED BY <1>1, <2>2
<1> HIDE DEF x, Z, T
<1>5. (i - 1) * One < T /\ T < (i + 1) * One
  BY <1>1, <1>2, <1>3
<1>6. Edge(i - 1) * Count < Z /\ Z < Edge(i + 1) * Count
  <2>1. /\ 4 * (Edge(i - 1) * Count) <= 4 * ((i - 1) * One) + One
        /\ 4 * ((i + 1) * One) <= 4 * (Edge(i + 1) * Count) + One
        /\ Edge(i - 1) * Count \in Nat /\ Edge(i + 1) * Count \in Nat
    BY <1>1, <1>4
  <2> QED BY <1>1, <1>2, <2>1
<1>7. Edge(i - 1) < x /\ x < Edge(i + 1)
  <2>1. Edge(i - 1) \in Nat /\ Edge(i + 1) \in Nat
    BY <1>4
  <2>2. x <= Edge(i - 1) => Count * x <= Count * Edge(i - 1)
    BY <1>1, <1>2, <2>1, Products
  <2>3. Edge(i + 1) <= x => Count * Edge(i + 1) <= Count * x
    BY <1>1, <1>2, <2>1, Products
  <2>4. Count * x = Z /\ Count * Edge(i - 1) = Edge(i - 1) * Count /\ Count * Edge(i + 1) = Edge(i + 1) * Count
    BY <1>1, <1>2, <2>1 DEF Z
  <2>5. Edge(i - 1) * Count \in Nat /\ Edge(i + 1) * Count \in Nat
    BY <1>4
  <2> QED BY <1>2, <1>6, <2>1, <2>2, <2>3, <2>4, <2>5
<1>8. x < One
  <2>1. x = One => Z = Count * One
    BY <1>1 DEF Z
  <2> QED BY <1>1, <1>2, <2>1
<1> QED BY <1>2, <1>5, <1>7, <1>8 DEF x, T

\* ppf at the probability of a support point answers the point or the one above it.
LEMMA PpfOfMass ==
  ASSUME Valid, Narrow, NEW i \in 1 .. Count - 1
  PROVE  \E a \in {i, i + 1} : Ppf(Mass(i * One)) = (min + a - 1) * One
<1> DEFINE x == Mass(i * One)
           T == Times(x, n)
<1>1. Count \in Nat \ {0} /\ One \in Nat \ {0} /\ i \in Nat \ {0} /\ i + 1 <= Count
  BY NarrowFacts
<1>2. /\ x \in Nat /\ x < One /\ (i - 1) * One < T /\ T < (i + 1) * One /\ Edge(i - 1) < x /\ Edge(i - 1) \in Nat
  <2>1. i - 1 \in Nat
    BY <1>1
  <2>2. Edge(i - 1) \in Nat
    BY <2>1, EdgeFacts
  <2> QED BY <2>2, MassAmongEdges
<1>3. T \in Nat
  BY <1>1, <1>2, ScaledIsClose
<1>4. PICK c \in 0 .. Count : Ceil(T) = c * One /\ (c - 1) * One < T /\ T <= c * One
  BY <1>1, <1>2, ScaledWholes
<1> HIDE DEF T, x
<1>5. c \in {i, i + 1}
  <2>1. /\ i - 1 \in Int /\ i + 1 \in Int /\ c \in Int /\ c - 1 \in Int
        /\ (i - 1) * One \in Int /\ (i + 1) * One \in Int /\ c * One \in Int /\ (c - 1) * One \in Int
    BY <1>1
  <2>2. ~ c * One <= (i - 1) * One /\ ~ (i + 1) * One <= (c - 1) * One
    BY <1>2, <1>3, <1>4, <2>1
  <2>3. ~ c <= i - 1 /\ ~ i + 1 <= c - 1
    BY <2>1, <2>2, NarrowWholes
  <2> QED BY <1>1, <2>1, <2>3
<1>6. c \in 1 .. Count /\ x \in Int /\ Ceil(Times(x, n)) = c * One
  BY <1>1, <1>2, <1>4, <1>5 DEF T
<1>7. PICK a \in 1 .. Count : /\ Ppf(x) = (min + a - 1) * One
                              /\ a = IF c >= 2 /\ Edge(c - 1) >= x THEN c - 1 ELSE c
  BY <1>6, PpfIs
<1>8. c = i => a = i
  <2> HAVE c = i
  <2>1. ~ Edge(c - 1) >= x
    BY <1>2
  <2> QED BY <1>7, <2>1
<1>9. a \in {i, i + 1}
  BY <1>1, <1>5, <1>7, <1>8
<1> QED BY <1>7, <1>9 DEF x

\* isf at the tail beyond a support point answers the point or the one above it.
LEMMA IsfOfMass ==
  ASSUME Valid, Narrow, NEW t \in 1 .. Count - 1
  PROVE  \E s \in {t - 1, t} : Isf(Mass(t * One)) = (max - s) * One
<1> DEFINE x == Mass(t * One)
           T == Times(x, n)
<1>1. Count \in Nat \ {0} /\ One \in Nat \ {0} /\ t \in Nat \ {0} /\ t + 1 <= Count
  BY NarrowFacts
<1>2. /\ x \in Nat /\ x < One /\ (t - 1) * One < T /\ T < (t + 1) * One /\ Edge(t - 1) < x /\ x < Edge(t + 1)
      /\ Edge(t - 1) \in Nat /\ Edge(t + 1) \in Nat
  <2>1. t - 1 \in Nat /\ t + 1 \in Nat
    BY <1>1
  <2>2. Edge(t - 1) \in Nat /\ Edge(t + 1) \in Nat
    BY <2>1, EdgeFacts
  <2> QED BY <2>2, MassAmongEdges
<1>3. T \in Nat
  BY <1>1, <1>2, ScaledIsClose
<1>4. PICK f \in 0 .. Count : Floor(T) = f * One /\ f * One <= T /\ T < (f + 1) * One
  BY <1>1, <1>2, ScaledWholes
<1> HIDE DEF T, x
<1>5. f \in {t - 1, t}
  <2>1. /\ t - 1 \in Int /\ t + 1 \in Int /\ f \in Int /\ f + 1 \in Int
        /\ (t - 1) * One \in Int /\ (t + 1) * One \in Int /\ f * One \in Int /\ (f + 1) * One \in Int
    BY <1>1
  <2>2. ~ (t + 1) * One <= f * One /\ ~ (f + 1) * One <= (t - 1) * One
    BY <1>2, <1>3, <1>4, <2>1
  <2>3. ~ t + 1 <= f /\ ~ f + 1 <= t - 1
    BY <2>1, <2>2, NarrowWholes
  <2> QED BY <1>1, <2>1, <2>3
<1>6. PICK s \in 0 .. Count - 1 :
         /\ Isf(x) = (max - s) * One
         /\ s = IF f < Count /\ Edge(f + 1) <= x THEN f + 1 ELSE IF Edge(f) <= x THEN f ELSE f - 1
  BY <1>2, <1>4, IsfIs DEF T
<1>7. s \in {t - 1, t}
  <2>1. CASE f = t
    <3>1. ~ Edge(f + 1) <= x
      BY <1>2, <2>1
    <3> QED BY <1>1, <1>6, <2>1, <3>1
  <2>2. CASE f = t - 1
    <3>1. Edge(f) <= x /\ f + 1 = t
      BY <1>1, <1>2, <2>2
    <3> QED BY <1>1, <1>6, <2>2, <3>1
  <2> QED BY <1>5, <2>1, <2>2
<1> QED BY <1>6, <1>7 DEF x

\* The ends: 1 is the probability of the last point, and no mass is left beyond it.
LEMMA InversesAtEnds ==
  ASSUME Valid, Narrow
  PROVE  Ppf(One) = max * One /\ Isf(0) = max * One
<1>1. /\ Count \in Nat \ {0} /\ One \in Nat \ {0} /\ max = min + Count - 1 /\ min \in Int /\ max \in Int
      /\ 0 \in 0 .. Count /\ Count \in 0 .. Count
  BY NarrowFacts DEF Count
<1>2. Ppf(One) = max * One
  <2> DEFINE T == Times(One, n)
  <2>1. One * Count = Count * One /\ One \in Nat /\ One <= One
    BY <1>1
  <2>2. T \in Nat /\ Count * One <= T
    <3>1. Count * One <= One * Count
      BY <1>1, <2>1
    <3> QED BY <1>1, <2>1, <3>1, ScaledIsClose
  <2>3. PICK c \in 0 .. Count : Ceil(T) = c * One /\ (c - 1) * One < T /\ T <= c * One
    BY <2>1, ScaledWholes
  <2> HIDE DEF T
  <2>4. c = Count
    <3>1. Count * One <= c * One /\ c \in Int /\ Count \in Int
      <4>1. c * One \in Int /\ Count * One \in Int /\ c \in Int /\ Count \in Int
        BY <1>1
      <4> QED BY <2>2, <2>3, <4>1
    <3>2. Count <= c
      BY <3>1, NarrowWholes
    <3> QED BY <1>1, <3>2
  <2>5. Count >= 2 => ~ Edge(Count - 1) >= One
    <3> HAVE Count >= 2
    <3>1. Count - 1 \in Nat /\ Count - 1 <= Count /\ (Count - 1) * One = Count * One - One
      BY <1>1
    <3>2. Edge(Count - 1) \in Nat /\ Edge(Count - 1) <= One
          /\ 4 * (Edge(Count - 1) * Count) - 4 * ((Count - 1) * One) \in - One .. One
      BY <3>1, EdgeFacts
    <3>3. Edge(Count - 1) # One
      <4> SUFFICES ASSUME Edge(Count - 1) = One PROVE FALSE
        OBVIOUS
      <4>1. 4 * (Count * One) - 4 * (Count * One - One) \in - One .. One /\ Count * One \in Nat
        BY <1>1, <2>1, <3>1, <3>2
      <4> QED BY <1>1, <4>1
    <3> QED BY <1>1, <3>2, <3>3
  <2>6. c \in 1 .. Count /\ Ceil(Times(One, n)) = c * One /\ One \in Int
    BY <1>1, <2>3, <2>4 DEF T
  <2>7. PICK a \in 1 .. Count : /\ Ppf(One) = (min + a - 1) * One
                                /\ a = IF c >= 2 /\ Edge(c - 1) >= One THEN c - 1 ELSE c
    BY <2>6, PpfIs
  <2>8. a = Count
    BY <2>4, <2>5, <2>7
  <2> QED BY <1>1, <2>7, <2>8
<1>3. Isf(0) = max * One
  <2> DEFINE T == Times(0, n)
  <2>1. 0 \in Nat /\ 0 <= One /\ 0 < One /\ 0 * Count = 0 /\ 0 * One = 0
    BY <1>1
  <2>2. T \in Nat /\ T <= 0
    <3>1. 0 * Count <= 0 * One
      BY <2>1
    <3>2. T \in Nat /\ T <= 0 * One
      BY <1>1, <2>1, <3>1, ScaledIsClose
    <3> QED BY <2>1, <3>2
  <2>3. PICK f \in 0 .. Count : Floor(T) = f * One /\ f * One <= T /\ T < (f + 1) * One
    BY <2>1, ScaledWholes
  <2> HIDE DEF T
  <2>4. f = 0
    <3>1. f * One <= 0 * One /\ f \in Int /\ 0 \in Int
      <4>1. f * One \in Int /\ f \in Int
        BY <1>1
      <4> QED BY <2>1, <2>2, <2>3, <4>1
    <3>2. f <= 0
      BY <3>1, NarrowWholes
    <3> QED BY <3>2
  <2>5. Edge(0) = 0 /\ ~ Edge(0 + 1) <= 0
    <3>1. 1 \in Nat /\ 1 <= Count /\ 1 * One = One
      BY <1>1
    <3>2. Edge(1) \in Nat /\ Edge(0) = 0 /\ 4 * (Edge(1) * Count) - 4 * (1 * One) \in - One .. One
      BY <3>1, EdgeFacts
    <3>3. Edge(1) # 0
      <4> SUFFICES ASSUME Edge(1) = 0 PROVE FALSE
        OBVIOUS
      <4>1. 4 * (0 * Count) - 4 * One \in - One .. One
        BY <3>1, <3>2
      <4> QED BY <1>1, <2>1, <4>1
    <3> QED BY <3>2, <3>3
  <2>6. PICK s \in 0 .. Count - 1 :
         /\ Isf(0) = (max - s) * One
         /\ s = IF f < Count /\ Edge(f + 1) <= 0 THEN f + 1 ELSE IF Edge(f) <= 0 THEN f ELSE f - 1
    BY <2>1, <2>3, IsfIs DEF T
  <2>7. s = 0
    BY <2>4, <2>5, <2>6
  <2> QED BY <1>1, <2>6, <2>7
<1> QED BY <1>2, <1>3

\* The probabilities a place inside the support reads, on whole counts.
LEMMA NarrowPlaces ==
  ASSUME Valid, Narrow, NEW p \in Points
  PROVE  /\ p.kind = "int" /\ p.at \in min .. max =>
              /\ p.at = max => Cdf(p) = One /\ Sf(p) = 0
              /\ p.at < max => /\ p.at - min + 1 \in 1 .. Count - 1 /\ Cdf(p) = Mass((p.at - min + 1) * One)
                               /\ max - p.at \in 1 .. Count - 1 /\ Sf(p) = Mass((max - p.at) * One)
         /\ Sf(p) \in {0, One} \/ \E t \in 1 .. Count - 1 : Sf(p) = Mass(t * One)
<1>1. /\ Count \in Nat \ {0} /\ Count <= 2 ^ (Precision - 1) /\ One \in Nat \ {0}
      /\ min \in Int /\ max \in Int /\ max = min + Count - 1
      /\ 2 ^ (Precision - 1) \in Nat \ {0} /\ 2 ^ Precision = 2 * 2 ^ (Precision - 1)
  BY NarrowFacts DEF Count
<1>2. p \in AnyPoint /\ p.at \in Int /\ p.kind \in {"int", "float"}
  BY PointsAreAny DEF AnyPoint
<1>3. \A i \in Int : 0 <= i /\ i <= Count => AsFloat(i) = i * One
  <2> TAKE i \in Int
  <2> HAVE 0 <= i /\ i <= Count
  <2>1. - (2 ^ Precision) <= i /\ i <= 2 ^ Precision
    BY <1>1
  <2> QED BY <2>1, SmallWholes
<1>4. /\ Cdf(p) = IF Place(p).below THEN 0 ELSE IF Place(p).atTop THEN One ELSE Mass(Place(p).count)
      /\ Sf(p) = IF Place(p).below THEN One ELSE IF Place(p).atTop THEN 0 ELSE Mass(Place(p).tail)
  BY DEF Cdf, Sf, Mass
<1>5. CASE p.kind = "int"
  <2>1. /\ Place(p).below <=> p.at < min
        /\ Place(p).atTop <=> p.at >= max
        /\ Place(p).count = AsFloat(p.at - min + 1) /\ Place(p).tail = AsFloat(max - p.at)
    BY <1>5, PlaceOfInt
  <2>2. min <= p.at /\ p.at < max =>
          /\ p.at - min + 1 \in 1 .. Count - 1 /\ AsFloat(p.at - min + 1) = (p.at - min + 1) * One
          /\ max - p.at \in 1 .. Count - 1 /\ AsFloat(max - p.at) = (max - p.at) * One
    <3> HAVE min <= p.at /\ p.at < max
    <3>1. p.at - min + 1 \in 1 .. Count - 1 /\ max - p.at \in 1 .. Count - 1
      BY <1>1, <1>2
    <3>2. p.at - min + 1 \in Int /\ max - p.at \in Int
      BY <1>1, <1>2
    <3> QED BY <1>1, <1>3, <3>1, <3>2
  <2>3. p.at \in min .. max /\ p.at < max => Cdf(p) = Mass(Place(p).count) /\ Sf(p) = Mass(Place(p).tail)
    BY <1>1, <1>2, <1>4, <2>1
  <2>4. p.at \in min .. max /\ p.at = max => Cdf(p) = One /\ Sf(p) = 0
    BY <1>1, <1>2, <1>4, <2>1
  <2>5. p.at < min \/ p.at >= max => Sf(p) \in {0, One}
    BY <1>4, <2>1
  <2>6. min <= p.at /\ p.at < max => p.at \in min .. max
    BY <1>1, <1>2
  <2>7. Sf(p) \in {0, One} \/ \E t \in 1 .. Count - 1 : Sf(p) = Mass(t * One)
    <3>1. CASE min <= p.at /\ p.at < max
      <4>1. max - p.at \in 1 .. Count - 1 /\ Sf(p) = Mass((max - p.at) * One)
        BY <2>1, <2>2, <2>3, <2>6, <3>1
      <4> QED BY <4>1
    <3>2. CASE ~ (min <= p.at /\ p.at < max)
      BY <1>1, <1>2, <2>5, <3>2
    <3> QED BY <3>1, <3>2
  <2> QED BY <2>1, <2>2, <2>3, <2>4, <2>6, <2>7, <1>1, <1>2
<1>6. CASE p.kind = "float"
  <2>1. /\ Place(p).below <=> p.at < Lo
        /\ Place(p).atTop <=> p.at >= Hi
        /\ Place(p).tail = Minus(Hi, Floor(p.at))
    BY <1>6, PlaceOfFloat
  <2>2. Lo \in Int /\ Hi \in Int /\ ExactBounds
    BY <1>1, NarrowFacts DEF Narrow
  <2>3. CASE Lo <= p.at /\ p.at < Hi
    <3> DEFINE k == p.at \div One
    <3>1. k \in min .. max - 1 /\ Minus(Hi, Floor(p.at)) = AsFloat(max - k)
      BY <1>2, <2>2, <2>3, FloatPlaces
    <3> HIDE DEF k
    <3>2. max - k \in 1 .. Count - 1 /\ max - k \in Int /\ 0 <= max - k /\ max - k <= Count
      BY <1>1, <3>1
    <3>3. AsFloat(max - k) = (max - k) * One
      BY <1>3, <3>2
    <3>4. ~ Place(p).below /\ ~ Place(p).atTop
      BY <1>2, <2>1, <2>2, <2>3
    <3>5. Sf(p) = Mass((max - k) * One)
      BY <1>4, <2>1, <3>1, <3>3, <3>4
    <3> QED BY <1>6, <3>2, <3>5
  <2>4. CASE ~ (Lo <= p.at /\ p.at < Hi)
    <3>1. Sf(p) \in {0, One}
      BY <1>2, <1>4, <2>1, <2>2, <2>4
    <3> QED BY <1>6, <3>1
  <2> QED BY <2>3, <2>4
<1> QED BY <1>2, <1>5, <1>6

\* The mass beyond a support point, asked of it as a float.
LEMMA SfOfStep ==
  ASSUME Valid, Narrow, NEW s \in 1 .. Count - 1
  PROVE  Sf([kind |-> "float", at |-> (max - s) * One]) = Mass(s * One)
<1> DEFINE v == (max - s) * One
           p == [kind |-> "float", at |-> v]
<1>1. /\ Count \in Nat \ {0} /\ Count <= 2 ^ (Precision - 1) /\ One \in Nat \ {0}
      /\ min \in Int /\ max \in Int /\ max = min + Count - 1 /\ Lo = min * One /\ Hi = max * One
      /\ 2 ^ (Precision - 1) \in Nat \ {0} /\ 2 ^ Precision = 2 * 2 ^ (Precision - 1) /\ max < 2 ^ Precision
  BY NarrowFacts DEF Count
<1>2. max - s \in Int /\ min <= max - s /\ ~ max <= max - s /\ s \in Int
  BY <1>1
<1>3. v \in Int /\ Floor(v) = v /\ Lo <= v /\ v < Hi /\ Lo \in Int /\ Hi \in Int
  <2>1. v \in Int /\ Floor(v) = v /\ min * One <= v /\ ~ max * One <= v
    BY <1>1, <1>2, NarrowWholes
  <2>2. max * One \in Int /\ min * One \in Int
    BY <1>1
  <2> QED BY <1>1, <2>1, <2>2
<1>4. Minus(Hi, v) = s * One
  <2>1. /\ max <= 2 ^ Precision /\ max - s <= 2 ^ Precision /\ max - (max - s) = s
        /\ - (2 ^ Precision) <= max - (max - s) /\ max - (max - s) <= 2 ^ Precision
    BY <1>1, <1>2
  <2>2. Minus(max * One, (max - s) * One) = (max - (max - s)) * One
    BY <1>1, <1>2, <2>1, WholesAreExact
  <2> QED BY <1>1, <2>1, <2>2
<1> HIDE DEF v
<1>5. /\ Place(p).below <=> v < Lo
      /\ Place(p).atTop <=> v >= Hi
      /\ Place(p).tail = Minus(Hi, Floor(v))
  <2>1. p.kind = "float" /\ p.at = v
    OBVIOUS
  <2> HIDE DEF p
  <2> QED BY <2>1, PlaceOfFloat
<1>6. Sf(p) = Mass(Minus(Hi, Floor(v)))
  <2>1. ~ Place(p).below /\ ~ Place(p).atTop
    BY <1>3, <1>5
  <2> QED BY <1>5, <2>1 DEF Sf, Mass
<1> QED BY <1>3, <1>4, <1>6 DEF v

\* RoundTrips, from the invariant.
LEMMA RoundTripsHold ==
  ASSUME IInv PROVE RoundTrips
<1> SUFFICES ASSUME phase = "inverted", Narrow
             PROVE  /\ method \in {"cdf", "sf"} /\ point.kind = "int" /\ point.at \in min .. max
                         => answer \in {point.at * One, (point.at + 1) * One}
                    /\ method = "sf" => Sf([kind |-> "float", at |-> answer]) <= q
  BY DEF RoundTrips
<1>1. Valid /\ answer = InverseOf(method, q) /\ q \in Int
  BY AskedIsFloat
<1>2. /\ Count \in Nat \ {0} /\ One \in Nat \ {0} /\ min \in Int /\ max \in Int /\ max = min + Count - 1
      /\ Hi = max * One /\ n = Count * One /\ ExactBounds
  BY <1>1, NarrowFacts DEF Count, Narrow
<1>3. SUFFICES ASSUME method \in {"cdf", "sf"}
               PROVE  /\ point.kind = "int" /\ point.at \in min .. max
                           => answer \in {point.at * One, (point.at + 1) * One}
                      /\ method = "sf" => Sf([kind |-> "float", at |-> answer]) <= q
  OBVIOUS
<1>4. point \in Points /\ q = IF method = "cdf" THEN Cdf(point) ELSE Sf(point)
  BY <1>3 DEF IInv, Evaluated
<1>5. \A i \in 1 .. Count - 1 : InUnit(Mass(i * One)) /\ Mass(i * One) \in Nat
  <2> TAKE i \in 1 .. Count - 1
  <2>1. Mass(i * One) \in Nat /\ Mass(i * One) < One
    BY <1>1, MassAmongEdges
  <2> QED BY <1>2, <2>1 DEF InUnit
<1>6. InUnit(0) /\ InUnit(One)
  BY <1>2 DEF InUnit
<1>7. ASSUME point.kind = "int", point.at \in min .. max
      PROVE  answer \in {point.at * One, (point.at + 1) * One}
  <2> DEFINE k == point.at
  <2>1. k \in Int /\ min <= k /\ k <= max
    BY <1>2, <1>7
  <2>2. /\ k = max => Cdf(point) = One /\ Sf(point) = 0
        /\ k < max => /\ k - min + 1 \in 1 .. Count - 1 /\ Cdf(point) = Mass((k - min + 1) * One)
                      /\ max - k \in 1 .. Count - 1 /\ Sf(point) = Mass((max - k) * One)
    BY <1>1, <1>4, <1>7, NarrowPlaces
  <2> HIDE DEF k
  <2>3. CASE k = max
    <3>1. answer = max * One
      BY <1>1, <1>3, <1>4, <1>6, <2>2, <2>3, InversesAtEnds DEF InverseOf
    <3> QED BY <2>3, <3>1 DEF k
  <2>4. CASE k < max /\ method = "cdf"
    <3> DEFINE i == k - min + 1
    <3>1. i \in 1 .. Count - 1 /\ q = Mass(i * One)
      BY <1>4, <2>2, <2>4
    <3>2. PICK a \in {i, i + 1} : Ppf(Mass(i * One)) = (min + a - 1) * One
      <4> HIDE DEF i
      <4> QED BY <1>1, <3>1, PpfOfMass
    <3>3. answer = Ppf(Mass(i * One))
      BY <1>1, <1>5, <2>4, <3>1 DEF InverseOf
    <3>4. min + a - 1 \in {k, k + 1}
      BY <1>2, <2>1
    <3> HIDE DEF i
    <3> QED BY <3>2, <3>3, <3>4 DEF k
  <2>5. CASE k < max /\ method = "sf"
    <3> DEFINE t == max - k
    <3>1. t \in 1 .. Count - 1 /\ q = Mass(t * One)
      BY <1>4, <2>2, <2>5
    <3>2. PICK s \in {t - 1, t} : Isf(Mass(t * One)) = (max - s) * One
      <4> HIDE DEF t
      <4> QED BY <1>1, <3>1, IsfOfMass
    <3>3. answer = Isf(Mass(t * One))
      BY <1>1, <1>5, <2>5, <3>1 DEF InverseOf
    <3>4. max - s \in {k, k + 1}
      BY <1>2, <2>1
    <3> HIDE DEF t
    <3> QED BY <3>2, <3>3, <3>4 DEF k
  <2> QED BY <1>2, <1>3, <2>1, <2>3, <2>4, <2>5
<1>8. ASSUME method = "sf"
      PROVE  Sf([kind |-> "float", at |-> answer]) <= q
  <2> DEFINE p == [kind |-> "float", at |-> answer]
  <2>1. q = Sf(point) /\ (q \in {0, One} \/ \E t \in 1 .. Count - 1 : q = Mass(t * One))
    BY <1>1, <1>4, <1>8, NarrowPlaces
  <2>2. InUnit(q) /\ answer = Isf(q)
    <3>1. InUnit(q)
      BY <1>5, <1>6, <2>1
    <3> QED BY <1>1, <1>8, <3>1 DEF InverseOf
  <2>3. answer \in Int
    <3>1. Quantile(q) /\ q <= q
      BY <1>1, <1>2, <2>2 DEF InUnit, Quantile
    <3> QED BY <1>1, <2>2, <3>1, IsfFalls
  <2>4. p \in AnyPoint /\ Ordered(p) /\ p.at = answer /\ Top(p) = Hi
    BY <1>2, <2>3 DEF AnyPoint, Ordered, Top
  <2> HIDE DEF p
  <2>5. Sf(p) \in Int /\ Sf(p) <= One /\ (answer >= Hi => Sf(p) = 0)
    BY <1>1, <2>4, TailsFollowPlaces
  <2>6. CASE q = One
    BY <2>5, <2>6 DEF p
  <2>7. CASE q = 0
    <3>1. answer = Hi
      BY <1>1, <1>2, <2>2, <2>7, InversesAtEnds
    <3>2. Sf(p) = 0
      BY <1>2, <2>3, <2>5, <3>1
    <3> QED BY <2>7, <3>2 DEF p
  <2>8. ASSUME NEW t \in 1 .. Count - 1, q = Mass(t * One)
        PROVE  Sf(p) <= q
    <3>1. PICK s \in {t - 1, t} : Isf(Mass(t * One)) = (max - s) * One
      BY <1>1, IsfOfMass
    <3>2. answer = (max - s) * One
      BY <2>2, <2>8, <3>1
    <3>3. CASE s = 0
      <4>1. answer = Hi
        BY <1>2, <3>2, <3>3
      <4>2. Sf(p) = 0
        BY <1>2, <2>3, <2>5, <4>1
      <4>3. q \in Nat
        BY <1>5, <2>8
      <4> QED BY <4>2, <4>3
    <3>4. CASE s # 0
      <4>1. s \in 1 .. Count - 1 /\ s <= t /\ t <= Count /\ s \in Nat /\ t \in Nat
        BY <1>2, <3>4
      <4>2. Sf(p) = Mass(s * One)
        BY <1>1, <3>2, <4>1, SfOfStep DEF p
      <4>3. 0 <= s * One /\ s * One <= t * One /\ t * One <= Count * One /\ s * One \in Int /\ t * One \in Int
        BY <1>2, <4>1, Products
      <4>4. Mass(s * One) <= Mass(t * One)
        <5>1. 0 <= t * One /\ t * One <= n
          BY <1>2, <4>1, <4>3
        <5> QED BY <1>1, <4>3, <5>1, MassFacts
      <4> QED BY <2>8, <4>2, <4>4
    <3> QED BY <3>3, <3>4
  <2> QED BY <2>1, <2>6, <2>7, <2>8 DEF p
<1> QED BY <1>3, <1>7, <1>8

-----------------------------------------------------------------------------
\* The constructor takes bounds of the column, and no method has been called.
LEMMA InitIInv == Init => IInv
  BY DEF Init, IInv

\* Each step answers what its method answers of the bounds it leaves alone.
LEMMA NextIInv == IInv /\ [Next]_vars => IInv'
<1> SUFFICES ASSUME IInv, [Next]_vars
             PROVE  IInv'
  OBVIOUS
<1>1. CASE Validate
  <2>1. (Accepts(min, max))' = Accepts(min, max)
    BY <1>1 DEF Validate, Accepts
  <2> QED BY <1>1, <2>1 DEF Validate, IInv
<1>2. ASSUME NEW m \in {"cdf", "sf"}, NEW p \in Points, Evaluate(m, p)
      PROVE  IInv'
  <2>1. min' = min /\ max' = max
    BY <1>2 DEF Evaluate
  <2>2. q' = (IF method = "cdf" THEN Cdf(point) ELSE Sf(point))'
    BY <1>2, <2>1 DEF Evaluate, Cdf, Sf, Place, n, Lo, Hi
  <2>3. (Accepts(min, max))'
    BY <1>2, <2>1 DEF Evaluate, IInv, Accepts
  <2>4. Points' = Points
    BY DEF Points
  <2>5. Evaluated'
    BY <1>2, <2>2, <2>4 DEF Evaluate, Evaluated
  <2>6. phase' = "evaluated" /\ min' \in Bounds /\ max' \in Bounds
    BY <1>2, <2>1 DEF Evaluate, IInv
  <2> QED BY <2>3, <2>5, <2>6 DEF IInv
<1>3. CASE InvertBack
  <2>1. min' = min /\ max' = max /\ method' = method /\ q' = q
    BY <1>3 DEF InvertBack
  <2>2. answer' = (InverseOf(method, q))'
    BY <1>3, <2>1 DEF InvertBack, InverseOf, Ppf, Isf, Clamp, n, Lo, Hi
  <2>3. Accepts(min, max) /\ (Accepts(min, max))'
    BY <1>3, <2>1 DEF InvertBack, IInv, Accepts
  <2>4. Evaluated /\ Evaluated'
    <3>1. point' = point
      BY <1>3 DEF InvertBack
    <3> QED BY <1>3, <2>1, <3>1 DEF InvertBack, IInv, Evaluated, Points, Cdf, Sf, Place, n, Lo, Hi
  <2> QED BY <1>3, <2>1, <2>2, <2>3, <2>4 DEF InvertBack, IInv
<1>4. ASSUME NEW m \in {"ppf", "isf"}, NEW x \in Quantiles, Invert(m, x)
      PROVE  IInv'
  <2>1. min' = min /\ max' = max /\ method' = m /\ q' = x
    BY <1>4 DEF Invert
  <2>2. answer' = (InverseOf(method, q))'
    BY <1>4, <2>1 DEF Invert, InverseOf, Ppf, Isf, Clamp, n, Lo, Hi
  <2>3. (Accepts(min, max))'
    BY <1>4, <2>1 DEF Invert, IInv, Accepts
  <2> QED BY <1>4, <2>1, <2>2, <2>3 DEF Invert, IInv
<1>5. CASE Moment
  <2>1. min' = min /\ max' = max
    BY <1>5 DEF Moment
  <2>2. answer' = Midpoint'
    BY <1>5, <2>1 DEF Moment, Midpoint
  <2>3. (Accepts(min, max))'
    BY <1>5, <2>1 DEF Moment, IInv, Accepts
  <2> QED BY <1>5, <2>1, <2>2, <2>3 DEF Moment, IInv
<1>6. CASE UNCHANGED vars
  <2>1. /\ min' = min /\ max' = max /\ phase' = phase /\ method' = method
        /\ point' = point /\ q' = q /\ answer' = answer
    BY <1>6 DEF vars
  <2> QED BY <2>1 DEF IInv, Evaluated, Accepts, Points, Cdf, Sf, Place, InverseOf, Ppf, Isf, Clamp, Midpoint, n, Lo, Hi
<1> QED BY <1>1, <1>2, <1>3, <1>4, <1>5, <1>6 DEF Next, Finished

\* Every reachable state holds the answer of the method it called, of bounds that were accepted.
THEOREM DiscreteUniformInvariant == Spec => []IInv
<1> QED BY InitIInv, NextIInv, PTL DEF Spec

\* At an integer point, on a support of any accepted width, cdf never falls and sf never rises to the
\* next one, every value is a probability, and the ends are exactly 0 and 1, though the counts and the
\* reciprocal they are multiplied by are both rounded.  At a float point that is so where both bounds
\* are exact floats inside +-2^53: past them the casts of the bounds part by more than the bounds do,
\* and a tail passes 1 (CountsStayInside).
THEOREM CdfNeverFalls == Spec => []CdfClimbs
<1> QED BY DiscreteUniformInvariant, ClimbsHolds, PTL

\* An integer column and its cast to floats find the same probabilities on bounds inside +-2^53,
\* wherever the point lies.
THEOREM DtypesAgree == Spec => []IntAndFloatAgree
<1> QED BY DiscreteUniformInvariant, AgreementHolds, PTL

\* An inverse answers inside the support's casts and never a lower point to a higher quantile,
\* whichever of its correction steps fire on either side.
THEOREM InversesNeverCross == Spec => []InverseClimbs
<1> QED BY DiscreteUniformInvariant, InverseClimbsHolds, PTL

\* The midpoint of every accepted support is correct to a spacing of the floats, and correctly
\* rounded on bounds inside +-2^53, though the sum of the bounds may overflow.
THEOREM MidpointsAreExact == Spec => []MidpointIsExact
<1> QED BY DiscreteUniformInvariant, MidpointHolds, PTL

\* On a support narrower than the significands the inverse of the probability of a point answers the
\* point or the one above it, isf never one with more mass beyond it than it was asked for, and away
\* from the edges of the steps both inverses agree with rational arithmetic, though a reciprocal, a
\* product and a quotient round on the way.
THEOREM InversesUndoTails == Spec => []InversesInvert
<1>1. IInv => InversesInvert
  BY RoundTripsHold, RationalHolds DEF InversesInvert
<1> QED BY DiscreteUniformInvariant, <1>1, PTL
=============================================================================
