--------------------------- MODULE PoissonProofs ---------------------------
(***************************************************************************)
(* What holds of Poisson's search for every float format, distribution,    *)
(* quantile, estimate and error of evaluation.                             *)
(*                                                                         *)
(* Three things are argued in turn.  What lies between the ends of a       *)
(* bracket whose middle, rounded, is not inside it: no support point.      *)
(* What the search knows of either end: IInv, and from it the answers.     *)
(* How far a gallop whose additions round has come when it overflows:      *)
(* past every multiple of its spacing below its step.                      *)
(***************************************************************************)
EXTENDS PoissonQuantile, RoundingProofs

\* The support is the whole part of the floats' grid.
LEMMA SupportFacts ==
  ASSUME NEW k
  PROVE  k \in Support <=> k \in Grid /\ k < Infinity /\ k % One = 0
BY FloatsAndGrid DEF Support, WholeFloats

\* A format of three bits or more: a significand can be halved and stay above one.
LEMMA ThreeBits ==
  /\ Precision - 2 \in Nat /\ 2 ^ (Precision - 2) \in Nat /\ 2 <= 2 ^ (Precision - 2)
  /\ 2 ^ (Precision - 1) = 2 * 2 ^ (Precision - 2)
  /\ 2 ^ Precision = 2 * 2 ^ (Precision - 1) /\ 2 ^ (Precision - 1) \in Nat
  /\ FractionBits \in Nat /\ 2 <= FractionBits /\ FractionBits <= Precision + MaxExponent
<1>1. Precision \in Nat /\ 2 < Precision /\ FractionBits \in Nat /\ Precision - 1 <= FractionBits
      /\ FractionBits <= Precision + MaxExponent
  BY LevelsAssumption, FormatAssumption
<1>2. Precision - 2 \in Nat /\ (Precision - 2) + 1 = Precision - 1 /\ 1 \in Nat /\ 0 \in Nat /\ 1 <= Precision - 2
  BY <1>1
<1>3. 2 ^ 1 = 2
  BY PowerStep
<1>4. 2 ^ 1 <= 2 ^ (Precision - 2) /\ 2 ^ ((Precision - 2) + 1) = 2 * 2 ^ (Precision - 2)
  BY <1>2, PowerUpTo, PowerStep
<1> QED BY <1>1, <1>2, <1>3, <1>4, PowerIsPositive, FormatFacts

\* The exponent of the floats around a finite quantity.
LEMMA SpacingAt ==
  ASSUME NEW x \in Nat, x < Infinity
  PROVE  \E e \in 0 .. MaxExponent :
           /\ Spacing(x, 1) = 2 ^ e /\ x < 2 ^ Precision * 2 ^ e
           /\ e = 0 \/ 2 ^ (Precision - 1) * 2 ^ e <= x
<1>1. PICK e \in 0 .. MaxExponent + 1 :
           /\ Spacing(x, 1) = 2 ^ e
           /\ e = MaxExponent + 1 \/ x < 1 * (2 ^ Precision * 2 ^ e)
           /\ e = 0 \/ 1 * (2 ^ (Precision - 1) * 2 ^ e) <= x
  <2>1. 1 \in Nat \ {0}
    OBVIOUS
  <2> QED BY <2>1, NearestFacts, Zenon
<1>2. MaxExponent \in Nat /\ e \in Nat /\ 2 ^ Precision * 2 ^ e \in Nat /\ 2 ^ (Precision - 1) * 2 ^ e \in Nat
  BY <1>1, FormatFacts, PowerIsPositive
<1>3. e # MaxExponent + 1
  <2> SUFFICES ASSUME e = MaxExponent + 1 PROVE FALSE
    OBVIOUS
  <2>1. 2 ^ e = 2 * 2 ^ MaxExponent /\ 2 ^ MaxExponent \in Nat /\ e # 0
    BY <1>2, PowerStep, PowerIsPositive
  <2>2. Infinity = 2 ^ Precision * 2 ^ MaxExponent /\ 2 ^ Precision = 2 * 2 ^ (Precision - 1)
        /\ 2 ^ (Precision - 1) \in Nat
    BY FormatFacts, PowerSum DEF Infinity
  <2>3. Infinity = 2 ^ (Precision - 1) * 2 ^ e
    BY <2>1, <2>2
  <2> QED BY <1>1, <1>2, <2>1, <2>3
<1> QED BY <1>1, <1>2, <1>3

\* The spacing of the floats below a number is a power of two that its place bounds.
LEMMA SpacingBelow ==
  ASSUME NEW k \in Nat, k # 0, k < Infinity
  PROVE  \E e \in 0 .. MaxExponent :
           /\ Spacing(k - 1, 1) = 2 ^ e /\ k <= 2 ^ Precision * 2 ^ e
           /\ e = 0 \/ 2 ^ (Precision - 1) * 2 ^ e < k
<1>1. k - 1 \in Nat /\ k - 1 < Infinity /\ MaxExponent \in Nat
  BY FormatFacts
<1>2. PICK e \in 0 .. MaxExponent :
           /\ Spacing(k - 1, 1) = 2 ^ e /\ k - 1 < 2 ^ Precision * 2 ^ e
           /\ e = 0 \/ 2 ^ (Precision - 1) * 2 ^ e <= k - 1
  BY <1>1, SpacingAt
<1>3. e \in Nat /\ 2 ^ Precision * 2 ^ e \in Nat /\ 2 ^ (Precision - 1) * 2 ^ e \in Nat
  BY <1>1, FormatFacts, PowerIsPositive
<1> QED BY <1>1, <1>2, <1>3

\* What separates a support point from the one before it: a power of two, whole, and no narrower
\* than the spacing of any float below the point.
LEMMA GapBelow ==
  ASSUME NEW k \in Support, k # 0
  PROVE  \E c \in Nat :
           /\ Before(k) = k - 2 ^ c /\ Before(k) \in Support /\ FractionBits <= c
           /\ \E i \in Nat : k = i * 2 ^ c
           /\ \A j \in Support : j < k => j <= k - 2 ^ c
           /\ \A x \in Nat : x < k => Spacing(x, 1) <= 2 ^ c
           /\ \/ 2 ^ (Precision - 1) * 2 ^ c <= k - 2 ^ c
              \/ /\ c = FractionBits /\ k <= 2 ^ (Precision - 1) * One
                 /\ \A x \in Nat : x < k => 2 * Spacing(x, 1) <= One
<1>1. /\ k \in Grid /\ k \in Nat /\ k < Infinity /\ k % One = 0 /\ Infinity \in Nat
      /\ FractionBits \in Nat /\ One \in Nat \ {0} /\ MaxExponent \in Nat
      /\ 2 ^ Precision \in Nat /\ 2 ^ (Precision - 1) \in Nat \ {0}
      /\ 2 ^ Precision = 2 * 2 ^ (Precision - 1)
  BY SupportFacts, GridIsNat, FormatFacts
<1>2. PICK e \in 0 .. MaxExponent :
           /\ Spacing(k - 1, 1) = 2 ^ e /\ k <= 2 ^ Precision * 2 ^ e
           /\ e = 0 \/ 2 ^ (Precision - 1) * 2 ^ e < k
  BY <1>1, SpacingBelow
<1> DEFINE c == IF e <= FractionBits THEN FractionBits ELSE e
           g == 2 ^ c
           half == 2 ^ (Precision - 1)
<1>3. /\ c \in Nat /\ e \in Nat /\ FractionBits <= c /\ e <= c
      /\ g \in Nat \ {0} /\ 2 ^ e \in Nat \ {0} /\ 2 ^ e <= g /\ One <= g
  <2>1. c \in Nat /\ e \in Nat /\ FractionBits <= c /\ e <= c
    BY <1>1, <1>2
  <2> HIDE DEF c
  <2> QED BY <1>1, <2>1, PowerIsPositive, PowerUpTo DEF One
<1>4. Before(k) = k - g
  <2>1. Before(k) = k - (IF 2 ^ e > One THEN 2 ^ e ELSE One)
    BY <1>2 DEF Before
  <2>2. CASE e <= FractionBits
    <3>1. 2 ^ e <= One /\ g = One
      BY <1>1, <1>3, <2>2, PowerUpTo DEF One
    <3>2. ~ 2 ^ e > One
      BY <1>1, <1>3, <3>1
    <3> QED BY <2>1, <3>1, <3>2
  <2>3. CASE FractionBits < e
    <3>1. 2 * One <= 2 ^ e /\ g = 2 ^ e
      BY <1>1, <1>3, <2>3, PowerBelow DEF One
    <3>2. 2 ^ e > One
      BY <1>1, <1>3, <3>1
    <3> QED BY <2>1, <3>1, <3>2
  <2> QED BY <1>1, <1>3, <2>2, <2>3
<1>5. \E i \in Nat : k = i * g
  <2>1. CASE e <= FractionBits
    <3>0. k \in Int
      BY <1>1
    <3>1. PICK i \in Int : k = i * One
      BY <1>1, <3>0, Multiples, Zenon
    <3>2. i < 0 => One * i <= One * (-1)
      BY <1>1, Products
    <3>3. i \in Nat
      BY <1>1, <3>1, <3>2
    <3>4. g = One
      BY <2>1 DEF One
    <3> QED BY <3>1, <3>3, <3>4
  <2>2. CASE FractionBits < e
    <3>1. c = e /\ e # 0
      BY <1>1, <1>3, <2>2
    <3>2. half * 2 ^ e <= k
      BY <1>1, <1>2, <1>3, <3>1
    <3> QED BY <1>1, <1>3, <3>1, <3>2, MultipleFrom
  <2> QED BY <1>1, <1>3, <2>1, <2>2
<1> HIDE DEF c, g
<1>6. PICK i \in Nat : k = i * g
  BY <1>5
<1>7. i # 0 /\ i - 1 \in Nat /\ k - g = (i - 1) * g /\ i <= 2 ^ Precision
  <2>1. i # 0
    BY <1>3, <1>6
  <2>2. 2 ^ Precision * 2 ^ e <= 2 ^ Precision * g
    BY <1>1, <1>3, Products
  <2>3. g * i <= g * 2 ^ Precision
    BY <1>1, <1>2, <1>3, <1>6, <2>2
  <2>4. i <= 2 ^ Precision
    BY <1>1, <1>3, <2>3, Products
  <2> QED BY <1>3, <1>6, <2>1, <2>4
<1>8. k - g \in Support
  <2>1. k - g \in Nat /\ k - g < Infinity
    BY <1>1, <1>3, <1>7
  <2>2. k - g \in Grid
    <3>1. i - 1 <= 2 ^ Precision /\ (i - 1) * 2 ^ c <= Infinity
      BY <1>1, <1>7, <2>1 DEF g
    <3>2. (i - 1) * 2 ^ c \in Grid
      BY <1>3, <1>7, <3>1, GridValue
    <3> QED BY <1>7, <3>2 DEF g
  <2>3. (k - g) % One = 0
    <3>1. c - FractionBits \in Nat /\ g = One * 2 ^ (c - FractionBits)
      BY <1>1, <1>3, PowerUpTo DEF One, g
    <3>2. 2 ^ (c - FractionBits) \in Nat
      BY <3>1, PowerIsPositive
    <3>3. k - g = ((i - 1) * 2 ^ (c - FractionBits)) * One /\ (i - 1) * 2 ^ (c - FractionBits) \in Int
      BY <1>1, <1>7, <3>1, <3>2
    <3>4. k - g \in Int
      BY <2>1
    <3>5. \E j \in Int : k - g = j * One
      BY <3>3, Zenon
    <3> QED BY <1>1, <3>4, <3>5, Multiples, Zenon
  <2> QED BY <2>1, <2>2, <2>3, SupportFacts
<1>9. e # 0 /\ e = c => half * g <= k - g
  <2> SUFFICES ASSUME e # 0, e = c PROVE half * g <= k - g
    OBVIOUS
  <2>1. half * g < i * g
    BY <1>2, <1>6 DEF g
  <2>2. ~ i <= half
    <3>1. i <= half => g * i <= g * half
      BY <1>1, <1>3, Products
    <3> QED BY <1>1, <1>3, <2>1, <3>1
  <2>3. half <= i - 1
    BY <1>1, <2>2
  <2>4. half * g <= (i - 1) * g
    BY <1>1, <1>3, <1>7, <2>3, Products
  <2> QED BY <1>7, <2>4
<1>10. ASSUME NEW j \in Support, j < k PROVE j <= k - g
  <2>1. j \in Grid /\ j \in Nat /\ j % One = 0
    BY SupportFacts, GridIsNat
  <2>2. ASSUME NEW m \in Nat, j = m * g PROVE j <= k - g
    <3>1. m < i
      <4>1. i <= m => g * i <= g * m
        BY <1>3, Products
      <4> QED BY <1>3, <1>6, <1>10, <2>2, <4>1
    <3>2. m * g <= (i - 1) * g
      BY <1>3, <1>7, <3>1, Products
    <3> QED BY <1>7, <2>2, <3>2
  <2>3. CASE e <= FractionBits
    <3>1. g = One
      BY <2>3 DEF g, c, One
    <3>0. j \in Int
      BY <2>1
    <3>2. PICK m \in Int : j = m * One
      BY <1>1, <2>1, <3>0, Multiples, Zenon
    <3>3. m < 0 => One * m <= One * (-1)
      BY <1>1, Products
    <3>4. m \in Nat
      BY <1>1, <2>1, <3>2, <3>3
    <3> QED BY <2>2, <3>1, <3>2, <3>4
  <2>4. CASE FractionBits < e
    <3>1. e = c /\ e # 0
      BY <1>1, <2>4, <1>3 DEF c
    <3>2. CASE half * g <= j
      <4>1. \E m \in Nat : j = m * g
        BY <1>3, <2>1, <3>2, MultipleFrom DEF g
      <4> QED BY <2>2, <4>1
    <3>3. CASE j < half * g
      BY <1>1, <1>3, <1>9, <2>1, <3>1, <3>3
    <3> QED BY <1>1, <1>3, <2>1, <3>2, <3>3
  <2> QED BY <1>1, <1>3, <2>3, <2>4
<1>11. ASSUME NEW x \in Nat, x < k
       PROVE  \E d \in Nat : Spacing(x, 1) = 2 ^ d /\ (d = 0 \/ half * 2 ^ d < k)
  <2>1. 1 \in Nat \ {0}
    OBVIOUS
  <2>2. PICK d \in 0 .. MaxExponent + 1 :
           Spacing(x, 1) = 2 ^ d /\ (d = 0 \/ 1 * (half * 2 ^ d) <= x)
    BY <2>1, NearestFacts, Zenon
  <2>3. d \in Nat /\ 2 ^ d \in Nat
    BY <1>1, <2>2, PowerIsPositive
  <2> QED BY <1>1, <1>11, <2>2, <2>3
<1>12. ASSUME NEW x \in Nat, x < k PROVE Spacing(x, 1) <= g
  <2>1. PICK d \in Nat : Spacing(x, 1) = 2 ^ d /\ (d = 0 \/ half * 2 ^ d < k)
    BY <1>11, <1>12
  <2>2. d <= e
    <3> SUFFICES ASSUME e < d PROVE FALSE
      BY <1>3
    <3>1. 2 * 2 ^ e <= 2 ^ d /\ 2 ^ d \in Nat
      BY <1>3, PowerBelow, PowerIsPositive
    <3>2. half * (2 * 2 ^ e) <= half * 2 ^ d
      BY <1>1, <1>3, <3>1, Products
    <3>3. half * (2 * 2 ^ e) = 2 ^ Precision * 2 ^ e
      BY <1>1, <1>3
    <3> QED BY <1>1, <1>2, <1>3, <2>1, <3>1, <3>2, <3>3
  <2>3. 2 ^ d <= 2 ^ e /\ 2 ^ d \in Nat
    BY <1>3, <2>2, PowerUpTo, PowerIsPositive
  <2> QED BY <1>3, <2>1, <2>3
<1>13. \/ half * g <= k - g
       \/ /\ c = FractionBits /\ k <= half * One
          /\ \A x \in Nat : x < k => 2 * Spacing(x, 1) <= One
  <2>1. CASE e # 0 /\ FractionBits <= e
    <3>1. e = c
      BY <1>1, <1>3, <2>1 DEF c
    <3> QED BY <1>9, <2>1, <3>1
  <2>2. CASE e < FractionBits
    <3>1. c = FractionBits /\ 2 * 2 ^ e <= One
      BY <1>1, <1>3, <2>2, PowerBelow DEF c, One
    <3>2. k <= half * One
      <4>1. half * (2 * 2 ^ e) <= half * One
        BY <1>1, <1>3, <3>1, Products
      <4>2. half * (2 * 2 ^ e) = 2 ^ Precision * 2 ^ e
        BY <1>1, <1>3
      <4> QED BY <1>1, <1>2, <1>3, <4>1, <4>2
    <3>3. ASSUME NEW x \in Nat, x < k PROVE 2 * Spacing(x, 1) <= One
      <4>1. PICK d \in Nat : Spacing(x, 1) = 2 ^ d /\ (d = 0 \/ half * 2 ^ d < k)
        BY <1>11, <3>3
      <4>2. d < FractionBits
        <5> SUFFICES ASSUME FractionBits <= d PROVE FALSE
          BY <1>1
        <5>1. One <= 2 ^ d /\ 2 ^ d \in Nat /\ d # 0
          BY <1>1, <1>3, <2>2, PowerUpTo, PowerIsPositive DEF One
        <5>2. half * One <= half * 2 ^ d
          BY <1>1, <5>1, Products
        <5> QED BY <1>1, <3>2, <4>1, <5>1, <5>2
      <4> QED BY <1>1, <4>1, <4>2, PowerBelow DEF One
    <3> QED BY <3>1, <3>2, <3>3
  <2>3. FractionBits # 0
    BY ThreeBits
  <2> QED BY <1>1, <1>3, <2>1, <2>2, <2>3
<1> QED BY <1>3, <1>4, <1>6, <1>8, <1>10, <1>12, <1>13 DEF g

\* What the middle of a bracket adds to its lower end: half of what separates the two, rounded twice.
LEMMA Halfway ==
  ASSUME NEW a \in Nat, NEW b \in Grid, a <= b, b < Infinity
  PROVE  \E h \in Nat :
           /\ Midpoint(a, b) = Floor(Nearest(a + h, 1))
           /\ \A y \in Nat : y \in Grid /\ 2 * y \in Grid =>
                /\ b - a <= 2 * y => h <= y
                /\ 2 * y <= b - a => y <= h
<1> DEFINE d == Nearest(b - a, 1)
           h == Nearest(d, 2)
<1>1. b \in Nat /\ b - a \in Nat /\ 1 \in Nat \ {0} /\ 2 \in Nat \ {0} /\ Infinity \in Nat
  BY GridIsNat, FormatFacts
<1>2. d \in Nat
  BY <1>1, NearestIsNat
<1>3. d <= b
  <2>1. b - a <= b * 1
    BY <1>1
  <2> QED BY <1>1, <2>1, NearestKeepsGrid
<1>4. Minus(b, a) = d
  <2>1. Round(b - a, 1) = Nearest(b - a, 1)
    BY <1>1, RoundCases
  <2>2. b # Infinity
    BY <1>1
  <2> QED BY <2>1, <2>2 DEF Minus
<1> HIDE DEF d
<1>5. h \in Nat
  BY <1>1, <1>2, NearestIsNat
<1>6. h <= b
  <2>1. d <= b * 2
    BY <1>1, <1>2, <1>3
  <2> QED BY <1>1, <1>2, <2>1, NearestKeepsGrid
<1>7. Half(d) = h
  <2>1. Round(d, 2) = Nearest(d, 2)
    BY <1>1, <1>2, RoundCases
  <2>2. d # Infinity
    BY <1>1, <1>2, <1>3
  <2> QED BY <2>1, <2>2 DEF Half
<1> HIDE DEF h
<1>8. Midpoint(a, b) = Floor(Nearest(a + h, 1))
  <2>1. Round(a + h, 1) = Nearest(a + h, 1)
    BY <1>1, <1>5, RoundCases
  <2>2. Infinity \notin {a, h}
    BY <1>1, <1>5, <1>6
  <2> QED BY <1>4, <1>7, <2>1, <2>2 DEF Midpoint, Plus
<1>9. ASSUME NEW y \in Nat, y \in Grid, 2 * y \in Grid
      PROVE  /\ b - a <= 2 * y => h <= y
             /\ 2 * y <= b - a => y <= h
  <2>1. b - a <= (2 * y) * 1 => d <= 2 * y
    BY <1>1, <1>9, NearestKeepsGrid DEF d
  <2>2. (2 * y) * 1 <= b - a => 2 * y <= d
    BY <1>1, <1>9, NearestKeepsGrid DEF d
  <2>3. d <= y * 2 => h <= y
    BY <1>1, <1>2, <1>9, NearestKeepsGrid DEF h
  <2>4. y * 2 <= d => y <= h
    BY <1>1, <1>2, <1>9, NearestKeepsGrid DEF h
  <2> QED BY <1>1, <1>2, <1>5, <2>1, <2>2, <2>3, <2>4
<1> QED BY <1>5, <1>8, <1>9

\* A number above 1 and below Infinity lies between two powers of two of the format.
LEMMA PowerAround ==
  ASSUME NEW x \in Nat, 1 < x, x < Infinity
  PROVE  \E k \in Nat : k < Precision + MaxExponent /\ 2 ^ k < x /\ x <= 2 ^ (k + 1)
<1> DEFINE T == {k \in Nat : x <= 2 ^ (k + 1)}
<1>1. /\ Precision + MaxExponent - 1 \in Nat /\ (Precision + MaxExponent - 1) + 1 = Precision + MaxExponent
      /\ Precision + MaxExponent \in Nat /\ Infinity \in Nat
  BY FormatFacts
<1>2. Precision + MaxExponent - 1 \in T
  BY <1>1 DEF Infinity
<1>3. PICK k \in T : \A j \in T : k <= j
  <2>1. T \in SUBSET Nat /\ T # {}
    BY <1>2
  <2> HIDE DEF T
  <2> QED BY <2>1, LeastNatural
<1>4. k \in Nat /\ x <= 2 ^ (k + 1) /\ k < Precision + MaxExponent
  BY <1>1, <1>2, <1>3
<1>5. 2 ^ k < x
  <2>1. CASE k = 0
    BY <2>1
  <2>2. CASE k # 0
    <3>1. k - 1 \in Nat /\ (k - 1) + 1 = k /\ k - 1 \notin T
      BY <1>3, <1>4, <2>2
    <3>2. 2 ^ k \in Nat
      BY <1>4, PowerIsPositive
    <3> QED BY <3>1, <3>2
  <2> QED BY <2>1, <2>2
<1> QED BY <1>4, <1>5

\* Where something whole is left between them, the middle is above the lower end.
LEMMA MiddleIsAbove ==
  ASSUME NEW a \in Grid, a % Epsilon = 0, NEW b \in Grid, b < Infinity,
         NEW w \in Support, a < w, NEW k \in Support, w < k, k <= b
  PROVE  a < Midpoint(a, b)
<1> DEFINE f == Floor(a)
           half == 2 ^ (Precision - 1)
<1>1. /\ a \in Nat /\ b \in Nat /\ w \in Nat /\ k \in Nat /\ w \in Grid /\ k \in Grid
      /\ w % One = 0 /\ k % One = 0 /\ w < Infinity /\ k < Infinity /\ Infinity \in Nat
      /\ One \in Nat \ {0} /\ FractionBits \in Nat /\ half \in Nat \ {0}
      /\ 2 ^ Precision = 2 * half /\ 1 \in Nat \ {0} /\ MaxExponent \in Nat /\ Precision \in Nat
  BY SupportFacts, GridIsNat, FormatFacts
<1>2. f \in Grid /\ f \in Nat /\ f <= a /\ a < f + One /\ f % One = 0
  BY FloorOfGrid
<1> HIDE DEF f
<1>3. PICK h \in Nat :
           /\ Midpoint(a, b) = Floor(Nearest(a + h, 1))
           /\ \A y \in Nat : y \in Grid /\ 2 * y \in Grid =>
                /\ b - a <= 2 * y => h <= y
                /\ 2 * y <= b - a => y <= h
  <2>1. a <= b
    BY <1>1
  <2> QED BY <1>1, <2>1, Halfway
\* It is enough to find a whole value past the lower end that half the bracket goes up to.
<1>4. ASSUME NEW y \in Nat, y \in Grid, 2 * y \in Grid, 2 * y <= b - a,
             NEW s \in Grid, s % One = 0, a < s, s <= a + y
      PROVE  a < Midpoint(a, b)
  <2>1. y <= h /\ s \in Nat
    BY <1>3, <1>4, GridIsNat
  <2>2. s * 1 <= a + h /\ a + h \in Nat
    BY <1>1, <1>4, <2>1
  <2>3. s <= Nearest(a + h, 1)
    BY <1>1, <2>2, <1>4, NearestKeepsGrid
  <2>4. Nearest(a + h, 1) \in Nat
    BY <1>1, <2>2, NearestIsNat
  <2>5. s <= Floor(Nearest(a + h, 1)) /\ Floor(Nearest(a + h, 1)) \in Int
    <3>1. PICK i \in Int : s = i * One
      <4>1. s \in Int
        BY <2>1
      <4> QED BY <1>1, <1>4, <4>1, Multiples, Zenon
    <3>2. Nearest(a + h, 1) <= Nearest(a + h, 1) /\ Nearest(a + h, 1) \in Int
      BY <2>4
    <3> QED BY <2>3, <3>1, <3>2, FloorFacts
  <2> QED BY <1>1, <1>3, <1>4, <2>1, <2>5
\* Whole numbers in order are 1 apart.
<1>5. \A i, j \in Nat : i % One = 0 /\ j % One = 0 /\ i < j => i + One <= j
  <2> TAKE i, j \in Nat
  <2> HAVE i % One = 0 /\ j % One = 0 /\ i < j
  <2>0. i \in Int /\ j \in Int
    OBVIOUS
  <2>1. PICK m \in Int : i = m * One
    BY <1>1, <2>0, Multiples, Zenon
  <2>2. PICK n \in Int : j = n * One
    BY <1>1, <2>0, Multiples, Zenon
  <2>3. n <= m => One * n <= One * m
    BY <1>1, Products
  <2>4. m < n => One * m + One <= One * n
    BY <1>1, Products
  <2> QED BY <1>1, <2>1, <2>2, <2>3, <2>4
<1>6. CASE f < 2 ^ Precision * One
  <2> DEFINE s == f + One
             y == s - a
  <2>1. s \in Nat /\ y \in Nat /\ y <= One /\ 1 <= y /\ a < s /\ s = a + y
    BY <1>1, <1>2
  <2>2. s <= w /\ s + One <= k
    <3>1. f < w
      BY <1>1, <1>2
    <3> QED BY <1>1, <1>2, <1>5, <3>1
  <2>3. s \in Grid /\ s % One = 0
    <3>1. f \in Int
      BY <1>2
    <3>2. PICK i \in Int : f = i * One
      BY <1>1, <1>2, <3>1, Multiples, Zenon
    <3>3. s = (i + 1) * One /\ i + 1 \in Int
      BY <1>1, <3>2
    <3>4. i + 1 \in Nat /\ i + 1 <= 2 ^ Precision
      <4>1. i + 1 <= 0 => One * (i + 1) <= One * 0
        BY <1>1, <3>2, Products
      <4>2. 2 ^ Precision <= i => One * 2 ^ Precision <= One * i
        BY <1>1, <3>2, Products
      <4> QED BY <1>1, <1>2, <1>6, <3>2, <4>1, <4>2
    <3>5. (i + 1) * 2 ^ FractionBits <= Infinity
      BY <1>1, <2>1, <2>2, <3>3 DEF One
    <3>6. (i + 1) * 2 ^ FractionBits \in Grid
      BY <1>1, <3>4, <3>5, GridValue
    <3>7. s \in Int
      BY <2>1
    <3>8. s % One = 0
      <4> HIDE DEF s
      <4>1. \E j \in Int : s = j * One
        BY <3>3
      <4> QED BY <1>1, <3>7, <4>1, Multiples, Zenon
    <3> QED BY <3>3, <3>6, <3>8 DEF One
  <2>4. y \in Grid /\ 2 * y \in Grid
    <3> DEFINE c == FractionBits - (Precision - 1)
    <3>1. c \in Nat /\ One = half * Epsilon /\ Epsilon = 2 ^ c /\ Epsilon \in Nat \ {0}
      <4>1. c \in Nat /\ (Precision - 1) \in Nat /\ Precision - 1 <= FractionBits
        BY <1>1, FormatAssumption
      <4> QED BY <1>1, <4>1, PowerUpTo, PowerIsPositive DEF One, Epsilon
    <3> HIDE DEF c
    <3>2. PICK m \in Int : y = m * Epsilon
      <4>0. a \in Int /\ f \in Int
        BY <1>1, <1>2
      <4>1. PICK i \in Int : a = i * Epsilon
        BY <3>1, <4>0, Multiples, Zenon
      <4>2. PICK j \in Int : f = j * One
        BY <1>1, <1>2, <4>0, Multiples, Zenon
      <4>3. y = (j * half + half - i) * Epsilon /\ j * half + half - i \in Int
        <5>1. j * One = (j * half) * Epsilon
          BY <1>1, <3>1, <4>2
        <5> QED BY <1>1, <3>1, <4>1, <4>2, <5>1
      <4> QED BY <4>3
    <3>3. m \in Nat /\ m <= half
      <4>1. m < 0 => Epsilon * m <= Epsilon * (-1)
        BY <3>1, <3>2, Products
      <4>2. half < m => Epsilon * half < Epsilon * m
        BY <1>1, <3>1, <3>2, Products
      <4> HIDE DEF y
      <4> QED BY <1>1, <2>1, <3>1, <3>2, <4>1, <4>2
    <3>4. m <= 2 ^ Precision /\ 2 * m <= 2 ^ Precision /\ 2 * m \in Nat
      BY <1>1, <3>3
    <3>5. 2 * y = (2 * m) * Epsilon /\ y <= Infinity /\ 2 * y <= Infinity
      BY <1>1, <2>1, <2>2, <3>1, <3>2, <3>3
    <3>6. m * 2 ^ c \in Grid
      BY <3>1, <3>2, <3>3, <3>4, <3>5, GridValue
    <3>7. (2 * m) * 2 ^ c \in Grid
      BY <3>1, <3>2, <3>3, <3>4, <3>5, GridValue
    <3> QED BY <3>1, <3>2, <3>5, <3>6, <3>7
  <2>5. 2 * y <= b - a
    BY <1>1, <1>2, <2>1, <2>2
  <2> HIDE DEF s, y
  <2> QED BY <1>4, <2>1, <2>3, <2>4, <2>5
<1>7. CASE 2 ^ Precision * One <= f
  <2>1. a = f /\ 2 ^ Precision * One <= a
    <3>1. half * One <= a
      BY <1>1, <1>2, <1>7
    <3>2. a % One = 0
      BY <3>1, FloorOfGrid
    <3>3. f = a
      BY <3>2, FloorOfGrid DEF f
    <3> QED BY <1>7, <3>3
  <2>2. PICK e \in 0 .. MaxExponent :
           /\ a + 1 <= 2 ^ Precision * 2 ^ e
           /\ e = 0 \/ half * 2 ^ e < a + 1
    <3>1. a + 1 \in Nat /\ a + 1 # 0 /\ a + 1 < Infinity
      BY <1>1
    <3> QED BY <3>1, SpacingBelow
  <2> DEFINE g == 2 ^ e
  <2>3. e \in Nat /\ g \in Nat \ {0} /\ 2 ^ (e + 1) = 2 * g
    BY <1>1, <2>2, PowerIsPositive, PowerStep
  <2>4. FractionBits < e
    <3> SUFFICES ASSUME e <= FractionBits PROVE FALSE
      BY <1>1, <2>3
    <3>1. g <= One
      BY <1>1, <2>3, PowerUpTo DEF One
    <3>2. 2 ^ Precision * g <= 2 ^ Precision * One
      BY <1>1, <2>3, <3>1, Products
    <3> QED BY <1>1, <2>1, <2>2, <2>3, <3>2
  <2>5. half * g <= a
    BY <1>1, <2>2, <2>3, <2>4
  <2>6. PICK i \in Nat : a = i * g
    BY <2>3, <2>5, MultipleFrom
  <2>7. PICK j \in Nat : w = j * g
    <3>1. half * g <= w
      BY <1>1, <2>3, <2>5
    <3> QED BY <1>1, <2>3, <3>1, MultipleFrom
  <2>8. PICK m \in Nat : k = m * g
    <3>1. half * g <= k
      BY <1>1, <2>3, <2>5
    <3> QED BY <1>1, <2>3, <3>1, MultipleFrom
  <2> HIDE DEF g
  <2>9. a + g <= w /\ w + g <= k
    <3>1. j <= i => g * j <= g * i
      BY <2>3, Products
    <3>2. i < j => g * i + g <= g * j
      BY <2>3, Products
    <3>3. m <= j => g * m <= g * j
      BY <2>3, Products
    <3>4. j < m => g * j + g <= g * m
      BY <2>3, Products
    <3>5. g * i = a /\ g * j = w /\ g * m = k
      BY <2>3, <2>6, <2>7, <2>8
    <3> QED BY <1>1, <2>3, <3>1, <3>2, <3>3, <3>4, <3>5
  <2>10. g \in Grid /\ 2 * g \in Grid
    <3>1. e + 1 \in Nat /\ e + 1 <= Precision + MaxExponent /\ e <= Precision + MaxExponent
      <4>1. 1 <= Precision
        BY FormatFacts
      <4> QED BY <1>1, <2>2, <2>3, <4>1
    <3> QED BY <2>3, <3>1, PowerInGrid DEF g
  <2>11. a + g \in Grid /\ (a + g) % One = 0
    <3>1. a + g = (i + 1) * g /\ i + 1 \in Nat
      BY <2>3, <2>6
    <3>2. i + 1 <= 2 ^ Precision
      <4>1. 2 ^ Precision <= i => g * 2 ^ Precision <= g * i
        BY <1>1, <2>3, Products
      <4>2. a < 2 ^ Precision * g
        BY <1>1, <2>2, <2>3 DEF g
      <4> QED BY <1>1, <2>3, <2>6, <4>1, <4>2
    <3>3. a + g <= Infinity
      BY <1>1, <2>3, <2>9
    <3>4. (i + 1) * 2 ^ e \in Grid
      BY <2>3, <3>1, <3>2, <3>3, GridValue DEF g
    <3>5. a + g \in Grid
      BY <3>1, <3>4 DEF g
    <3>6. half * One <= a + g
      BY <1>1, <2>1, <2>3
    <3> QED BY <3>5, <3>6, FloorOfGrid
  <2>12. 2 * g <= b - a /\ a < a + g /\ a + g <= a + g
    BY <1>1, <2>3, <2>9
  <2> QED BY <1>4, <2>3, <2>10, <2>11, <2>12
<1> QED BY <1>1, <1>2, <1>6, <1>7

\* Where a support point is left between them, the middle is below the upper end: half of a long
\* bracket, rounded up, is still short of three quarters of it, and half of a short one is exact or
\* nearly so.
LEMMA MiddleIsBelow ==
  ASSUME NEW a \in Grid, a % Epsilon = 0, NEW b \in Grid, b < Infinity,
         NEW k \in Support, k # 0, k = Floor(b), a < Before(k)
  PROVE  Midpoint(a, b) < b
<1> DEFINE half == 2 ^ (Precision - 1)
           x == b - a
<1>1. /\ a \in Nat /\ b \in Nat /\ k \in Nat /\ k \in Grid /\ k <= b
      /\ One \in Nat \ {0} /\ FractionBits \in Nat /\ half \in Nat \ {0} /\ Infinity \in Nat
      /\ 2 ^ Precision = 2 * half /\ 1 \in Nat \ {0} /\ Precision \in Nat
      /\ 4 <= half /\ 2 <= FractionBits
  <2>1. k \in Grid /\ k <= b
    BY SupportFacts, FloorOfGrid
  <2>2. 4 <= half
    BY ThreeBits
  <2> QED BY <2>1, <2>2, GridIsNat, FormatFacts, ThreeBits
<1>2. PICK c \in Nat :
           /\ Before(k) = k - 2 ^ c /\ FractionBits <= c
           /\ \E i \in Nat : k = i * 2 ^ c
           /\ \A z \in Nat : z < k => Spacing(z, 1) <= 2 ^ c
           /\ \/ half * 2 ^ c <= k - 2 ^ c
              \/ /\ c = FractionBits /\ k <= half * One
                 /\ \A z \in Nat : z < k => 2 * Spacing(z, 1) <= One
  BY GapBelow
<1> DEFINE g == 2 ^ c
<1>3. /\ g \in Nat \ {0} /\ One <= g /\ 4 <= One
  <2>1. 2 ^ 2 = 4 /\ 2 \in Nat
    BY PowerStep
  <2>2. 2 ^ 2 <= One
    BY <1>1, <2>1, PowerUpTo DEF One
  <2>3. One <= g
    BY <1>1, <1>2, PowerUpTo DEF One
  <2> QED BY <1>2, <2>1, <2>2, <2>3, PowerIsPositive
<1>4. a < k - g /\ x \in Nat /\ g < x /\ x <= b
  BY <1>1, <1>2, <1>3
<1>5. PICK h \in Nat :
           /\ Midpoint(a, b) = Floor(Nearest(a + h, 1))
           /\ \A y \in Nat : y \in Grid /\ 2 * y \in Grid =>
                /\ x <= 2 * y => h <= y
                /\ 2 * y <= x => y <= h
  <2>1. a <= b
    BY <1>1, <1>4
  <2> QED BY <1>1, <2>1, Halfway
<1> HIDE DEF g, x
<1>6. Nearest(a + h, 1) \in Grid /\ Nearest(a + h, 1) \in Nat /\ a + h \in Nat
  BY <1>1, NearestInGrid, NearestIsNat
<1>7. Floor(Nearest(a + h, 1)) <= Nearest(a + h, 1) /\ Floor(Nearest(a + h, 1)) \in Nat
  BY <1>6, FloorOfGrid
<1>8. PICK p \in Nat : p < Precision + MaxExponent /\ 2 ^ p < x /\ x <= 2 ^ (p + 1)
  <2>1. 1 < x /\ x < Infinity
    BY <1>1, <1>3, <1>4
  <2> QED BY <1>4, <2>1, PowerAround
<1>9. /\ 2 ^ p \in Nat /\ 2 ^ (p + 1) = 2 * 2 ^ p
      /\ 2 ^ p \in Grid /\ 2 * 2 ^ p \in Grid /\ 2 * 2 ^ p <= Infinity
  <2>1. 2 ^ p \in Nat /\ 2 ^ (p + 1) = 2 * 2 ^ p
    BY <1>8, PowerIsPositive, PowerStep
  <2>2. p + 1 \in Nat /\ p + 1 <= Precision + MaxExponent /\ p <= Precision + MaxExponent
        /\ Precision + MaxExponent \in Nat
    BY <1>8, FormatFacts
  <2>3. 2 ^ (p + 1) <= Infinity
    BY <2>2, PowerUpTo DEF Infinity
  <2> QED BY <2>1, <2>2, <2>3, PowerInGrid
<1>10. CASE b % One # 0
  <2>1. h <= 2 ^ p
    BY <1>5, <1>8, <1>9
  <2>2. a + h <= b * 1
    BY <1>1, <1>4, <1>8, <1>9, <2>1 DEF x
  <2>3. Nearest(a + h, 1) <= b
    BY <1>1, <1>6, <2>2, NearestKeepsGrid
  <2>4. Floor(Nearest(a + h, 1)) <= Floor(b)
    BY <1>1, <1>6, <2>3, FloorFacts
  <2>5. k # b
    <3>1. k % One = 0
      BY SupportFacts
    <3> QED BY <1>10, <3>1
  <2> QED BY <1>1, <1>5, <1>7, <2>4, <2>5
\* From here on the upper end is a support point, and rounding must not reach it.
<1>11. ASSUME b = k, NEW y \in Nat, y \in Grid, 2 * y \in Grid, x <= 2 * y,
              \/ 2 * y < 2 * x - g
              \/ 2 * y <= 2 * x - g /\ \A z \in Nat : z < k => 2 * Spacing(z, 1) <= One
       PROVE  Midpoint(a, b) < b
  <2>1. h <= y
    BY <1>5, <1>11
  <2>2. a + h < k
    BY <1>1, <1>3, <1>4, <1>11, <2>1 DEF x
  <2>3. Spacing(a + h, 1) \in Nat
    <3>1. PICK d \in 0 .. MaxExponent + 1 : Spacing(a + h, 1) = 2 ^ d
      BY <1>1, <1>6, SpacingFacts
    <3> QED BY <3>1, FormatFacts, PowerIsPositive
  <2>4. 2 * (a + h) + Spacing(a + h, 1) < 2 * k
    <3>1. Spacing(a + h, 1) <= g
      BY <1>2, <1>6, <2>2 DEF g
    <3>2. 2 * (a + h) <= 2 * k - 2 * x + 2 * y
      BY <1>1, <1>4, <1>11, <2>1 DEF x
    <3>3. CASE 2 * y < 2 * x - g
      BY <1>1, <1>3, <1>4, <2>3, <3>1, <3>2, <3>3
    <3>4. CASE 2 * y <= 2 * x - g /\ \A z \in Nat : z < k => 2 * Spacing(z, 1) <= One
      <4>1. 2 * Spacing(a + h, 1) <= One
        BY <1>6, <2>2, <3>4
      <4> QED BY <1>1, <1>3, <1>4, <2>3, <3>2, <3>4, <4>1
    <3> QED BY <1>11, <3>3, <3>4
  <2>5. Nearest(a + h, 1) < k
    <3>1. k <= Infinity
      BY <1>1
    <3> QED BY <1>1, <1>6, <2>4, <3>1, NearestStaysBelow
  <2> QED BY <1>1, <1>5, <1>6, <1>7, <1>11, <2>5
<1>12. CASE b = k /\ 2 * g <= x
  <2>1. 2 <= p
    <3>1. p < 2 => 2 * 2 ^ p <= 2 ^ 2
      BY <1>8, PowerBelow
    <3>2. 2 ^ 2 = 4
      BY PowerStep
    <3>3. 8 <= x /\ x <= 2 * 2 ^ p
      BY <1>1, <1>3, <1>4, <1>8, <1>9, <1>12
    <3>4. ~ p < 2
      BY <1>4, <1>9, <3>1, <3>2, <3>3
    <3> QED BY <1>8, <3>4
  <2>2. CASE 2 * x <= 3 * 2 ^ p
    <3> DEFINE u == 2 ^ (p - 2)
    <3>1. p - 2 \in Nat /\ p - 1 \in Nat /\ (p - 2) + 1 = p - 1 /\ (p - 1) + 1 = p
      BY <1>8, <2>1
    <3>2. u \in Nat /\ 2 ^ (p - 1) = 2 * u /\ 2 ^ p = 4 * u
      <4>1. 2 ^ ((p - 2) + 1) = 2 * 2 ^ (p - 2) /\ 2 ^ ((p - 1) + 1) = 2 * 2 ^ (p - 1) /\ 2 ^ (p - 2) \in Nat
        BY <3>1, PowerStep, PowerIsPositive
      <4> QED BY <3>1, <4>1
    <3>3. 3 * u \in Nat /\ 3 * 2 ^ (p - 1) = 2 * (3 * u) /\ 3 <= 2 ^ Precision
      BY <1>1, <3>2
    <3>4. 3 * u <= Infinity /\ 2 * (3 * u) <= Infinity
      BY <1>1, <1>9, <3>2
    <3>5. 3 * u \in Grid /\ 2 * (3 * u) \in Grid
      <4>1. 3 * 2 ^ (p - 2) \in Grid /\ 3 * 2 ^ (p - 1) \in Grid
        BY <3>1, <3>3, <3>4, GridValue
      <4> QED BY <3>3, <4>1
    <3> HIDE DEF u
    <3>6. x <= 2 * (3 * u) /\ 2 * (3 * u) < 2 * x - g
      BY <1>3, <1>4, <1>8, <1>12, <2>2, <3>2
    <3> QED BY <1>11, <1>12, <3>3, <3>5, <3>6
  <2>3. CASE 3 * 2 ^ p < 2 * x
    <3>1. x <= 2 * 2 ^ p /\ 2 * 2 ^ p < 2 * x - g
      BY <1>3, <1>4, <1>8, <1>9, <1>12, <2>3
    <3> QED BY <1>9, <1>11, <1>12, <3>1
  <2> QED BY <1>4, <1>9, <2>2, <2>3
<1>13. CASE b = k /\ x < 2 * g /\ half * g <= k - g
  <2> DEFINE u == 2 ^ (c - 2)
  <2>1. c - 2 \in Nat /\ c - 1 \in Nat /\ (c - 2) + 1 = c - 1 /\ (c - 1) + 1 = c
    BY <1>1, <1>2
  <2>2. u \in Nat \ {0} /\ 2 ^ (c - 1) = 2 * u /\ g = 4 * u
    <3>1. 2 ^ ((c - 2) + 1) = 2 * 2 ^ (c - 2) /\ 2 ^ ((c - 1) + 1) = 2 * 2 ^ (c - 1) /\ 2 ^ (c - 2) \in Nat \ {0}
      BY <2>1, PowerStep, PowerIsPositive
    <3> QED BY <2>1, <3>1 DEF g
  <2> HIDE DEF u
  <2>3. PICK m \in Nat : a = m * 2 ^ (c - 1)
    <3>1. half * 2 ^ (c - 1) <= a
      <4>1. 4 * g <= half * g
        BY <1>1, <1>3, Products
      <4>2. 2 * (half * 2 ^ (c - 1)) = half * g
        BY <1>1, <2>2
      <4>3. k - 2 * g < a
        BY <1>1, <1>3, <1>4, <1>13 DEF x
      <4>4. half * 2 ^ (c - 1) \in Nat /\ half * g \in Nat
        BY <1>1, <1>3, <2>2
      <4> QED BY <1>1, <1>3, <1>13, <4>1, <4>2, <4>3, <4>4
    <3> QED BY <2>1, <3>1, MultipleFrom
  <2>4. PICK i \in Nat : k = i * g
    BY <1>2 DEF g
  <2>5. x = (2 * i - m) * (2 * u) /\ 2 * i - m \in Int
    BY <1>1, <1>13, <2>2, <2>3, <2>4 DEF x
  <2>6. 2 * i - m = 3
    <3> DEFINE t == 2 * i - m
    <3>1. t <= 2 => (2 * u) * t <= (2 * u) * 2
      BY <2>2, <2>5, Products
    <3>2. 4 <= t => (2 * u) * 4 <= (2 * u) * t
      BY <2>2, <2>5, Products
    <3>3. (2 * u) * t = x
      BY <2>2, <2>5
    <3>4. t \in Int
      BY <2>5
    <3> HIDE DEF t
    <3>5. t = 3
      BY <1>3, <1>4, <1>13, <2>2, <3>1, <3>2, <3>3, <3>4
    <3> QED BY <3>5 DEF t
  <2>7. 3 * u \in Nat /\ x = 2 * (3 * u) /\ 3 * 2 ^ (c - 1) = 2 * (3 * u) /\ 3 <= 2 ^ Precision
    BY <1>1, <2>2, <2>5, <2>6
  <2>8. 3 * u <= Infinity /\ 2 * (3 * u) <= Infinity
    BY <1>1, <1>4, <2>2, <2>7
  <2>9. 3 * u \in Grid /\ 2 * (3 * u) \in Grid
    <3>1. 3 * 2 ^ (c - 2) \in Grid /\ 3 * 2 ^ (c - 1) \in Grid
      BY <2>1, <2>7, <2>8, GridValue DEF u
    <3> QED BY <2>7, <3>1 DEF u
  <2>10. x <= 2 * (3 * u) /\ 2 * (3 * u) < 2 * x - g
    BY <1>3, <1>4, <2>2, <2>7
  <2> QED BY <1>11, <1>13, <2>7, <2>9, <2>10
<1>14. CASE /\ b = k /\ x < 2 * g /\ c = FractionBits
            /\ \A z \in Nat : z < k => 2 * Spacing(z, 1) <= One
  <2> DEFINE d == FractionBits - (Precision - 1)
  <2>1. d \in Nat /\ One = half * Epsilon /\ Epsilon = 2 ^ d /\ Epsilon \in Nat \ {0} /\ g = One
    <3>1. d \in Nat /\ (Precision - 1) \in Nat /\ Precision - 1 <= FractionBits
      BY <1>1, FormatAssumption
    <3> QED BY <1>1, <1>14, <3>1, PowerUpTo, PowerIsPositive DEF One, Epsilon, g
  <2> HIDE DEF d
  <2>2. PICK m \in Int : x = m * Epsilon
    <3>0. a \in Int /\ k \in Int /\ k % One = 0
      BY <1>1, SupportFacts
    <3>1. PICK i \in Int : a = i * Epsilon
      BY <2>1, <3>0, Multiples, Zenon
    <3>2. PICK j \in Int : k = j * One
      BY <1>1, <3>0, Multiples, Zenon
    <3>3. x = (j * half - i) * Epsilon /\ j * half - i \in Int
      <4>1. j * One = (j * half) * Epsilon
        BY <1>1, <2>1, <3>2
      <4> QED BY <1>1, <1>14, <2>1, <3>1, <3>2, <4>1 DEF x
    <3> QED BY <3>3
  <2>3. half < m /\ m < 2 * half
    <3>1. m <= half => Epsilon * m <= Epsilon * half
      BY <1>1, <2>1, <2>2, Products
    <3>2. 2 * half <= m => Epsilon * (2 * half) <= Epsilon * m
      BY <1>1, <2>1, <2>2, Products
    <3> QED BY <1>1, <1>3, <1>4, <1>14, <2>1, <2>2, <3>1, <3>2
  <2> DEFINE n == (m + 1) \div 2
  <2>4. n \in Nat /\ n <= half /\ 2 * n \in {m, m + 1}
    BY <1>1, <2>2, <2>3
  <2> HIDE DEF n
  <2>5. n * Epsilon \in Nat /\ 2 * (n * Epsilon) = (2 * n) * Epsilon /\ 2 * (n * Epsilon) \in {x, x + Epsilon}
    BY <2>1, <2>2, <2>4
  <2>6. Epsilon <= x - g
    <3>1. Epsilon * (half + 1) <= Epsilon * m
      BY <1>1, <2>1, <2>2, <2>3, Products
    <3> QED BY <1>1, <1>4, <2>1, <2>2, <3>1
  <2>7. n * Epsilon <= Infinity /\ (2 * n) * Epsilon <= Infinity
    <3>1. (2 * n) * Epsilon <= x + Epsilon /\ x + Epsilon \in Nat
      BY <1>4, <2>1, <2>5
    <3>2. n * Epsilon <= x
      BY <1>4, <2>1, <2>5, <2>6, <1>3
    <3>3. (2 * n) * Epsilon <= 2 * One
      <4>1. Epsilon * (2 * n) <= Epsilon * (2 * half)
        BY <1>1, <2>1, <2>4, Products
      <4> QED BY <1>1, <2>1, <2>4, <4>1
    <3>4. 2 * One <= Infinity
      <4>1. CASE 2 * One <= k
        BY <1>1, <4>1
      <4>2. CASE k < 2 * One
        <5>1. PICK i \in Nat : k = i * g
          BY <1>2 DEF g
        <5>2. i <= 1 => One * i <= One * 1
          BY <1>1, <5>1, Products
        <5>3. 2 <= i => One * 2 <= One * i
          BY <1>1, <5>1, Products
        <5> QED BY <1>1, <1>4, <2>1, <4>2, <5>1, <5>2, <5>3
      <4> QED BY <1>1, <4>1, <4>2
    <3> QED BY <1>1, <1>4, <2>1, <2>4, <2>5, <3>2, <3>3, <3>4
  <2>8. n * Epsilon \in Grid /\ 2 * (n * Epsilon) \in Grid
    <3>1. n <= 2 ^ Precision /\ 2 * n <= 2 ^ Precision /\ 2 * n \in Nat
      BY <1>1, <2>4
    <3> QED BY <2>1, <2>4, <2>5, <2>7, <3>1, GridValue
  <2>9. x <= 2 * (n * Epsilon) /\ 2 * (n * Epsilon) <= 2 * x - g
    BY <1>3, <1>4, <2>1, <2>5, <2>6
  <2> QED BY <1>11, <1>14, <2>5, <2>8, <2>9
<1>15. b % One = 0 => b = k
  BY FloorOfGrid
<1> QED BY <1>2, <1>3, <1>4, <1>10, <1>12, <1>13, <1>14, <1>15 DEF g

\* A bracket whose middle is not inside it holds no support point above its lower end but the one
\* under its upper end.
LEMMA NothingInside ==
  ASSUME NEW a \in Floats, a % Epsilon = 0, NEW b \in Floats, ~ (a < Midpoint(a, b) /\ Midpoint(a, b) < b)
  PROVE  Floor(b) = 0 \/ Before(Floor(b)) <= Floor(a)
<1> DEFINE k == Floor(b)
           w == Before(k)
<1>1. a \in Grid /\ b \in Grid /\ b < Infinity /\ One \in Nat \ {0} /\ a \in Nat /\ b \in Nat /\ Infinity \in Nat
  BY FloatsAndGrid, FormatFacts, GridIsNat
<1>2. k \in Support /\ k <= b /\ k \in Nat
  <2>1. k \in Grid /\ k \in Nat /\ k <= b /\ k % One = 0
    BY <1>1, FloorOfGrid
  <2> QED BY <1>1, <2>1, SupportFacts
<1> SUFFICES ASSUME k # 0, ~ w <= Floor(a) PROVE FALSE
  OBVIOUS
<1>3. w \in Support /\ w < k
  <2>1. PICK c \in Nat : w = k - 2 ^ c /\ w \in Support
    <3> HIDE DEF k
    <3> QED BY <1>2, GapBelow
  <2>2. 2 ^ c \in Nat \ {0}
    BY PowerIsPositive
  <2> QED BY <1>2, <2>1, <2>2
<1>4. a < w
  <2>1. Floor(a) \in Nat /\ a < Floor(a) + One
    BY <1>1, FloorOfGrid
  <2>2. w \in Nat /\ w % One = 0
    BY <1>3, SupportFacts, GridIsNat
  <2>3. PICK i \in Int : w = i * One
    <3>1. w \in Int
      BY <2>2
    <3> HIDE DEF w
    <3> QED BY <1>1, <2>2, <3>1, Multiples, Zenon
  <2> HIDE DEF w
  <2>4. ~ w <= a
    BY <1>1, <2>3, FloorFacts
  <2> QED BY <1>1, <2>2, <2>4
<1> HIDE DEF w
<1>5. a < Midpoint(a, b)
  <2> HIDE DEF k
  <2> QED BY <1>1, <1>2, <1>3, <1>4, MiddleIsAbove
<1>6. Midpoint(a, b) < b
  <2>1. a < Before(k)
    BY <1>4 DEF w
  <2> QED BY <1>1, <1>2, <2>1, MiddleIsBelow
<1> QED BY <1>5, <1>6

-----------------------------------------------------------------------------
\* What a step forms.

\* Multiples of a power of two stay multiples of it, rounded sums and differences included.
LEMMA SumsOfMultiples ==
  ASSUME NEW b \in Nat, b <= Precision + MaxExponent, NEW x \in Int, NEW y \in Int,
         x % 2 ^ b = 0, y % 2 ^ b = 0
  PROVE  Round(x + y, 1) % 2 ^ b = 0 /\ Round(x - y, 1) % 2 ^ b = 0
<1> DEFINE B == 2 ^ b
<1>1. B \in Nat \ {0} /\ 1 \in Nat \ {0}
  BY PowerIsPositive
<1>2. PICK i \in Int : x = i * B
  BY <1>1, Multiples, Zenon
<1>3. PICK j \in Int : y = j * B
  BY <1>1, Multiples, Zenon
<1>4. x + y = (i + j) * B /\ x - y = (i - j) * B /\ i + j \in Int /\ i - j \in Int
  BY <1>1, <1>2, <1>3
<1>5. /\ \E m \in Int : Round((i + j) * B, 1) = m * B
      /\ \E m \in Int : Round((i - j) * B, 1) = m * B
  BY <1>4, RoundOfMultiple
<1>6. Round(x + y, 1) \in Int /\ Round(x - y, 1) \in Int
  <2>1. x + y \in Int /\ x - y \in Int
    OBVIOUS
  <2> QED BY <1>1, <2>1, RoundIsSigned
<1>7. (\E m \in Int : Round(x + y, 1) = m * B) /\ (\E m \in Int : Round(x - y, 1) = m * B)
  BY <1>4, <1>5, Zenon
<1> QED BY <1>1, <1>6, <1>7, Multiples, Zenon

\* The two powers of two the search's numbers are multiples of: EPSILON, and 1 where they are whole.
LEMMA Units ==
  /\ FractionBits \in Nat /\ FractionBits <= Precision + MaxExponent /\ One = 2 ^ FractionBits
  /\ FractionBits - (Precision - 1) \in Nat /\ FractionBits - (Precision - 1) <= Precision + MaxExponent
  /\ Epsilon = 2 ^ (FractionBits - (Precision - 1)) /\ One = EpsilonInverse * Epsilon
  /\ One \in Nat \ {0} /\ Epsilon \in Nat \ {0} /\ EpsilonInverse \in Nat \ {0}
<1>1. /\ FractionBits \in Nat /\ FractionBits <= Precision + MaxExponent /\ Precision - 1 \in Nat
      /\ Precision - 1 <= FractionBits /\ Precision \in Nat /\ MaxExponent \in Nat
  BY FormatAssumption
<1>2. FractionBits - (Precision - 1) \in Nat /\ FractionBits - (Precision - 1) <= Precision + MaxExponent
  BY <1>1
<1>3. One = EpsilonInverse * Epsilon
  BY <1>1, PowerUpTo DEF One, Epsilon, EpsilonInverse
<1> QED BY <1>1, <1>2, <1>3, PowerIsPositive DEF One, Epsilon, EpsilonInverse

\* What is whole is a multiple of EPSILON, and so are 0 and Infinity, which are whole.
LEMMA WholeIsFine ==
  /\ \A x \in Int : x % One = 0 => x % Epsilon = 0
  /\ 0 % One = 0 /\ Infinity % One = 0 /\ One % One = 0
<1>1. ASSUME NEW x \in Int, x % One = 0 PROVE x % Epsilon = 0
  <2>1. PICK i \in Int : x = i * One
    BY <1>1, Units, Multiples, Zenon
  <2>2. x = (i * EpsilonInverse) * Epsilon /\ i * EpsilonInverse \in Int
    BY <2>1, Units
  <2>3. \E j \in Int : x = j * Epsilon
    BY <2>2
  <2> QED BY <2>3, Units, Multiples, Zenon
<1>2. Infinity % One = 0
  <2>1. PICK w \in Nat : Infinity = w * One
    BY PowerBelowInfinity, Units
  <2>2. Infinity \in Int /\ w \in Int
    BY FormatFacts
  <2>3. \E w1 \in Int : Infinity = w1 * One
    BY <2>1, <2>2, Zenon
  <2> QED BY <2>2, <2>3, Units, Multiples, Zenon
<1>3. 0 % One = 0 /\ One % One = 0
  BY Units
<1> QED BY <1>1, <1>2, <1>3

\* A number of the search: on the grid, a multiple of EPSILON, whole if the flag is set.
Formed(x, whole) == x \in Grid /\ x % Epsilon = 0 /\ (whole => x % One = 0)

LEMMA PlusForms ==
  ASSUME NEW whole \in BOOLEAN, NEW x, Formed(x, whole), NEW y, Formed(y, whole)
  PROVE  Formed(Plus(x, y), whole)
<1>1. x \in Nat /\ y \in Nat /\ x \in Int /\ y \in Int /\ x + y \in Nat /\ x + y \in Int /\ 1 \in Nat \ {0}
  BY GridIsNat DEF Formed
<1>2. CASE Infinity \in {x, y}
  BY <1>2, InfinityInGrid, WholeIsFine, FormatFacts DEF Formed, Plus
<1>3. CASE Infinity \notin {x, y}
  <2>1. Plus(x, y) = Round(x + y, 1) /\ Round(x + y, 1) = Nearest(x + y, 1)
    BY <1>1, <1>3, RoundIsSigned DEF Plus
  <2>2. Plus(x, y) \in Grid
    BY <1>1, <2>1, NearestInGrid
  <2>3. Plus(x, y) % Epsilon = 0
    BY <1>1, <2>1, SumsOfMultiples, Units DEF Formed
  <2>4. whole => Plus(x, y) % One = 0
    BY <1>1, <2>1, SumsOfMultiples, Units DEF Formed
  <2> QED BY <2>2, <2>3, <2>4 DEF Formed
<1> QED BY <1>2, <1>3

LEMMA BelowForms ==
  ASSUME NEW whole \in BOOLEAN, NEW x, Formed(x, whole), Formed(step, whole)
  PROVE  Formed(Below(x), whole)
<1>1. x \in Nat /\ step \in Nat /\ x \in Int /\ step \in Int /\ x - step \in Int /\ 1 \in Nat \ {0}
  BY GridIsNat DEF Formed
<1> DEFINE gap == Minus(x, step)
<1>2. CASE x = Infinity
  <2>1. gap = Infinity /\ ~ gap < 0
    BY <1>2, FormatFacts DEF Minus
  <2>2. Below(x) = Infinity
    BY <2>1 DEF Below
  <2> QED BY <1>2, <2>2
<1>3. CASE x # Infinity
  <2>1. gap = Round(x - step, 1) /\ gap \in Int
    BY <1>1, <1>3, RoundIsSigned DEF Minus
  <2>2. CASE gap < 0
    <3>1. Below(x) = 0 /\ 0 \in Int
      BY <2>2 DEF Below
    <3> QED BY <3>1, GridZero, WholeIsFine DEF Formed
  <2>3. CASE ~ gap < 0
    <3>1. Below(x) = Round(x - step, 1)
      BY <2>1, <2>3 DEF Below
    <3>2. Round(x - step, 1) \in Grid
      <4>1. CASE x - step >= 0
        <5>1. x - step \in Nat /\ Round(x - step, 1) = Nearest(x - step, 1)
          BY <1>1, <4>1, RoundIsSigned
        <5> QED BY <1>1, <5>1, NearestInGrid
      <4>2. CASE x - step < 0
        <5>1. Round(x - step, 1) = 0
          BY <1>1, <2>1, <2>3, <4>2, RoundIsSigned
        <5> QED BY <5>1, GridZero
      <4> QED BY <1>1, <4>1, <4>2
    <3>3. Round(x - step, 1) % Epsilon = 0
      BY <1>1, SumsOfMultiples, Units DEF Formed
    <3>4. whole => Round(x - step, 1) % One = 0
      BY <1>1, SumsOfMultiples, Units DEF Formed
    <3> QED BY <3>1, <3>2, <3>3, <3>4 DEF Formed
  <2> QED BY <2>2, <2>3
<1> QED BY <1>2, <1>3

\* A middle found inside a bracket is a support point.
LEMMA MiddleForms ==
  ASSUME NEW a \in Floats, NEW b \in Grid, a < Midpoint(a, b), Midpoint(a, b) < b
  PROVE  Midpoint(a, b) \in Support /\ Formed(Midpoint(a, b), TRUE)
<1>1. a \in Grid /\ a \in Nat /\ b \in Nat /\ b <= Infinity /\ a < Infinity /\ Infinity \in Nat /\ Infinity \in Grid
  BY FloatsAndGrid, GridIsNat, FormatFacts, InfinityInGrid
<1>2. b # Infinity
  <2> SUFFICES ASSUME b = Infinity PROVE FALSE
    OBVIOUS
  <2>1. Minus(b, a) = Infinity /\ Half(Infinity) = Infinity /\ Plus(a, Infinity) = Infinity
    BY DEF Minus, Half, Plus
  <2>2. Midpoint(a, b) = Floor(Infinity)
    BY <2>1 DEF Midpoint
  <2>3. Floor(Infinity) = Infinity
    BY <1>1, WholeIsFine, FloorOfGrid
  <2> QED BY <1>1, <2>2, <2>3
<1>3. PICK h \in Nat : Midpoint(a, b) = Floor(Nearest(a + h, 1))
  <2>1. a <= b
    <3>1. CASE b < a
      <4>1. Midpoint(a, b) \in Int
        <5>1. b - a \in Int /\ 1 \in Nat \ {0} /\ 2 \in Nat \ {0}
          BY <1>1
        <5>2. Minus(b, a) \in Int
          BY <1>2, <5>1, RoundIsSigned DEF Minus
        <5>3. Half(Minus(b, a)) \in Int
          BY <1>1, <5>1, <5>2, RoundIsSigned DEF Half
        <5>4. Plus(a, Half(Minus(b, a))) \in Int
          <6>1. a + Half(Minus(b, a)) \in Int
            BY <1>1, <5>3
          <6> QED BY <1>1, <5>1, <6>1, RoundIsSigned DEF Plus
        <5> QED BY <5>4, FloorFacts DEF Midpoint
      <4> QED BY <1>1, <3>1, <4>1
    <3> QED BY <1>1, <3>1
  <2>2. b < Infinity
    BY <1>1, <1>2
  <2> QED BY <1>1, <2>1, <2>2, Halfway
<1>4. Nearest(a + h, 1) \in Grid
  BY <1>1, NearestInGrid
<1>5. Midpoint(a, b) \in Grid /\ Midpoint(a, b) % One = 0 /\ Midpoint(a, b) \in Nat
  BY <1>3, <1>4, FloorOfGrid
<1>6. Midpoint(a, b) < Infinity
  BY <1>1, <1>5
<1> QED BY <1>5, <1>6, SupportFacts, WholeIsFine DEF Formed

\* The first step: one spacing of the floats at the estimate, which is a fraction past 1 / EPSILON only.
LEMMA FirstStepForms ==
  ASSUME NEW x \in Support
  PROVE  FirstStep(x) \in Grid /\ Formed(FirstStep(x), x <= EpsilonInverse * One)
<1> DEFINE E == EpsilonInverse
<1>1. /\ x \in Grid /\ x \in Nat /\ x % One = 0 /\ E \in Nat \ {0} /\ One \in Nat \ {0}
      /\ E = 2 ^ (Precision - 1) /\ Precision - 1 \in Nat /\ MaxExponent \in Nat
  BY SupportFacts, GridIsNat, Units, FormatFacts DEF EpsilonInverse
<1>2. One \in Grid /\ Formed(One, TRUE)
  <2>1. One \in Grid
    BY Units, PowerInGrid
  <2> QED BY <2>1, WholeIsFine, Units DEF Formed
<1>3. Round(x, E) = Nearest(x, E) /\ Nearest(x, E) \in Nat
  BY <1>1, RoundIsSigned, NearestIsNat
<1>4. CASE x <= E * One
  <2>1. x <= One * E
    BY <1>1, <1>4
  <2>2. Nearest(x, E) <= One
    BY <1>1, <1>2, <2>1, NearestKeepsGrid
  <2>3. FirstStep(x) = One
    BY <1>1, <1>3, <2>2 DEF FirstStep
  <2> QED BY <1>2, <2>3 DEF Formed
<1>5. CASE E * One < x
  <2>0. x \in Grid
    BY <1>1
  <2>1. PICK m \in 0 .. 2 ^ Precision, e \in 0 .. MaxExponent : x = m * 2 ^ e
    BY <2>0 DEF Grid
  <2>2. m \in Nat /\ m <= 2 ^ Precision /\ e \in Nat /\ 2 ^ e \in Nat \ {0} /\ 2 ^ Precision = 2 * E
    BY <1>1, <2>1, FormatFacts, PowerIsPositive
  <2>3. Precision - 1 <= e
    <3> SUFFICES ASSUME e < Precision - 1 PROVE FALSE
      BY <1>1, <2>2
    <3>1. 2 * 2 ^ e <= E
      BY <1>1, <2>2, PowerBelow
    <3>2. 2 ^ e * m <= 2 ^ e * (2 * E)
      BY <1>1, <2>2, Products
    <3>3. E * (2 * 2 ^ e) <= E * E
      BY <1>1, <2>2, <3>1, Products
    <3>4. E <= One
      <4>1. Precision - 1 <= FractionBits /\ FractionBits \in Nat
        BY FormatAssumption
      <4> QED BY <1>1, <4>1, PowerUpTo DEF One
    <3>5. E * E <= E * One
      BY <1>1, <3>4, Products
    <3>6. 2 ^ e * m = x /\ 2 ^ e * (2 * E) = E * (2 * 2 ^ e) /\ E * E \in Nat /\ E * One \in Nat
      BY <1>1, <2>1, <2>2
    <3> QED BY <1>1, <1>5, <2>2, <3>2, <3>3, <3>5, <3>6
  <2> DEFINE d == e - (Precision - 1)
             t == m * 2 ^ d
  <2>4. d \in Nat /\ 2 ^ e = E * 2 ^ d /\ 2 ^ d \in Nat \ {0} /\ d \in 0 .. MaxExponent
    <3>1. d \in Nat /\ d \in 0 .. MaxExponent
      BY <1>1, <2>1, <2>3
    <3> QED BY <1>1, <2>2, <2>3, <3>1, PowerUpTo, PowerIsPositive
  <2>5. t \in Grid
    BY <2>1, <2>4 DEF Grid
  <2>6. t \in Nat /\ x = t * E
    BY <1>1, <2>1, <2>2, <2>4
  <2> HIDE DEF t
  <2>7. Nearest(x, E) = t
    BY <1>1, <2>5, <2>6, NearestFixesGrid
  <2>8. t % Epsilon = 0
    <3>1. x \in Int
      BY <1>1
    <3>2. PICK i \in Int : x = i * One
      BY <1>1, <3>1, Multiples, Zenon
    <3>4. i * Epsilon \in Int /\ Epsilon \in Int /\ One = E * Epsilon
      BY Units
    <3>3. E * t = E * (i * Epsilon)
      <4>1. i * (E * Epsilon) = E * (i * Epsilon) /\ t * E = E * t
        BY <1>1, <2>6, <3>4
      <4>2. x = i * (E * Epsilon)
        BY <3>2, <3>4
      <4> QED BY <2>6, <4>1, <4>2
    <3>5. t = i * Epsilon
      <4>1. t < i * Epsilon => E * t < E * (i * Epsilon)
        BY <1>1, <2>6, <3>4, Products
      <4>2. i * Epsilon < t => E * (i * Epsilon) < E * t
        BY <1>1, <2>6, <3>4, Products
      <4>3. E * t \in Int /\ E * (i * Epsilon) \in Int
        BY <1>1, <2>6, <3>4
      <4>4. ~ t < i * Epsilon /\ ~ i * Epsilon < t
        BY <3>3, <4>1, <4>2, <4>3
      <4> QED BY <2>6, <3>4, <4>4
    <3>6. t \in Int
      BY <2>6
    <3>7. \E j \in Int : t = j * Epsilon
      BY <3>5, Zenon
    <3> QED BY <3>6, <3>7, Units, Multiples, Zenon
  <2>9. FirstStep(x) \in {t, One}
    BY <1>3, <2>7 DEF FirstStep
  <2>10. Formed(FirstStep(x), FALSE)
    BY <1>2, <2>5, <2>8, <2>9 DEF Formed
  <2> QED BY <1>1, <1>5, <2>10 DEF Formed
<1> QED BY <1>1, <1>4, <1>5

-----------------------------------------------------------------------------
\* The search.

\* The numbers of a distribution.
LEMMA DistributionFacts ==
  ASSUME NEW f \in Cdfs
  PROVE  /\ \A k \in Support : f[k] \in Int /\ 1 <= f[k] /\ f[k] <= Whole - 1
         /\ \A j, k \in Support : j <= k => f[j] <= f[k]
         /\ Whole \in Nat /\ SeedError \in Nat
         /\ Unit \in Nat \ {0} /\ Noise \in 0 .. Unit - 1 /\ Slack \in 0 .. Unit - 1
<1>1. f \in [Support -> 1 .. Whole - 1]
  BY LevelsAssumption
<1> QED BY <1>1, LevelsAssumption

\* The tail compared is a level, and moves one way.
LEMMA ComparedFacts ==
  ASSUME cdf \in Cdfs
  PROVE  /\ \A k \in Support : Compared(k) \in Nat
         /\ \A j, k \in Support : j <= k => IF tail = "CDF" THEN Compared(j) <= Compared(k)
                                                          ELSE Compared(k) <= Compared(j)
<1>1. \A k \in Support : cdf[k] \in Int /\ 1 <= cdf[k] /\ cdf[k] <= Whole - 1
  BY DistributionFacts
<1>2. Whole \in Nat /\ \A j, k \in Support : j <= k => cdf[j] <= cdf[k]
  BY DistributionFacts
<1> QED BY <1>1, <1>2 DEF Compared

\* The whole part of a finite value is a support point, its own whole part if it is one.
LEMMA FloorInSupport ==
  /\ \A x \in Floats : Floor(x) \in Support
  /\ \A k \in Support : k \in Floats /\ Floor(k) = k /\ Formed(k, TRUE) /\ k # Infinity
<1>1. ASSUME NEW x \in Floats PROVE Floor(x) \in Support
  <2>1. x \in Grid /\ x \in Nat /\ x < Infinity /\ Infinity \in Nat
    BY FloatsAndGrid, GridIsNat, FormatFacts
  <2>2. Floor(x) \in Grid /\ Floor(x) \in Nat /\ Floor(x) <= x /\ Floor(x) % One = 0
    BY <2>1, FloorOfGrid
  <2> QED BY <2>1, <2>2, SupportFacts
<1>2. ASSUME NEW k \in Support PROVE k \in Floats /\ Floor(k) = k /\ Formed(k, TRUE) /\ k # Infinity
  <2>1. k \in Grid /\ k < Infinity /\ k % One = 0 /\ k \in Nat /\ Infinity \in Nat
    BY SupportFacts, GridIsNat, FormatFacts
  <2>2. k \in Floats /\ Floor(k) = k
    BY <2>1, FloorOfGrid, FloatsAndGrid
  <2> QED BY <2>1, <2>2, WholeIsFine DEF Formed
<1> QED BY <1>1, <1>2

\* With the same distribution, tail and target a point can be evaluated to the same.
LEMMA SameEvaluations ==
  ASSUME UNCHANGED <<cdf, tail, target>>
  PROVE  \A k : MayReach(k)' = MayReach(k) /\ MayMiss(k)' = MayMiss(k)
BY DEF MayReach, MayMiss, Reaches, Compared

\* Infinity is never missed.
LEMMA InfinityIsNotMissed == ~ MayMiss(Infinity)
BY DEF MayMiss, Reaches

\* What is missed at a point may be missed at the whole points below it.
LEMMA MissesFall ==
  ASSUME cdf \in Cdfs, target \in Int, NEW x \in Floats, MayMiss(x),
         NEW j \in Support, j <= Floor(x)
  PROVE  MayMiss(j)
<1>1. PICK e \in Errors : ~ Reaches(x, e)
  BY DEF MayMiss
<1>2. /\ Floor(x) \in Support /\ Floor(j) = j /\ j # Infinity
      /\ Compared(j) \in Nat /\ Compared(Floor(x)) \in Nat
      /\ IF tail = "CDF" THEN Compared(j) <= Compared(Floor(x)) ELSE Compared(Floor(x)) <= Compared(j)
  <2>1. Floor(x) \in Support /\ Floor(j) = j /\ j # Infinity
    BY FloorInSupport
  <2> QED BY <2>1, ComparedFacts
<1>3. e[1] \in Nat /\ e[2] \in Nat /\ Unit \in Nat /\ Unit - Slack \in Nat
  BY DistributionFacts DEF Errors
<1> DEFINE a == Compared(j)  b == Compared(Floor(x))  d == e[1]  g == Unit - Slack
<1>4. a <= b => a * d * Unit <= b * d * Unit
  BY <1>2, <1>3
<1>5. b <= a => b * d * g <= a * d * g
  BY <1>2, <1>3
<1>6. ~ Reaches(j, e)
  <2>1. /\ a * d * Unit \in Int /\ b * d * Unit \in Int /\ a * d * g \in Int /\ b * d * g \in Int
        /\ target * e[2] * g \in Int /\ target * e[2] * Unit \in Int
    BY <1>2, <1>3
  <2>2. CASE tail = "CDF"
    <3>1. ~ b * d * Unit >= target * e[2] * g
      BY <1>1, <2>2 DEF Reaches
    <3>2. ~ a * d * Unit >= target * e[2] * g
      BY <1>2, <1>4, <2>1, <2>2, <3>1
    <3> QED BY <1>2, <2>2, <3>2 DEF Reaches
  <2>3. CASE tail # "CDF"
    <3>1. ~ b * d * g <= target * e[2] * Unit
      BY <1>1, <2>3 DEF Reaches
    <3>2. ~ a * d * g <= target * e[2] * Unit
      BY <1>2, <1>5, <2>1, <2>3, <3>1
    <3> QED BY <1>2, <2>3, <3>2 DEF Reaches
  <2> QED BY <2>2, <2>3
<1> QED BY <1>1, <1>6 DEF MayMiss

\* The inductive invariant, in the form the steps keep it.
LEMMA FormedParts ==
  ASSUME TypeOK, Fractions
  PROVE  /\ lo \in Grid /\ hi \in Grid /\ step \in Grid
         /\ \A x \in {lo, hi, step} : Formed(x, ~ seed > EpsilonInverse * One)
<1>1. lo \in Grid /\ hi \in Grid /\ step \in Grid
  BY FloatsAndGrid, InfinityInGrid DEF TypeOK
<1> QED BY <1>1 DEF Fractions, Formed

LEMMA FormedKeeps ==
  ASSUME Fractions, UNCHANGED seed,
         \A x \in {lo', hi', step'} : x \in {lo, hi, step} \/ Formed(x, ~ seed > EpsilonInverse * One)
  PROVE  Fractions'
BY DEF Fractions, Formed

LEMMA GridOrInfinity ==
  /\ \A x \in Grid : x \in Floats \cup {Infinity}
  /\ \A x \in Grid : x # Infinity => x \in Floats
<1>1. \A x \in Grid : x \in Nat /\ x <= Infinity /\ Infinity \in Nat
  BY GridIsNat, FormatFacts
<1> QED BY <1>1, FloatsAndGrid

LEMMA InitIInv == Init => IInv
<1> SUFFICES ASSUME Init PROVE IInv
  OBVIOUS
<1>1. 0 \in Support /\ 0 \in Floats
  <2>1. 0 \in Grid /\ 0 < Infinity
    BY GridZero, FormatFacts
  <2> QED BY <2>1, SupportFacts, FloatsAndGrid, WholeIsFine
<1>2. One \in Floats \cup {Infinity}
  <2>1. One \in Grid
    BY Units, PowerInGrid
  <2> QED BY <2>1, GridOrInfinity
<1>3. TypeOK
  BY <1>1, <1>2 DEF Init, TypeOK, Phases
<1>4. Fractions
  BY WholeIsFine, Units DEF Init, Fractions
<1> QED BY <1>3, <1>4 DEF Init, IInv, SmallerTail, Bracket

\* Any level past one half is asked of the other tail, and the level asked is a number.
LEMMA StartKeeps == IInv /\ Start => IInv'
<1> SUFFICES ASSUME IInv, Start PROVE IInv'
  OBVIOUS
<1>1. UNCHANGED <<cdf, method, q, lo>> /\ phase = "start" /\ TypeOK /\ Fractions /\ seed = 0
  BY DEF Start, IInv, Bracket
<1>2. IF 2 * q <= Whole THEN tail' = TailOf(method) /\ target' = q
                        ELSE tail' = Complement(TailOf(method)) /\ target' = Whole - q
  BY DEF Start
<1>3. SmallerTail'
  BY <1>1, <1>2 DEF SmallerTail
<1>4. /\ \A x \in {lo, hi, step} : Formed(x, TRUE)
      /\ lo \in Grid /\ hi \in Grid /\ step \in Grid
  <2>1. ~ 0 > EpsilonInverse * One
    BY Units
  <2> QED BY <1>1, <2>1, FormedParts DEF Formed
<1>5. CASE target' = 0
  <2>1. /\ phase' = "done" /\ hi' = (IF tail' = "CDF" THEN 0 ELSE Infinity)
        /\ UNCHANGED <<seed, step>>
    BY <1>5 DEF Start, Answer
  <2>2. 0 \in Grid /\ Infinity \in Grid /\ Formed(0, TRUE) /\ Formed(Infinity, TRUE)
    BY GridZero, InfinityInGrid, WholeIsFine, FormatFacts DEF Formed
  <2>3. hi' \in {0, Infinity}
    BY <2>1
  <2>4. TypeOK'
    BY <1>1, <2>1, <2>2, <2>3, GridOrInfinity DEF TypeOK, Phases
  <2>5. Fractions'
    BY <1>1, <1>4, <2>1, <2>2, <2>3 DEF Fractions, Formed
  <2>6. Bracket'
    BY <1>5, <2>1 DEF Bracket
  <2> QED BY <1>3, <2>4, <2>5, <2>6 DEF IInv
<1>6. CASE target' # 0
  <2>1. phase' = "seed" /\ seed' \in Support /\ step' = FirstStep(seed') /\ hi' = hi
    BY <1>6 DEF Start
  <2>2. Formed(step', seed' <= EpsilonInverse * One) /\ step' \in Grid
    BY <2>1, FirstStepForms
  <2>3. TypeOK'
    BY <1>1, <2>1, <2>2, GridOrInfinity DEF TypeOK, Phases
  <2>4. Fractions'
    <3>1. seed' \in Int /\ EpsilonInverse * One \in Int
      BY <2>1, SupportFacts, GridIsNat, Units
    <3>2. \A x \in {lo', hi'} : x % Epsilon = 0 /\ x % One = 0
      BY <1>1, <1>4, <2>1 DEF Formed
    <3>3. step' % Epsilon = 0 /\ (step' % One = 0 \/ seed' > EpsilonInverse * One)
      BY <2>2, <3>1 DEF Formed
    <3> QED BY <3>2, <3>3 DEF Fractions
  <2>5. Bracket'
    BY <1>6, <2>1 DEF Bracket
  <2> QED BY <1>3, <2>3, <2>4, <2>5 DEF IInv
<1> QED BY <1>5, <1>6

\* The target is a level.
LEMMA TargetIsInt ==
  ASSUME TypeOK, SmallerTail, phase # "start"
  PROVE  target \in Int /\ q \in Int /\ Whole \in Nat
<1>1. q \in Int /\ Whole \in Nat
  BY LevelsAssumption DEF TypeOK
<1> QED BY <1>1 DEF SmallerTail

LEMMA SearchFromSeedKeeps == IInv /\ SearchFromSeed => IInv'
<1> SUFFICES ASSUME IInv, SearchFromSeed PROVE IInv'
  OBVIOUS
<1>1. /\ UNCHANGED <<cdf, method, q, tail, target, seed, step>> /\ phase = "seed" /\ target # 0
      /\ TypeOK /\ SmallerTail /\ Bracket /\ Fractions
  BY DEF SearchFromSeed, IInv, Bracket
<1>2. \A k : MayReach(k)' = MayReach(k) /\ MayMiss(k)' = MayMiss(k)
  BY <1>1, SameEvaluations
<1>3. seed \in Floats /\ Formed(seed, TRUE)
  BY <1>1, FloorInSupport DEF TypeOK
<1>4. CASE MayReach(seed) /\ phase' = "down" /\ hi' = seed /\ lo' = lo
  <2>1. TypeOK' /\ SmallerTail'
    BY <1>1, <1>3, <1>4 DEF TypeOK, Phases, SmallerTail
  <2>2. Fractions'
    BY <1>1, <1>3, <1>4, FormedKeeps DEF Formed
  <2>3. Bracket'
    BY <1>1, <1>2, <1>4 DEF Bracket
  <2> QED BY <2>1, <2>2, <2>3 DEF IInv
<1>5. CASE MayMiss(seed) /\ phase' = "up" /\ lo' = seed /\ hi' = hi
  <2>1. TypeOK' /\ SmallerTail'
    BY <1>1, <1>3, <1>5 DEF TypeOK, Phases, SmallerTail
  <2>2. Fractions'
    BY <1>1, <1>3, <1>5, FormedKeeps DEF Formed
  <2>3. Bracket'
    BY <1>1, <1>2, <1>5 DEF Bracket
  <2> QED BY <2>1, <2>2, <2>3 DEF IInv
<1> QED BY <1>4, <1>5 DEF SearchFromSeed

LEMMA GallopDownKeeps == IInv /\ GallopDown => IInv'
<1> SUFFICES ASSUME IInv, GallopDown PROVE IInv'
  OBVIOUS
<1> DEFINE whole == ~ seed > EpsilonInverse * One
<1>1. /\ UNCHANGED <<cdf, method, q, tail, target, seed>> /\ phase = "down" /\ target # 0
      /\ TypeOK /\ SmallerTail /\ Bracket /\ Fractions /\ MayReach(hi)
  BY DEF GallopDown, IInv, Bracket
<1>2. \A k : MayReach(k)' = MayReach(k) /\ MayMiss(k)' = MayMiss(k)
  BY <1>1, SameEvaluations
<1>3. whole \in BOOLEAN /\ Formed(hi, whole) /\ Formed(step, whole)
  BY <1>1, FormedParts
<1> HIDE DEF whole
<1>4. Formed(Below(hi), whole) /\ Below(hi) \in Floats \cup {Infinity}
  BY <1>3, BelowForms, GridOrInfinity DEF Formed
<1>5. CASE hi = 0 /\ Answer(0) /\ UNCHANGED <<step, lo>>
  <2>1. phase' = "done" /\ hi' = 0 /\ hi' = hi
    BY <1>5 DEF Answer
  <2>2. TypeOK' /\ SmallerTail'
    BY <1>1, <1>5, <2>1 DEF TypeOK, Phases, SmallerTail
  <2>3. Fractions'
    BY <1>1, <1>5, <2>1, FormedKeeps
  <2>4. Floor(0) = 0
    BY Units DEF Floor
  <2>5. Bracket'
    BY <1>1, <1>2, <2>1, <2>4 DEF Bracket
  <2> QED BY <2>2, <2>3, <2>5 DEF IInv
<1>6. CASE hi # 0 /\ MayReach(Below(hi)) /\ hi' = Below(hi) /\ step' = Double(step) /\ UNCHANGED <<phase, lo>>
  <2>1. Formed(Double(step), whole) /\ Double(step) \in Floats \cup {Infinity}
    <3>1. Formed(Double(step), whole)
      BY <1>3, PlusForms DEF Double
    <3> QED BY <3>1, GridOrInfinity DEF Formed
  <2>2. TypeOK' /\ SmallerTail'
    BY <1>1, <1>4, <1>6, <2>1 DEF TypeOK, Phases, SmallerTail
  <2>3. Fractions'
    BY <1>1, <1>4, <1>6, <2>1, FormedKeeps DEF whole
  <2>4. Bracket'
    BY <1>1, <1>2, <1>6 DEF Bracket
  <2> QED BY <2>2, <2>3, <2>4 DEF IInv
<1>7. CASE hi # 0 /\ MayMiss(Below(hi)) /\ phase' = "bisect" /\ lo' = Below(hi) /\ UNCHANGED <<step, hi>>
  <2>1. Below(hi) \in Floats
    BY <1>4, <1>7, InfinityIsNotMissed
  <2>2. TypeOK' /\ SmallerTail'
    BY <1>1, <1>7, <2>1 DEF TypeOK, Phases, SmallerTail
  <2>3. Fractions'
    BY <1>1, <1>4, <1>7, FormedKeeps DEF whole
  <2>4. Bracket'
    BY <1>1, <1>2, <1>7 DEF Bracket
  <2> QED BY <2>2, <2>3, <2>4 DEF IInv
<1> QED BY <1>5, <1>6, <1>7 DEF GallopDown

LEMMA GallopUpKeeps == IInv /\ GallopUp => IInv'
<1> SUFFICES ASSUME IInv, GallopUp PROVE IInv'
  OBVIOUS
<1> DEFINE whole == ~ seed > EpsilonInverse * One
           above == Plus(lo, step)
<1>1. /\ UNCHANGED <<cdf, method, q, tail, target, seed>> /\ phase = "up" /\ target # 0
      /\ TypeOK /\ SmallerTail /\ Bracket /\ Fractions /\ MayMiss(lo)
  BY DEF GallopUp, IInv, Bracket
<1>2. \A k : MayReach(k)' = MayReach(k) /\ MayMiss(k)' = MayMiss(k)
  BY <1>1, SameEvaluations
<1>3. whole \in BOOLEAN /\ Formed(lo, whole) /\ Formed(step, whole)
  BY <1>1, FormedParts
<1>4. \/ MayReach(above) /\ phase' = "bisect" /\ hi' = above /\ UNCHANGED <<step, lo>>
      \/ MayMiss(above) /\ lo' = above /\ step' = Double(step) /\ UNCHANGED <<phase, hi>>
  BY DEF GallopUp
<1> HIDE DEF whole
<1>5. Formed(above, whole) /\ above \in Floats \cup {Infinity}
  BY <1>3, PlusForms, GridOrInfinity DEF Formed
<1> HIDE DEF above
<1>6. CASE MayReach(above) /\ phase' = "bisect" /\ hi' = above /\ UNCHANGED <<step, lo>>
  <2>1. TypeOK' /\ SmallerTail'
    BY <1>1, <1>5, <1>6 DEF TypeOK, Phases, SmallerTail
  <2>2. Fractions'
    BY <1>1, <1>5, <1>6, FormedKeeps DEF whole
  <2>3. Bracket'
    BY <1>1, <1>2, <1>6 DEF Bracket
  <2> QED BY <2>1, <2>2, <2>3 DEF IInv
<1>7. CASE MayMiss(above) /\ lo' = above /\ step' = Double(step) /\ UNCHANGED <<phase, hi>>
  <2>1. Formed(Double(step), whole) /\ Double(step) \in Floats \cup {Infinity}
    <3>1. Formed(Double(step), whole)
      BY <1>3, PlusForms DEF Double
    <3> QED BY <3>1, GridOrInfinity DEF Formed
  <2>2. above \in Floats
    BY <1>5, <1>7, InfinityIsNotMissed
  <2>3. TypeOK' /\ SmallerTail'
    BY <1>1, <1>7, <2>1, <2>2 DEF TypeOK, Phases, SmallerTail
  <2>4. Fractions'
    BY <1>1, <1>5, <1>7, <2>1, FormedKeeps DEF whole
  <2>5. Bracket'
    BY <1>1, <1>2, <1>7 DEF Bracket
  <2> QED BY <2>3, <2>4, <2>5 DEF IInv
<1> QED BY <1>4, <1>6, <1>7

LEMMA BisectKeeps == IInv /\ Bisect => IInv'
<1> SUFFICES ASSUME IInv, Bisect PROVE IInv'
  OBVIOUS
<1> DEFINE whole == ~ seed > EpsilonInverse * One
           mid == Midpoint(lo, hi)
           inside == lo < mid /\ mid < hi
<1>1. /\ UNCHANGED <<cdf, method, q, tail, target, seed, step>> /\ phase = "bisect" /\ target # 0
      /\ TypeOK /\ SmallerTail /\ Bracket /\ Fractions /\ MayReach(hi) /\ MayMiss(lo)
      /\ target \in Int /\ cdf \in Cdfs
  <2>1. TypeOK /\ SmallerTail /\ phase = "bisect"
    BY DEF Bisect, IInv
  <2> QED BY <2>1, TargetIsInt DEF Bisect, IInv, Bracket, TypeOK
<1>2. \A k : MayReach(k)' = MayReach(k) /\ MayMiss(k)' = MayMiss(k)
  BY <1>1, SameEvaluations
<1>3. lo \in Floats /\ lo % Epsilon = 0 /\ hi \in Grid
  BY <1>1, FormedParts DEF TypeOK, Fractions
<1>4. \/ ~ inside /\ Answer(hi) /\ lo' = lo
      \/ inside /\ MayReach(mid) /\ hi' = mid /\ UNCHANGED <<phase, lo>>
      \/ inside /\ MayMiss(mid) /\ lo' = mid /\ UNCHANGED <<phase, hi>>
  BY DEF Bisect
<1>5. inside => mid \in Floats /\ Formed(mid, whole)
  <2>1. inside => mid \in Support /\ Formed(mid, TRUE)
    BY <1>3, MiddleForms
  <2> QED BY <2>1, FloorInSupport DEF Formed
<1>6. CASE ~ inside /\ Answer(hi) /\ lo' = lo
  <2>1. phase' = "done" /\ hi' = hi
    BY <1>6 DEF Answer
  <2>2. TypeOK' /\ SmallerTail'
    BY <1>1, <1>6, <2>1 DEF TypeOK, Phases, SmallerTail
  <2>3. Fractions'
    BY <1>1, <1>6, <2>1, FormedKeeps
  <2>4. hi = Infinity \/ Floor(hi) = 0 \/ MayMiss(Before(Floor(hi)))
    <3> SUFFICES ASSUME hi # Infinity, Floor(hi) # 0 PROVE MayMiss(Before(Floor(hi)))
      OBVIOUS
    <3>1. hi \in Floats
      BY <1>3, GridOrInfinity
    <3>2. Before(Floor(hi)) <= Floor(lo)
      BY <1>3, <1>6, <3>1, NothingInside
    <3>3. Before(Floor(hi)) \in Support
      <4>1. Floor(hi) \in Support
        BY <3>1, FloorInSupport
      <4> QED BY <4>1, GapBelow
    <3> QED BY <1>1, <1>3, <3>2, <3>3, MissesFall
  <2>5. Bracket'
    <3>1. Before(Floor(hi))' = Before(Floor(hi')) /\ Floor(hi)' = Floor(hi')
      BY DEF Before, Floor
    <3> QED BY <1>1, <1>2, <2>1, <2>4, <3>1 DEF Bracket
  <2> QED BY <2>2, <2>3, <2>5 DEF IInv
<1> HIDE DEF mid, whole
<1>7. CASE inside /\ MayReach(mid) /\ hi' = mid /\ UNCHANGED <<phase, lo>>
  <2>1. TypeOK' /\ SmallerTail'
    BY <1>1, <1>5, <1>7 DEF TypeOK, Phases, SmallerTail
  <2>2. Fractions'
    BY <1>1, <1>5, <1>7, FormedKeeps DEF whole
  <2>3. Bracket'
    BY <1>1, <1>2, <1>7 DEF Bracket
  <2> QED BY <2>1, <2>2, <2>3 DEF IInv
<1>8. CASE inside /\ MayMiss(mid) /\ lo' = mid /\ UNCHANGED <<phase, hi>>
  <2>1. TypeOK' /\ SmallerTail'
    BY <1>1, <1>5, <1>8 DEF TypeOK, Phases, SmallerTail
  <2>2. Fractions'
    BY <1>1, <1>5, <1>8, FormedKeeps DEF whole
  <2>3. Bracket'
    BY <1>1, <1>2, <1>8 DEF Bracket
  <2> QED BY <2>1, <2>2, <2>3 DEF IInv
<1> QED BY <1>4, <1>6, <1>7, <1>8

\* What the search knows of its bracket and of the numbers it forms, at every step.
THEOREM PoissonInvariant == Spec => []IInv
<1>1. IInv /\ [Next]_vars => IInv'
  <2> SUFFICES ASSUME IInv, [Next]_vars PROVE IInv'
    OBVIOUS
  <2>1. CASE UNCHANGED vars
    <3>1. UNCHANGED <<cdf, method, q, phase, tail, target, seed, step, lo, hi>>
      BY <2>1 DEF vars
    <3>2. \A k : MayReach(k)' = MayReach(k) /\ MayMiss(k)' = MayMiss(k)
      BY <3>1, SameEvaluations
    <3> QED BY <3>1, <3>2 DEF IInv, TypeOK, SmallerTail, Bracket, Fractions
  <2>2. CASE Next
    BY <2>1, <2>2, StartKeeps, SearchFromSeedKeeps, GallopDownKeeps, GallopUpKeeps, BisectKeeps
       DEF Next, Finished
  <2> QED BY <2>1, <2>2
<1> QED BY InitIInv, <1>1, PTL DEF Spec

\* Comparing x with y, each off by an error, is at the worst comparing them eased, or clearly.
LEMMA ErrorsAtMost ==
  ASSUME NEW x \in Nat, NEW y \in Nat, NEW u \in Nat \ {0}, NEW s \in 0 .. u, NEW m \in 1 .. u,
         NEW e \in {<<m, u>>, <<u, u>>, <<u, m>>}
  PROVE  /\ x * e[1] * u >= y * e[2] * s => x * (u * u) >= y * (s * m)
         /\ ~ x * e[1] * u >= y * e[2] * s => ~ x * m >= y * s
         /\ x * e[1] * s <= y * e[2] * u => x * (s * m) <= y * (u * u)
         /\ ~ x * e[1] * s <= y * e[2] * u => ~ x * s <= y * m
OBVIOUS

\* Meeting the quantile is a matter of the tail compared and its target.
LEMMA MeetsCompared ==
  ASSUME TypeOK, SmallerTail, phase # "start", NEW k \in Support, NEW num, NEW den
  PROVE  /\ target \in Nat
         /\ Meets(k, num, den) <=> IF tail = "CDF" THEN Compared(k) * den >= target * num
                                                  ELSE Compared(k) * num <= target * den
<1>1. q \in Int /\ 0 <= q /\ q <= Whole /\ Whole \in Nat /\ method \in {"ppf", "isf"}
  BY LevelsAssumption DEF TypeOK
<1>2. CASE 2 * q <= Whole
  <2>1. target = q /\ (tail = "CDF" <=> method = "ppf")
    BY <1>1, <1>2 DEF SmallerTail, TailOf
  <2> QED BY <1>1, <1>2, <2>1 DEF Meets, Compared
<1>3. CASE ~ 2 * q <= Whole
  <2>1. target = Whole - q /\ (tail = "CDF" <=> method # "ppf")
    BY <1>1, <1>3 DEF SmallerTail, TailOf, Complement
  <2> QED BY <1>1, <1>3, <2>1 DEF Meets, Compared
<1> QED BY <1>2, <1>3

\* A finite point that may have been found to reach the level meets the quantile asked for, eased,
\* and one that may have been found to miss it does not meet it clearly.
LEMMA EvaluatedAs ==
  ASSUME TypeOK, SmallerTail, phase # "start", NEW x \in Floats
  PROVE  /\ MayReach(x) => MeetsEased(Floor(x))
         /\ MayMiss(x) => ~ MeetsClearly(Floor(x))
<1> DEFINE c == Compared(Floor(x))
           s == Unit - Slack
           m == Unit - Noise
<1>1. Floor(x) \in Support /\ c \in Nat /\ target \in Nat
  <2>1. Floor(x) \in Support /\ cdf \in Cdfs
    BY FloorInSupport DEF TypeOK
  <2> QED BY <2>1, ComparedFacts, MeetsCompared
<1>2. Unit \in Nat \ {0} /\ s \in 0 .. Unit /\ m \in 1 .. Unit
  BY LevelsAssumption
<1>3. x # Infinity
  <2>1. x \in Grid /\ x < Infinity /\ Infinity \in Nat
    BY FloatsAndGrid, FormatFacts
  <2> QED BY <2>1, GridIsNat
<1>4. ASSUME NEW e \in Errors
      PROVE  /\ Reaches(x, e) => MeetsEased(Floor(x))
             /\ ~ Reaches(x, e) => ~ MeetsClearly(Floor(x))
  <2>1. Reaches(x, e) <=> IF tail = "CDF" THEN c * e[1] * Unit >= target * e[2] * s
                                         ELSE c * e[1] * s <= target * e[2] * Unit
    BY <1>3 DEF Reaches
  <2>2. MeetsEased(Floor(x)) <=> IF tail = "CDF" THEN c * (Unit * Unit) >= target * (s * m)
                                                ELSE c * (s * m) <= target * (Unit * Unit)
    BY <1>1, MeetsCompared DEF MeetsEased
  <2>3. MeetsClearly(Floor(x)) <=> IF tail = "CDF" THEN c * m >= target * s ELSE c * s <= target * m
    BY <1>1, MeetsCompared DEF MeetsClearly
  <2>4. e \in {<<m, Unit>>, <<Unit, Unit>>, <<Unit, m>>}
    BY DEF Errors
  <2> HIDE DEF c, s, m
  <2>5. /\ c * e[1] * Unit >= target * e[2] * s => c * (Unit * Unit) >= target * (s * m)
        /\ ~ c * e[1] * Unit >= target * e[2] * s => ~ c * m >= target * s
        /\ c * e[1] * s <= target * e[2] * Unit => c * (s * m) <= target * (Unit * Unit)
        /\ ~ c * e[1] * s <= target * e[2] * Unit => ~ c * s <= target * m
    BY <1>1, <1>2, <2>4, ErrorsAtMost
  <2> QED BY <2>1, <2>2, <2>3, <2>5
<1> QED BY <1>4 DEF MayReach, MayMiss

\* What a finite answer stands for, the support's own edge included.
LEMMA FiniteAnswer ==
  ASSUME IInv, phase = "done", hi # Infinity
  PROVE  /\ Floor(hi) \in Support /\ TypeOK /\ SmallerTail
         /\ MeetsEased(Floor(hi))
         /\ Floor(hi) = 0 \/ ~ MeetsClearly(Before(Floor(hi)))
<1>1. TypeOK /\ SmallerTail /\ hi \in Floats /\ Floor(hi) \in Support
  <2>1. TypeOK /\ SmallerTail
    BY DEF IInv
  <2> QED BY <2>1, FloorInSupport DEF TypeOK
<1>2. CASE target = 0
  <2>1. hi = 0 /\ tail = "CDF"
    BY <1>2 DEF IInv, Bracket
  <2>2. Floor(hi) = 0
    BY <2>1, Units DEF Floor
  <2>3. Compared(Floor(hi)) \in Nat /\ Unit \in Nat
    BY <1>1, ComparedFacts, DistributionFacts DEF TypeOK
  <2>4. Compared(Floor(hi)) * (Unit * Unit) >= target * ((Unit - Slack) * (Unit - Noise))
    BY <1>2, <2>3, LevelsAssumption
  <2>5. MeetsEased(Floor(hi))
    BY <1>1, <2>1, <2>4, MeetsCompared DEF MeetsEased
  <2> QED BY <1>1, <2>2, <2>5
<1>3. CASE target # 0
  <2>1. MayReach(hi) /\ (Floor(hi) = 0 \/ MayMiss(Before(Floor(hi))))
    BY <1>3 DEF IInv, Bracket
  <2>2. MeetsEased(Floor(hi))
    BY <1>1, <2>1, EvaluatedAs
  <2>3. ASSUME Floor(hi) # 0 PROVE ~ MeetsClearly(Before(Floor(hi)))
    <3>1. Before(Floor(hi)) \in Support
      BY <1>1, <2>3, GapBelow
    <3>2. Before(Floor(hi)) \in Floats /\ Floor(Before(Floor(hi))) = Before(Floor(hi))
      BY <3>1, FloorInSupport
    <3> QED BY <1>1, <2>1, <2>3, <3>2, EvaluatedAs
  <2> QED BY <1>1, <2>2, <2>3
<1> QED BY <1>2, <1>3

\* A finite answer stands for the smallest support point that meets the quantile, as far as the
\* tails can be told apart, and is that point itself from an estimate no more than one too high.
THEOREM AnswersAQuantile ==
  ASSUME SeedError <= 1
  PROVE  Spec => []AnswerIsQuantile
<1>1. IInv => AnswerIsQuantile
  <2> SUFFICES ASSUME IInv, phase = "done", hi # Infinity
               PROVE  /\ MeetsEased(Floor(hi))
                      /\ Floor(hi) = 0 \/ ~ MeetsClearly(Before(Floor(hi)))
                      /\ seed - hi <= SeedError * One => hi % One = 0
    BY DEF AnswerIsQuantile
  <2>1. /\ hi \in Floats /\ hi \in Grid /\ seed \in Support /\ cdf \in Cdfs
        /\ hi % One = 0 \/ seed > EpsilonInverse * One
    BY FloatsAndGrid DEF IInv, TypeOK, Fractions
  <2>3. ASSUME seed - hi <= SeedError * One PROVE hi % One = 0
    <3> SUFFICES ASSUME hi % One # 0 PROVE FALSE
      OBVIOUS
    <3>1. hi \in Nat /\ One \in Nat \ {0} /\ EpsilonInverse \in Nat /\ EpsilonInverse * One \in Nat
          /\ SeedError \in Nat
      BY <2>1, GridIsNat, Units, LevelsAssumption
    <3>2. hi < EpsilonInverse * One
      BY <2>1, <3>1, FloorOfGrid DEF EpsilonInverse
    <3>3. seed \in Int /\ seed % One = 0 /\ seed > EpsilonInverse * One
      BY <2>1, SupportFacts, GridIsNat
    <3>4. PICK i \in Int : seed = i * One
      BY <3>1, <3>3, Multiples, Zenon
    <3>5. EpsilonInverse + 1 <= i
      <4>1. i <= EpsilonInverse => i * One <= EpsilonInverse * One
        BY <3>1, Products
      <4> QED BY <3>1, <3>3, <3>4, <4>1
    <3>6. (EpsilonInverse + 1) * One <= i * One
      BY <3>1, <3>5, Products
    <3>7. (EpsilonInverse + 1) * One = EpsilonInverse * One + One
      BY <3>1
    <3>8. SeedError * One <= One
      BY <3>1
    <3> QED BY <2>3, <3>1, <3>2, <3>3, <3>4, <3>6, <3>7, <3>8
  <2> QED BY <2>3, FiniteAnswer
<1> QED BY <1>1, PoissonInvariant, PTL

\* The answer is not before k: c is the tail compared at k, p at the point before, f at the answer.
LEMMA NotBefore ==
  ASSUME NEW u \in Nat \ {0}, NEW s \in 1 .. u, NEW m \in 1 .. u,
         NEW c \in Nat, NEW p \in Nat, NEW f \in Nat, NEW t \in Nat, NEW err \in Int
  PROVE  /\ c * u - err <= t * u /\ p * u * u * u < (c * u - err) * s * m /\ f <= p
              => f * (u * u) < t * (s * m)
         /\ t * u <= c * u + err /\ p * s * m > (c * u + err) * u /\ p <= f
              => f * (s * m) > t * (u * u)
<1>1. ASSUME c * u - err <= t * u, p * u * u * u < (c * u - err) * s * m, f <= p
      PROVE  f * (u * u) < t * (s * m)
  <2>1. (c * u - err) * (s * m) <= (t * u) * (s * m)
    BY <1>1
  <2>2. p * (u * u) * u < t * (s * m) * u
    BY <1>1, <2>1
  <2>3. p * (u * u) < t * (s * m)
    BY <2>2
  <2> QED BY <1>1, <2>3
<1>2. ASSUME t * u <= c * u + err, p * s * m > (c * u + err) * u, p <= f
      PROVE  f * (s * m) > t * (u * u)
  <2>1. (t * u) * u <= (c * u + err) * u
    BY <1>2
  <2>2. p * (s * m) > t * (u * u)
    BY <1>2, <2>1
  <2> QED BY <1>2, <2>2
<1> QED BY <1>1, <1>2

\* Nor after k, where the error is within the tolerance: b is the tail before the answer.
LEMMA NotAfter ==
  ASSUME NEW u \in Nat \ {0}, NEW N \in 0 .. u - 1, NEW S \in 0 .. u - 1, 2 * N <= S,
         NEW c \in Nat, NEW b \in Nat, NEW t \in Nat, NEW err \in Int,
         err <= (S - N) * c
  PROVE  /\ ~ (t * u <= c * u + err /\ c <= b /\ b * (u - N) < t * (u - S))
         /\ ~ (c * u - err <= t * u /\ b <= c /\ b * (u - S) > t * (u - N))
<1>1. ASSUME t * u <= c * u + err, c <= b, b * (u - N) < t * (u - S) PROVE FALSE
  <2>1. c * (u - N) < t * (u - S)
    BY <1>1
  <2>2. c * (u - N) * u < t * u * (u - S)
    BY <2>1
  <2>3. t * u * (u - S) <= c * (u + S - N) * (u - S)
    BY <1>1
  <2>4. (u + S - N) * (u - S) <= (u - N) * u
    OBVIOUS
  <2>5. c * ((u + S - N) * (u - S)) <= c * ((u - N) * u)
    BY <2>4
  <2> QED BY <2>2, <2>3, <2>5
<1>2. ASSUME c * u - err <= t * u, b <= c, b * (u - S) > t * (u - N) PROVE FALSE
  <2>1. c * (u - S) > t * (u - N)
    BY <1>2
  <2>2. c * (u - S) * u > t * u * (u - N)
    BY <2>1
  <2>3. t * u * (u - N) >= c * (u - S + N) * (u - N)
    BY <1>2
  <2>4. (u - S + N) * (u - N) >= (u - S) * u
    OBVIOUS
  <2>5. c * ((u - S + N) * (u - N)) >= c * ((u - S) * u)
    BY <2>4
  <2> QED BY <2>2, <2>3, <2>5
<1> QED BY <1>1, <1>2

\* Nor after the next point, whose tail is n; the errors are of the method's own tail at each.
LEMMA NotPastNext ==
  ASSUME NEW u \in Nat \ {0}, NEW N \in 0 .. u - 1, NEW S \in 0 .. u - 1, 2 * N <= S,
         NEW c \in Nat, NEW n \in Nat, NEW b \in Nat, NEW t \in Nat, NEW whole \in Nat,
         NEW own \in BOOLEAN, NEW ck \in Nat, NEW cn \in Nat,
         ck = N * (IF own THEN c ELSE whole - c), cn = N * (IF own THEN n ELSE whole - n)
  PROVE  /\ ~ /\ t * u <= c * u + ck /\ c <= n
              /\ c * u * u * u < (n * u - cn) * (u - S) * (u - N)
              /\ n <= b /\ b * (u - N) < t * (u - S)
         /\ ~ /\ c * u - ck <= t * u /\ n <= c
              /\ c * (u - S) * (u - N) > (n * u + cn) * u
              /\ b <= n /\ b * (u - S) > t * (u - N)
<1> DEFINE s == u - S  m == u - N
<1>0. s \in 1 .. u /\ m \in 1 .. u /\ s <= m
  OBVIOUS
<1>1. ASSUME t * u <= c * u + ck, c <= n, c * u * u * u < (n * u - cn) * s * m,
             n <= b, b * m < t * s
      PROVE  FALSE
  <2>1. n * m < t * s
    BY <1>0, <1>1
  <2>2. t * u <= n * (u + N)
    <3>1. CASE own
      <4>1. ck <= N * n /\ c * u <= n * u
        BY <1>1, <3>1
      <4> QED BY <1>1, <4>1
    <3>2. CASE ~ own
      <4>1. n * u - cn > 0
        <5>1. c * u * u * u >= 0
          OBVIOUS
        <5>2. n * u - cn <= 0 => (n * u - cn) * (s * m) <= 0
          BY <1>0
        <5> QED BY <1>0, <1>1, <5>1, <5>2
      <4>2. c * u < n * u - cn
        <5>1. (n * u - cn) * (s * m) <= (n * u - cn) * (u * u)
          BY <1>0, <4>1
        <5>2. (c * u) * (u * u) < (n * u - cn) * (u * u)
          BY <1>0, <1>1, <5>1
        <5> QED BY <5>2
      <4>3. ck = cn + N * n - N * c
        BY <3>2
      <4> QED BY <1>1, <4>2, <4>3
    <3> QED BY <3>1, <3>2
  <2>3. n * m * u < t * u * s
    BY <1>0, <2>1
  <2>4. t * u * s <= n * (u + N) * s
    BY <1>0, <2>2
  <2>5. (u + N) * s <= m * u
    OBVIOUS
  <2>6. n * ((u + N) * s) <= n * (m * u)
    BY <1>0, <2>5
  <2> QED BY <1>0, <2>3, <2>4, <2>6
<1>2. ASSUME c * u - ck <= t * u, n <= c, c * s * m > (n * u + cn) * u,
             b <= n, b * s > t * m
      PROVE  FALSE
  <2>1. n * s > t * m
    BY <1>0, <1>2
  <2>2. t > n
    <3>1. CASE own
      <4>1. c * m <= t * u
        BY <1>2, <3>1
      <4>2. c * m * s <= t * u * s
        BY <1>0, <4>1
      <4>3. n * u * u < t * s * u
        BY <1>0, <1>2, <4>2
      <4>4. n * u < t * s
        BY <1>0, <4>3
      <4>5. t * s <= t * u
        BY <1>0
      <4> QED BY <4>4, <4>5
    <3>2. CASE ~ own
      <4>1. ck <= cn
        BY <1>2, <3>2
      <4>2. c * (s * m) <= c * (u * u)
        BY <1>0
      <4>3. (n * u + cn) * u < (c * u) * u
        BY <1>0, <1>2, <4>2
      <4>4. n * u + cn < c * u
        BY <4>3
      <4> QED BY <1>2, <4>1, <4>4
    <3> QED BY <3>1, <3>2
  <2>3. t * m >= n * m /\ n * m >= n * s
    BY <1>0, <2>2
  <2> QED BY <1>0, <2>1, <2>3
<1> QED BY <1>1, <1>2

\* What an inverted point says of the target: it is the tail compared there, up to the method's error.
LEMMA TargetOfInverted ==
  ASSUME TypeOK, SmallerTail, phase # "start", NEW k \in Support, Inverted(k)
  PROVE  /\ Compared(k) * Unit - OwnError(k) <= target * Unit
         /\ target * Unit <= Compared(k) * Unit + OwnError(k)
<1> DEFINE own == IF method = "ppf" THEN cdf[k] ELSE Whole - cdf[k]
           err == OwnError(k)
<1>1. /\ q \in Int /\ Whole \in Nat /\ cdf[k] \in Int /\ method \in {"ppf", "isf"}
      /\ Unit \in Nat /\ Noise \in Nat
  BY DistributionFacts, TargetIsInt DEF TypeOK
<1>2. err \in Int /\ own \in Int /\ (q - own) * Unit \in - err .. err
  BY <1>1 DEF Inverted, OwnError
<1>3. \/ target = q /\ Compared(k) = own
      \/ target = Whole - q /\ Compared(k) = Whole - own
  BY <1>1 DEF SmallerTail, TailOf, Complement, Compared
<1> HIDE DEF own, err
<1>4. CASE target = q /\ Compared(k) = own
  BY <1>1, <1>2, <1>4 DEF err
<1>5. CASE target = Whole - q /\ Compared(k) = Whole - own
  <2>1. Compared(k) * Unit = Whole * Unit - own * Unit /\ target * Unit = Whole * Unit - q * Unit
        /\ (q - own) * Unit = q * Unit - own * Unit
    BY <1>1, <1>2, <1>5
  <2>2. q * Unit \in Int /\ own * Unit \in Int /\ Whole * Unit \in Int
    BY <1>1, <1>2
  <2> QED BY <1>2, <2>1, <2>2 DEF err
<1> QED BY <1>3, <1>4, <1>5

\* A quantile computed on a step that stands apart inverts to that step where the tail compared
\* resolves it, and never before it or past the next, where the tolerance is twice an evaluation's error.
THEOREM QuantilesInvert ==
  ASSUME 2 * Noise <= Slack
  PROVE  Spec => []RoundTrips
<1>1. IInv => RoundTrips
  <2> SUFFICES ASSUME IInv, phase = "done", hi # Infinity, NEW k \in Support, Inverted(k), Apart(k)
               PROVE  /\ k <= Floor(hi)
                      /\ Resolved(k) => Floor(hi) = k
                      /\ \A n \in Support : n > k /\ Before(n) = k /\ Apart(n) => Floor(hi) <= n
    BY DEF RoundTrips
  <2> DEFINE f == Floor(hi)
             s == Unit - Slack
             m == Unit - Noise
  <2>1. TypeOK /\ SmallerTail /\ f \in Support /\ cdf \in Cdfs
    BY FiniteAnswer DEF TypeOK
  <2>2. /\ Unit \in Nat \ {0} /\ Noise \in 0 .. Unit - 1 /\ Slack \in 0 .. Unit - 1 /\ Whole \in Nat
        /\ s \in 1 .. Unit /\ m \in 1 .. Unit /\ target \in Nat
    BY <2>1, DistributionFacts, MeetsCompared
  <2>3. f \in Nat /\ \A j \in Support : j \in Nat /\ Compared(j) \in Nat /\ OwnError(j) \in Nat
    <3>1. \A j \in Support : cdf[j] \in Nat /\ Whole - cdf[j] \in Nat
      <4>1. \A j \in Support : cdf[j] \in Int /\ 1 <= cdf[j] /\ cdf[j] <= Whole - 1
        BY <2>1, DistributionFacts
      <4> QED BY <2>2, <4>1
    <3>2. \A j \in Support : OwnError(j) \in Nat
      BY <2>2, <3>1 DEF OwnError
    <3> QED BY <2>1, <3>2, ComparedFacts, SupportFacts, GridIsNat
  <2>4. /\ Compared(k) * Unit - OwnError(k) <= target * Unit
        /\ target * Unit <= Compared(k) * Unit + OwnError(k)
    BY <2>1, TargetOfInverted
  <2>5. IF tail = "CDF" THEN Compared(f) * (Unit * Unit) >= target * (s * m)
                        ELSE Compared(f) * (s * m) <= target * (Unit * Unit)
    <3>1. MeetsEased(f)
      BY FiniteAnswer
    <3> QED BY <2>1, <3>1, MeetsCompared DEF MeetsEased
  <2>6. ASSUME f # 0
        PROVE  /\ Before(f) \in Support
               /\ IF tail = "CDF" THEN ~ Compared(Before(f)) * m >= target * s
                                  ELSE ~ Compared(Before(f)) * s <= target * m
    <3>1. Before(f) \in Support /\ ~ MeetsClearly(Before(f))
      BY <2>1, <2>6, GapBelow, FiniteAnswer
    <3> QED BY <2>1, <3>1, MeetsCompared DEF MeetsClearly
  <2>7. k <= f
    <3> SUFFICES ASSUME f < k PROVE FALSE
      BY <2>3
    <3>1. k # 0 /\ Before(k) \in Support /\ f <= Before(k)
      BY <2>1, <2>3, GapBelow
    <3>2. IF tail = "CDF" THEN Compared(f) <= Compared(Before(k)) ELSE Compared(Before(k)) <= Compared(f)
      BY <2>1, <3>1, ComparedFacts
    <3> DEFINE c == Compared(k)  p == Compared(Before(k))  g == Compared(f)  err == OwnError(k)
    <3>3. c \in Nat /\ p \in Nat /\ g \in Nat /\ err \in Int
      BY <2>1, <2>3, <3>1
    <3>4. IF tail = "CDF" THEN p * Unit * Unit * Unit < (c * Unit - err) * s * m
                          ELSE p * s * m > (c * Unit + err) * Unit
      BY <3>1 DEF Apart
    <3> HIDE DEF c, p, g, err, s, m, f
    <3>5. IF tail = "CDF" THEN g * (Unit * Unit) < target * (s * m) ELSE g * (s * m) > target * (Unit * Unit)
      BY <2>2, <2>4, <3>2, <3>3, <3>4, NotBefore DEF c, p, g, err
    <3>6. g * (Unit * Unit) \in Int /\ target * (s * m) \in Int /\ g * (s * m) \in Int
          /\ target * (Unit * Unit) \in Int
      BY <2>2, <3>3
    <3> QED BY <2>5, <3>5, <3>6 DEF g
  <2>8. ASSUME NEW n \in Support, n < f
        PROVE  /\ f # 0 /\ Compared(Before(f)) \in Nat
               /\ IF tail = "CDF" THEN /\ Compared(n) <= Compared(Before(f))
                                       /\ Compared(Before(f)) * m < target * s
                                  ELSE /\ Compared(Before(f)) <= Compared(n)
                                       /\ Compared(Before(f)) * s > target * m
    <3>1. f # 0 /\ Before(f) \in Support /\ n <= Before(f)
      BY <2>1, <2>3, <2>8, GapBelow
    <3>2. IF tail = "CDF" THEN Compared(n) <= Compared(Before(f)) ELSE Compared(Before(f)) <= Compared(n)
      BY <2>1, <3>1, ComparedFacts
    <3> DEFINE b == Compared(Before(f))
    <3>3. b \in Nat
      BY <2>3, <3>1
    <3>4. IF tail = "CDF" THEN ~ b * m >= target * s ELSE ~ b * s <= target * m
      BY <2>6, <3>1
    <3> HIDE DEF b, s, m, f
    <3>5. IF tail = "CDF" THEN b * m < target * s ELSE b * s > target * m
      BY <2>2, <3>3, <3>4
    <3> QED BY <3>1, <3>2, <3>3, <3>5 DEF b
  <2>9. ASSUME Resolved(k) PROVE f = k
    <3> SUFFICES ASSUME k < f PROVE FALSE
      BY <2>3, <2>7
    <3> DEFINE c == Compared(k)  b == Compared(Before(f))  err == OwnError(k)
    <3>1. c \in Nat /\ b \in Nat /\ err \in Int /\ err <= (Slack - Noise) * c
      BY <2>3, <2>8, <2>9 DEF Resolved
    <3>2. IF tail = "CDF" THEN c <= b /\ b * (Unit - Noise) < target * (Unit - Slack)
                          ELSE b <= c /\ b * (Unit - Slack) > target * (Unit - Noise)
      BY <2>8
    <3>3. c * Unit - err <= target * Unit /\ target * Unit <= c * Unit + err
      BY <2>4
    <3> HIDE DEF c, b, err, f
    <3> QED BY <2>2, <3>1, <3>2, <3>3, NotAfter
  <2>10. ASSUME NEW n \in Support, n > k, Before(n) = k, Apart(n) PROVE f <= n
    <3> SUFFICES ASSUME n < f PROVE FALSE
      BY <2>3
    <3> DEFINE c == Compared(k)  d == Compared(n)  b == Compared(Before(f))  whole == Whole
               own == (method = "ppf") <=> (tail = "CDF")
    <3>1. c \in Nat /\ d \in Nat /\ b \in Nat /\ n # 0
      BY <2>3, <2>8, <2>10
    <3>2. IF tail = "CDF" THEN d <= b /\ b * (Unit - Noise) < target * (Unit - Slack)
                          ELSE b <= d /\ b * (Unit - Slack) > target * (Unit - Noise)
      BY <2>8
    <3>3. IF tail = "CDF" THEN c <= d ELSE d <= c
      BY <2>1, <2>3, <2>10, ComparedFacts
    <3>4. IF tail = "CDF"
          THEN c * Unit * Unit * Unit < (d * Unit - OwnError(n)) * (Unit - Slack) * (Unit - Noise)
          ELSE c * (Unit - Slack) * (Unit - Noise) > (d * Unit + OwnError(n)) * Unit
      BY <2>10, <3>1 DEF Apart
    <3>5. /\ OwnError(k) = Noise * (IF own THEN c ELSE Whole - c)
          /\ OwnError(n) = Noise * (IF own THEN d ELSE Whole - d)
      <4>1. method \in {"ppf", "isf"} /\ tail \in {"CDF", "SF"} /\ cdf[k] \in Int /\ cdf[n] \in Int
        BY <2>1, DistributionFacts DEF TypeOK, SmallerTail, TailOf, Complement
      <4> QED BY <2>2, <4>1 DEF OwnError, Compared
    <3>6. OwnError(k) \in Nat /\ OwnError(n) \in Nat /\ own \in BOOLEAN
      BY <2>3
    <3> HIDE DEF c, d, b, own, f
    <3>7. CASE tail = "CDF"
      BY <2>2, <2>4, <3>1, <3>2, <3>3, <3>4, <3>5, <3>6, <3>7, NotPastNext DEF c
    <3>8. CASE tail # "CDF"
      BY <2>2, <2>4, <3>1, <3>2, <3>3, <3>4, <3>5, <3>6, <3>8, NotPastNext DEF c
    <3> QED BY <3>7, <3>8
  <2> QED BY <2>7, <2>9, <2>10
<1> QED BY <1>1, PoissonInvariant, PTL

-----------------------------------------------------------------------------
\* The gallop up.

LEMMA SpacingUpTo ==
  ASSUME NEW x \in Nat, x < Infinity, NEW e \in Nat, x < 2 ^ Precision * 2 ^ e
  PROVE  Spacing(x, 1) <= 2 ^ e
<1>1. PICK d \in 0 .. MaxExponent :
           Spacing(x, 1) = 2 ^ d /\ (d = 0 \/ 2 ^ (Precision - 1) * 2 ^ d <= x)
  BY SpacingAt
<1>2. d \in Nat /\ 2 ^ d \in Nat /\ 2 ^ e \in Nat /\ 2 ^ (Precision - 1) \in Nat
      /\ 2 ^ Precision = 2 * 2 ^ (Precision - 1)
  BY <1>1, FormatFacts, PowerIsPositive
<1>3. d <= e
  <2> SUFFICES ASSUME e < d PROVE FALSE
    BY <1>2
  <2>1. 2 * 2 ^ e <= 2 ^ d
    BY <1>2, PowerBelow
  <2>2. 2 ^ (Precision - 1) * (2 * 2 ^ e) <= 2 ^ (Precision - 1) * 2 ^ d
    BY <1>2, <2>1, Products
  <2>3. 2 ^ Precision * 2 ^ e = 2 ^ (Precision - 1) * (2 * 2 ^ e)
    BY <1>2
  <2>4. 2 ^ (Precision - 1) * (2 * 2 ^ e) \in Nat /\ 2 ^ (Precision - 1) * 2 ^ d \in Nat
    BY <1>2
  <2> QED BY <1>1, <2>2, <2>3, <2>4
<1> QED BY <1>1, <1>2, <1>3, PowerUpTo

\* A value at or past one with that spacing is a multiple of it.
LEMMA MultipleAbove ==
  ASSUME NEW a \in Grid, NEW e \in Nat, e = 0 \/ 2 ^ (Precision - 1) * 2 ^ e <= a,
         NEW f \in Grid, a <= f
  PROVE  \E i \in Nat : f = i * 2 ^ e
<1>1. a \in Nat /\ f \in Nat /\ 2 ^ (Precision - 1) * 2 ^ e \in Nat
  BY GridIsNat, FormatFacts, PowerIsPositive
<1>2. CASE e = 0
  <2>1. 2 ^ e = 1
    BY <1>2, PowerStep
  <2> QED BY <1>1, <2>1
<1>3. CASE e # 0
  <2>1. 2 ^ (Precision - 1) * 2 ^ e <= f
    BY <1>1, <1>3
  <2> QED BY <2>1, MultipleFrom
<1> QED BY <1>2, <1>3

\* Doubling never overshoots.
LEMMA DoubleAtMost ==
  ASSUME NEW x \in Grid
  PROVE  Double(x) \in Nat /\ Double(x) <= 2 * x
<1>1. x \in Nat /\ x + x \in Nat /\ 1 \in Nat \ {0} /\ Infinity \in Nat
  BY GridIsNat, FormatFacts
<1>2. CASE x = Infinity
  BY <1>1, <1>2 DEF Double, Plus
<1>3. CASE x # Infinity
  <2>1. Double(x) = Nearest(x + x, 1)
    BY <1>1, <1>3, RoundIsSigned DEF Double, Plus
  <2>2. Nearest(x + x, 1) \in Nat /\ Nearest(x + x, 1) <= Infinity
    BY <1>1, NearestIsNat
  <2>3. CASE Infinity <= x + x
    BY <1>1, <2>1, <2>2, <2>3
  <2>4. CASE x + x < Infinity
    <3>1. PICK i \in 0 .. 2 ^ Precision, e \in 0 .. MaxExponent : x = i * 2 ^ e
      BY DEF Grid
    <3>2. i \in Nat /\ e \in Nat /\ e + 1 \in Nat /\ i <= 2 ^ Precision /\ 2 ^ (e + 1) = 2 * 2 ^ e /\ 2 ^ e \in Nat
      BY <3>1, FormatFacts, PowerIsPositive, PowerStep
    <3>3. i * (2 * 2 ^ e) = x + x
      BY <3>1, <3>2
    <3>4. x + x \in Grid
      BY <1>1, <2>4, <3>2, <3>3, GridValue
    <3>5. x + x <= (x + x) * 1
      BY <1>1
    <3> QED BY <1>1, <2>1, <2>2, <3>4, <3>5, NearestKeepsGrid
  <2> QED BY <1>1, <2>3, <2>4
<1> QED BY <1>2, <1>3

\* The first step is no longer than the estimate, but from 0.
LEMMA FirstStepAtMost ==
  ASSUME NEW s \in Support
  PROVE  /\ FirstStep(s) \in Nat /\ s \in Nat
         /\ FirstStep(s) <= s \/ (s = 0 /\ FirstStep(s) = One)
<1>1. s \in Grid /\ s \in Nat /\ s % One = 0 /\ EpsilonInverse \in Nat \ {0} /\ One \in Nat \ {0}
  BY SupportFacts, GridIsNat, Units
<1>2. Round(s, EpsilonInverse) = Nearest(s, EpsilonInverse) /\ Nearest(s, EpsilonInverse) \in Nat
  BY <1>1, RoundIsSigned, NearestIsNat
<1>3. Nearest(s, EpsilonInverse) <= s
  <2>1. s <= s * EpsilonInverse
    <3>1. s * 1 <= s * EpsilonInverse
      BY <1>1, Products
    <3> QED BY <1>1, <3>1
  <2> QED BY <1>1, <2>1, NearestKeepsGrid
<1>4. s = 0 \/ One <= s
  <2>3. s \in Int
    BY <1>1
  <2>1. PICK i \in Int : s = i * One
    BY <1>1, <2>3, Multiples, Zenon
  <2>2. i <= 0 => i * One <= 0 * One
    BY <1>1, <2>1, Products
  <2>4. 1 <= i => 1 * One <= i * One
    BY <1>1, <2>1, Products
  <2> QED BY <1>1, <2>1, <2>2, <2>4
<1> QED BY <1>1, <1>2, <1>3, <1>4 DEF FirstStep

-----------------------------------------------------------------------------
\* A point a and a step t of a gallop from s.
Galloping(s, a, t) ==
  /\ s \in Support /\ a \in Grid /\ a < Infinity /\ t \in Grid /\ t # 0
  /\ s <= EpsilonInverse * One => a % One = 0 /\ t % One = 0
  /\ \A z \in 0 .. t : z < t /\ z % Spacing(a, 1) = 0 => z <= a - s + FirstStep(s)

\* The step is covered but for one spacing, and the sum is exact or rounded by one spacing at most.
LEMMA GallopAt ==
  ASSUME NEW s, NEW a, NEW t, Galloping(s, a, t)
  PROVE  \E e \in 0 .. MaxExponent, g \in Nat :
           /\ Spacing(a, 1) = 2 ^ e /\ a < 2 ^ Precision * 2 ^ e
           /\ e = 0 \/ 2 ^ (Precision - 1) * 2 ^ e <= a
           /\ g * 2 ^ e < t /\ t <= g * 2 ^ e + 2 ^ e /\ g * 2 ^ e <= a - s + FirstStep(s)
           /\ a + t < Infinity => a + t \in Grid \/ Spacing(a + t, 1) <= 2 * 2 ^ e
<1>1. /\ a \in Nat /\ t \in Nat /\ s \in Nat /\ FirstStep(s) \in Nat /\ a + t \in Nat
      /\ One \in Nat \ {0} /\ 2 ^ Precision \in Nat \ {0} /\ 2 ^ (Precision - 1) \in Nat \ {0}
      /\ 2 ^ Precision = 2 * 2 ^ (Precision - 1) /\ Infinity \in Nat /\ MaxExponent \in Nat
      /\ FirstStep(s) <= s \/ (s = 0 /\ FirstStep(s) = One)
  BY GridIsNat, FormatFacts, FirstStepAtMost DEF Galloping
<1>2. PICK e \in 0 .. MaxExponent :
           /\ Spacing(a, 1) = 2 ^ e /\ a < 2 ^ Precision * 2 ^ e
           /\ e = 0 \/ 2 ^ (Precision - 1) * 2 ^ e <= a
  BY <1>1, SpacingAt DEF Galloping
<1> DEFINE u == 2 ^ e
<1>3. e \in Nat /\ u \in Nat \ {0} /\ 2 ^ (e + 1) = 2 * u /\ e + 1 \in Nat
  BY <1>2, PowerIsPositive, PowerStep
<1>4. PICK i \in Nat : a = i * u
  <2>1. a \in Grid /\ a <= a
    BY <1>1 DEF Galloping
  <2> QED BY <1>2, <1>3, <2>1, MultipleAbove
<1> HIDE DEF u
<1>5. PICK g \in Nat : g * u < t /\ t <= g * u + u /\ (g * u) % u = 0 /\ g * u \in 0 .. t
  <2> DEFINE k == (t - 1) \div u
             r == (t - 1) % u
  <2>1. t - 1 \in Int /\ 0 <= t - 1
    BY <1>1 DEF Galloping
  <2>2. k \in Int /\ r \in 0 .. u - 1 /\ t - 1 = u * k + r
    BY <1>3, <2>1, Quotient
  <2> HIDE DEF k, r
  <2>3. k \in Nat
    <3>1. k <= -1 => u * k <= u * (-1)
      BY <1>3, <2>2, Products
    <3> QED BY <1>3, <2>1, <2>2, <3>1
  <2>4. u * k = k * u /\ u * k \in Nat /\ k * u \in Int
    BY <1>3, <2>3
  <2>5. \E j \in Int : k * u = j * u
    BY <2>2
  <2>6. (k * u) % u = 0
    BY <1>3, <2>4, <2>5, Multiples, Zenon
  <2>7. k * u < t /\ t <= k * u + u /\ k * u \in 0 .. t
    BY <1>1, <1>3, <2>2, <2>4
  <2> QED BY <2>3, <2>6, <2>7
<1>6. g * u <= a - s + FirstStep(s)
  BY <1>2, <1>5 DEF Galloping, u
<1>7. g * u \in Nat /\ t <= a - s + FirstStep(s) + u
  BY <1>1, <1>3, <1>5, <1>6
<1>8. a <= 2 ^ Precision * u - u
  <2>1. i < 2 ^ Precision
    <3>1. 2 ^ Precision <= i => 2 ^ Precision * u <= i * u
      BY <1>1, <1>3, Products
    <3> QED BY <1>1, <1>2, <1>3, <1>4, <3>1 DEF u
  <2>2. i + 1 <= 2 ^ Precision
    BY <1>1, <2>1
  <2>3. (i + 1) * u <= 2 ^ Precision * u
    BY <1>1, <1>3, <2>2, Products
  <2>4. (i + 1) * u = i * u + u
    BY <1>3
  <2> QED BY <1>1, <1>3, <1>4, <2>3, <2>4
<1>9. ASSUME a + t < Infinity PROVE a + t \in Grid \/ Spacing(a + t, 1) <= 2 * u
  <2> DEFINE top == 2 ^ Precision * u
  <2>1. top \in Nat /\ 2 ^ Precision * (2 * u) = 2 * top /\ a <= top - u
    BY <1>1, <1>3, <1>8
  <2> HIDE DEF top
  <2>2. ASSUME a + t <= 2 * top PROVE a + t \in Grid \/ Spacing(a + t, 1) <= 2 * u
    <3>1. CASE a + t < 2 * top
      <4>1. a + t < 2 ^ Precision * 2 ^ (e + 1)
        BY <1>3, <2>1, <3>1
      <4> QED BY <1>1, <1>3, <1>9, <4>1, SpacingUpTo
    <3>2. CASE a + t = 2 * top
      <4>1. a + t = 2 ^ Precision * 2 ^ (e + 1)
        BY <1>3, <2>1, <3>2
      <4> QED BY <1>1, <1>3, <1>9, <4>1, GridValue
    <3> QED BY <1>1, <2>1, <2>2, <3>1, <3>2
  <2>3. CASE FirstStep(s) <= s
    BY <1>1, <1>3, <1>7, <2>1, <2>2, <2>3
  <2>4. CASE s = 0 /\ FirstStep(s) = One /\ One <= u
    BY <1>1, <1>3, <1>7, <2>1, <2>2, <2>4
  <2>5. CASE s = 0 /\ FirstStep(s) = One /\ u < One
    <3>1. a % One = 0 /\ t % One = 0 /\ a \in Int /\ t \in Int
      <4>1. 0 <= EpsilonInverse * One
        BY Units
      <4> QED BY <1>1, <2>5, <4>1 DEF Galloping
    <3>2. PICK m \in Int : a = m * One
      BY <1>1, <3>1, Multiples, Zenon
    <3>3. PICK n \in Int : t = n * One
      BY <1>1, <3>1, Multiples, Zenon
    <3>4. 2 * u <= One
      <4>1. FractionBits \in Nat /\ One = 2 ^ FractionBits
        BY Units
      <4>2. e < FractionBits
        <5>1. FractionBits <= e => One <= u
          BY <1>3, <4>1, PowerUpTo DEF u
        <5> QED BY <1>1, <1>3, <2>5, <4>1, <5>1
      <4> QED BY <1>3, <4>1, <4>2, PowerBelow DEF u
    <3>5. m < 2 ^ (Precision - 1)
      <4>1. 2 ^ (Precision - 1) <= m => 2 ^ (Precision - 1) * One <= m * One
        BY <1>1, <3>2, Products
      <4>2. 2 ^ (Precision - 1) * (2 * u) <= 2 ^ (Precision - 1) * One
        BY <1>1, <1>3, <3>4, Products
      <4>3. 2 ^ (Precision - 1) * (2 * u) = 2 ^ Precision * u
        BY <1>1, <1>3
      <4>4. 2 ^ (Precision - 1) * One \in Nat /\ 2 ^ Precision * u \in Nat
        BY <1>1, <1>3
      <4>5. 2 ^ Precision * u - u < 2 ^ Precision * u
        BY <1>3, <4>4
      <4> QED BY <1>1, <1>3, <1>8, <3>2, <4>1, <4>2, <4>3, <4>4, <4>5
    <3>6. n <= m + 1 /\ 0 <= m /\ 0 <= n
      <4>1. t < a + 2 * One
        BY <1>1, <1>3, <1>7, <2>5, <3>4
      <4>2. (m + 2) * One = a + 2 * One
        BY <1>1, <3>2
      <4>3. m + 2 <= n => (m + 2) * One <= n * One
        BY <1>1, <3>2, <3>3, Products
      <4>4. m <= -1 => m * One <= (-1) * One
        BY <1>1, <3>2, Products
      <4>5. n <= -1 => n * One <= (-1) * One
        BY <1>1, <3>3, Products
      <4>6. (-1) * One < 0
        BY <1>1
      <4> QED BY <1>1, <3>2, <3>3, <4>1, <4>2, <4>3, <4>4, <4>5, <4>6
    <3>7. m + n \in Nat /\ m + n <= 2 ^ Precision
      BY <1>1, <3>2, <3>3, <3>5, <3>6
    <3>8. (m + n) * One = a + t
      BY <1>1, <3>2, <3>3
    <3>9. One = 2 ^ FractionBits /\ FractionBits \in Nat /\ (m + n) * One <= Infinity
      BY <1>1, <1>9, <3>8, Units
    <3>10. (m + n) * 2 ^ FractionBits \in Grid
      BY <3>7, <3>9, GridValue
    <3> QED BY <3>8, <3>9, <3>10
  <2> QED BY <1>1, <1>3, <2>3, <2>4, <2>5
<1> QED BY <1>2, <1>5, <1>6, <1>9 DEF u

\* Where a gallop lands it has covered what its doubled step comes to.
LEMMA GallopLands ==
  ASSUME NEW s, NEW a, NEW t, Galloping(s, a, t), NEW b, b = Nearest(a + t, 1), b < Infinity,
         NEW z \in Nat, z < 2 * t, z % Spacing(b, 1) = 0
  PROVE  z <= b - s + FirstStep(s)
<1>1. /\ a \in Nat /\ t \in Nat /\ s \in Nat /\ FirstStep(s) \in Nat /\ a + t \in Nat /\ 1 \in Nat \ {0}
      /\ Infinity \in Nat /\ MaxExponent \in Nat /\ a \in Grid
  BY GridIsNat, FormatFacts, FirstStepAtMost DEF Galloping
<1>2. PICK e \in 0 .. MaxExponent, g \in Nat :
           /\ Spacing(a, 1) = 2 ^ e /\ a < 2 ^ Precision * 2 ^ e
           /\ e = 0 \/ 2 ^ (Precision - 1) * 2 ^ e <= a
           /\ g * 2 ^ e < t /\ t <= g * 2 ^ e + 2 ^ e /\ g * 2 ^ e <= a - s + FirstStep(s)
           /\ a + t < Infinity => a + t \in Grid \/ Spacing(a + t, 1) <= 2 * 2 ^ e
  BY GallopAt
<1> DEFINE u == 2 ^ e
<1>3. e \in Nat /\ u \in Nat \ {0} /\ g * u \in Nat
  BY <1>2, PowerIsPositive
<1>4. b \in Grid /\ b \in Nat /\ a <= b
  BY <1>1, NearestInGrid, NearestIsNat, NearestKeepsGrid
<1>5. a + t < Infinity
  <2>1. Infinity * 1 <= a + t => Infinity <= b
    BY <1>1, InfinityInGrid, NearestKeepsGrid
  <2> QED BY <1>1, <1>4, <2>1
<1>6. /\ Spacing(a + t, 1) \in Nat \ {0} /\ Spacing(a + t, 1) <= Spacing(b, 1)
      /\ 2 * b - 2 * (a + t) \in - Spacing(a + t, 1) .. Spacing(a + t, 1)
  BY <1>1, <1>5, SpacingOfNearest
<1>7. a + t \in Grid => b = a + t
  <2>1. a + t \in Grid => Nearest((a + t) * 1, 1) = a + t
    BY <1>1, NearestFixesGrid
  <2> QED BY <1>1, <2>1
<1>8. \A f \in Grid : a <= f => \E i \in Nat : f = i * u
  BY <1>1, <1>2, <1>3, MultipleAbove
<1>9. PICK i \in Nat : a = i * u
  BY <1>1, <1>8
<1>10. PICK j \in Nat : b = j * u
  BY <1>4, <1>8
<1>11. PICK d \in 0 .. MaxExponent : Spacing(b, 1) = 2 ^ d
  BY <1>4, SpacingAt
<1>12. e <= d /\ d \in Nat
  <2>1. CASE e = 0
    BY <1>11, <2>1
  <2>2. CASE e # 0
    <3>1. u <= Spacing(b, 1)
      <4>1. 2 ^ (Precision - 1) * 2 ^ e \in Nat
        BY <1>3, FormatFacts
      <4>2. 2 ^ (Precision - 1) * 2 ^ e <= b /\ e \in 0 .. MaxExponent + 1
        BY <1>1, <1>2, <1>4, <2>2, <4>1
      <4> QED BY <1>4, <4>2, SpacingFrom
    <3>2. d < e => 2 * 2 ^ d <= u
      BY <1>3, <1>11, PowerBelow
    <3>3. 2 ^ d \in Nat \ {0}
      BY <1>11, PowerIsPositive
    <3> QED BY <1>3, <1>11, <3>1, <3>2, <3>3
  <2> QED BY <2>1, <2>2
<1>13. (i + g) * u = a + g * u /\ (i + g + 1) * u = a + g * u + u /\ 2 * (g * u) = (2 * g) * u
  BY <1>2, <1>3, <1>9
<1> HIDE DEF u
<1>14. i + g <= j
  <2>1. a + t <= b + u
    <3>1. CASE a + t \in Grid
      BY <1>1, <1>3, <1>4, <1>7, <3>1
    <3>2. CASE Spacing(a + t, 1) <= 2 * u
      BY <1>1, <1>3, <1>4, <1>6, <3>2
    <3> QED BY <1>2, <1>5, <3>1, <3>2 DEF u
  <2>2. a + g * u < a + t
    BY <1>1, <1>2, <1>3 DEF u
  <2>3. (i + g) * u < (j + 1) * u
    <3>1. (j + 1) * u = b + u
      BY <1>3, <1>10
    <3> QED BY <1>1, <1>3, <1>4, <1>13, <2>1, <2>2, <3>1
  <2>4. j + 1 <= i + g => (j + 1) * u <= (i + g) * u
    BY <1>2, <1>3, <1>9, <1>10, Products
  <2>5. (j + 1) * u \in Nat /\ (i + g) * u \in Nat
    BY <1>2, <1>3, <1>9, <1>10
  <2> QED BY <1>2, <1>9, <1>10, <2>3, <2>4, <2>5
<1>15. a + g * u <= b
  <2>1. (i + g) * u <= j * u
    BY <1>2, <1>3, <1>9, <1>10, <1>14, Products
  <2> QED BY <1>10, <1>13, <2>1
<1>16. g * u <= a - s + FirstStep(s)
  BY <1>2 DEF u
<1>17. CASE z <= 2 * (g * u)
  BY <1>1, <1>3, <1>4, <1>15, <1>16, <1>17
<1>18. CASE 2 * (g * u) < z
  <2> DEFINE v == 2 ^ (d - e)
  <2>1. v \in Nat \ {0} /\ Spacing(b, 1) = u * v /\ d - e \in Nat
    BY <1>3, <1>11, <1>12, PowerUpTo, PowerIsPositive DEF u
  <2>2. PICK m \in Int : z = m * Spacing(b, 1)
    <3>1. z \in Int /\ Spacing(b, 1) \in Nat \ {0}
      BY <1>3, <2>1
    <3> QED BY <3>1, Multiples, Zenon
  <2>3. z = (m * v) * u /\ m * v \in Int
    BY <1>3, <2>1, <2>2
  <2>4. m * v = 2 * g + 1
    <3>1. 2 * g < m * v
      <4>1. m * v <= 2 * g => (m * v) * u <= (2 * g) * u
        BY <1>2, <1>3, <2>3, Products
      <4>2. (2 * g) * u \in Nat
        BY <1>2, <1>3
      <4> QED BY <1>2, <1>13, <1>18, <2>3, <4>1, <4>2
    <3>2. m * v < 2 * g + 2
      <4>1. 2 * g + 2 <= m * v => (2 * g + 2) * u <= (m * v) * u
        BY <1>2, <1>3, <2>3, Products
      <4>2. (2 * g + 2) * u = 2 * (g * u + u)
        BY <1>2, <1>3
      <4>3. 2 * t <= 2 * (g * u + u) /\ g * u + u \in Nat
        BY <1>1, <1>2, <1>3 DEF u
      <4> QED BY <1>1, <1>2, <2>3, <4>1, <4>2, <4>3
    <3> QED BY <1>2, <2>3, <3>1, <3>2
  <2>5. d = e
    <3> SUFFICES ASSUME d # e PROVE FALSE
      OBVIOUS
    <3>1. d - e - 1 \in Nat /\ (d - e - 1) + 1 = d - e
      BY <1>3, <1>12, <2>1
    <3>2. v = 2 * 2 ^ (d - e - 1) /\ 2 ^ (d - e - 1) \in Nat
      <4>1. 2 ^ ((d - e - 1) + 1) = 2 * 2 ^ (d - e - 1)
        BY <3>1, PowerStep
      <4> QED BY <3>1, <4>1, PowerIsPositive
    <3>3. m * 2 ^ (d - e - 1) \in Int /\ m * v = 2 * (m * 2 ^ (d - e - 1))
      <4> HIDE DEF v
      <4> QED BY <2>2, <3>2
    <3> HIDE DEF v
    <3> QED BY <1>2, <2>4, <3>3
  <2>6. Spacing(b, 1) = u
    BY <1>11, <2>5 DEF u
  <2>7. z = 2 * (g * u) + u
    <3>1. (2 * g + 1) * u = (2 * g) * u + u
      BY <1>2, <1>3
    <3> QED BY <1>13, <2>3, <2>4, <3>1
  <2>8. a + g * u < b
    BY <1>1, <1>3, <1>4, <1>6, <2>6, <2>7
  <2>9. i + g + 1 <= j
    <3>1. j <= i + g => j * u <= (i + g) * u
      BY <1>2, <1>3, <1>9, <1>10, Products
    <3> QED BY <1>1, <1>2, <1>3, <1>4, <1>9, <1>10, <1>13, <2>8, <3>1
  <2>10. a + g * u + u <= b
    <3>1. (i + g + 1) * u <= j * u
      BY <1>2, <1>3, <1>9, <1>10, <2>9, Products
    <3> QED BY <1>10, <1>13, <3>1
  <2> QED BY <1>1, <1>3, <1>4, <1>16, <2>7, <2>10
<1> QED BY <1>1, <1>3, <1>17, <1>18

\* A gallop that overflows has no float left above its point in the nearer half of what was to go.
LEMMA GallopOverflows ==
  ASSUME NEW s, NEW a, NEW t, Galloping(s, a, t), Plus(a, t) = Infinity,
         NEW k \in Grid, a < k
  PROVE  2 * (k - s) + FirstStep(s) >= Infinity - s
<1>1. /\ a \in Nat /\ t \in Nat /\ s \in Nat /\ k \in Nat /\ FirstStep(s) \in Nat /\ a + t \in Nat
      /\ 1 \in Nat \ {0} /\ Infinity \in Nat /\ a \in Grid /\ a < Infinity /\ t <= Infinity
  BY GridIsNat, FormatFacts, FirstStepAtMost DEF Galloping
<1>2. PICK e \in 0 .. MaxExponent, g \in Nat :
           /\ Spacing(a, 1) = 2 ^ e /\ a < 2 ^ Precision * 2 ^ e
           /\ e = 0 \/ 2 ^ (Precision - 1) * 2 ^ e <= a
           /\ g * 2 ^ e < t /\ t <= g * 2 ^ e + 2 ^ e /\ g * 2 ^ e <= a - s + FirstStep(s)
           /\ a + t < Infinity => a + t \in Grid \/ Spacing(a + t, 1) <= 2 * 2 ^ e
  BY GallopAt
<1> DEFINE u == 2 ^ e
<1>3. e \in Nat /\ u \in Nat \ {0} /\ g * u \in Nat
  BY <1>2, PowerIsPositive
<1>4. t <= a - s + FirstStep(s) + u
  BY <1>1, <1>2, <1>3
<1>5. Infinity <= a + t + u
  <2>1. CASE Infinity <= a + t
    BY <1>1, <1>3, <2>1
  <2>2. CASE a + t < Infinity
    <3>1. Nearest(a + t, 1) = Infinity
      <4>1. t # Infinity /\ a # Infinity
        BY <1>1, <2>2
      <4> QED BY <1>1, <4>1, RoundIsSigned DEF Plus
    <3>2. ~ a + t \in Grid
      <4>1. a + t \in Grid => Nearest((a + t) * 1, 1) = a + t
        BY <1>1, NearestFixesGrid
      <4> QED BY <1>1, <2>2, <3>1, <4>1
    <3>3. Spacing(a + t, 1) \in Nat /\ 2 * Infinity - 2 * (a + t) <= Spacing(a + t, 1)
      <4>1. /\ Spacing(a + t, 1) \in Nat \ {0}
            /\ 2 * Nearest(a + t, 1) - 2 * (a + t) \in - Spacing(a + t, 1) .. Spacing(a + t, 1)
        BY <1>1, <2>2, SpacingOfNearest
      <4> QED BY <1>1, <3>1, <4>1
    <3>4. Spacing(a + t, 1) <= 2 * u
      BY <1>2, <2>2, <3>2
    <3> HIDE DEF u
    <3> QED BY <1>1, <1>3, <3>3, <3>4
  <2> QED BY <1>1, <2>1, <2>2
<1>6. a + u <= k
  <2>1. \A f \in Grid : a <= f => \E i \in Nat : f = i * u
    BY <1>1, <1>2, <1>3, MultipleAbove
  <2>2. PICK i \in Nat : a = i * u
    BY <1>1, <2>1
  <2>3. PICK j \in Nat : k = j * u
    BY <1>1, <2>1
  <2> HIDE DEF u
  <2>4. i + 1 <= j
    <3>1. j <= i => j * u <= i * u
      BY <1>3, <2>2, <2>3, Products
    <3> QED BY <1>1, <2>2, <2>3, <3>1
  <2>5. (i + 1) * u <= j * u /\ (i + 1) * u = i * u + u
    BY <1>3, <2>2, <2>3, <2>4, Products
  <2> QED BY <2>2, <2>3, <2>5
<1> HIDE DEF u
<1> QED BY <1>1, <1>3, <1>4, <1>5, <1>6

\* A finite value less a step is finite.
LEMMA BelowIsFinite ==
  ASSUME NEW x \in Grid, x # Infinity, step \in Grid
  PROVE  Below(x) # Infinity
<1>1. x \in Nat /\ step \in Nat /\ x < Infinity /\ Infinity \in Nat /\ x - step \in Int
      /\ 1 \in Nat \ {0} /\ x \in Signed
  BY GridIsNat, FormatFacts DEF Signed
<1>2. Round(x - step, 1) \in Int /\ Round(x - step, 1) <= x
  <2>1. x - step <= x * 1
    BY <1>1
  <2> QED BY <1>1, <2>1, RoundIsSigned, RoundKeepsGrid
<1> QED BY <1>1, <1>2 DEF Below, Minus

LEMMA GallopingFromInvariant ==
  ASSUME TypeOK, Fractions, KeepsUp, step # 0
  PROVE  Galloping(seed, lo, step)
<1>1. seed \in Support /\ lo \in Floats /\ lo \in Grid /\ step \in Grid
  BY FormedParts DEF TypeOK
<1>2. lo < Infinity
  BY <1>1, FloatsAndGrid
<1>3. seed <= EpsilonInverse * One => lo % One = 0 /\ step % One = 0
  <2>1. seed \in Int /\ EpsilonInverse * One \in Int
    BY <1>1, SupportFacts, GridIsNat, Units
  <2> QED BY <2>1 DEF Fractions
<1> QED BY <1>1, <1>2, <1>3 DEF Galloping, KeepsUp

LEMMA GallopInit == Init => Gallop
BY DEF Init, Gallop

LEMMA GallopKeeps ==
  ASSUME IInv, Gallop, Next
  PROVE  Gallop'
<1>1. TypeOK /\ Fractions /\ SmallerTail /\ Bracket
  BY DEF IInv
<1>2. lo \in Grid /\ hi \in Grid /\ step \in Grid /\ Infinity \in Nat /\ seed \in Support
  BY <1>1, FormedParts, FormatFacts DEF TypeOK
<1>3. CASE Start
  <2>1. phase' \in {"seed", "done"} /\ (phase' = "done" => target' = 0)
        /\ (phase' = "seed" => step' = FirstStep(seed'))
    BY <1>3 DEF Start, Answer
  <2>2. FirstStep(seed)' = FirstStep(seed')
    BY DEF FirstStep
  <2> QED BY <2>1, <2>2 DEF Gallop
<1>4. CASE SearchFromSeed
  <2>1. seed # Infinity /\ step = FirstStep(seed) /\ UNCHANGED <<seed, step>>
    BY <1>2, <1>4, FloorInSupport DEF SearchFromSeed, Gallop
  <2>2. phase' = "up" => lo' = seed'
    BY <1>4, <2>1 DEF SearchFromSeed
  <2>3. phase' = "up" => KeepsUp'
    <3>1. seed \in Nat /\ FirstStep(seed) \in Nat /\ FirstStep(seed)' = FirstStep(seed)
      BY <1>2, <2>1, FirstStepAtMost DEF FirstStep
    <3> QED BY <2>1, <2>2, <3>1 DEF KeepsUp
  <2>4. phase' \in {"down", "up"} /\ (phase' = "down" => hi' = seed)
    BY <1>4 DEF SearchFromSeed
  <2> QED BY <2>1, <2>3, <2>4 DEF Gallop
<1>5. CASE GallopDown
  <2>1. hi # Infinity /\ 0 # Infinity
    BY <1>5, FormatFacts DEF Gallop, GallopDown
  <2>2. hi' \in {0, hi, Below(hi)} /\ phase' \in {"done", "down", "bisect"}
    BY <1>5 DEF GallopDown, Answer
  <2>3. hi' # Infinity
    BY <1>2, <2>1, <2>2, BelowIsFinite
  <2> QED BY <2>2, <2>3 DEF Gallop
<1>6. CASE GallopUp
  <2>1. KeepsUp /\ MayMiss(lo) /\ UNCHANGED <<cdf, method, q, tail, target, seed>> /\ phase = "up"
    BY <1>1, <1>6 DEF Gallop, GallopUp, Bracket
  <2>2. \A k : MayMiss(k)' = MayMiss(k)
    BY <2>1, SameEvaluations
  <2>3. CASE MayReach(Plus(lo, step)) /\ phase' = "bisect" /\ hi' = Plus(lo, step) /\ UNCHANGED <<step, lo>>
    <3>1. KeepsUp'
      BY <2>1, <2>3 DEF KeepsUp
    <3> QED BY <2>1, <2>2, <2>3, <3>1 DEF Gallop
  <2>4. CASE MayMiss(Plus(lo, step)) /\ lo' = Plus(lo, step) /\ step' = Double(step) /\ UNCHANGED <<phase, hi>>
    <3>1. KeepsUp'
      <4>1. lo \in Nat /\ step \in Nat /\ Plus(lo, step) # Infinity
        BY <1>2, <2>4, GridIsNat, InfinityIsNotMissed
      <4>2. lo # Infinity /\ step # Infinity
        BY <4>1 DEF Plus
      <4>3. lo' = Nearest(lo + step, 1) /\ lo' < Infinity
        <5>1. lo + step \in Nat /\ 1 \in Nat \ {0}
          BY <4>1
        <5>2. Plus(lo, step) = Nearest(lo + step, 1)
          BY <4>2, <5>1, RoundIsSigned DEF Plus
        <5>3. Nearest(lo + step, 1) \in Nat /\ Nearest(lo + step, 1) <= Infinity
          BY <5>1, NearestIsNat
        <5>4. Nearest(lo + step, 1) # Infinity
          BY <4>1, <5>2
        <5>5. Nearest(lo + step, 1) < Infinity
          BY <1>2, <5>3, <5>4
        <5> QED BY <2>4, <5>2, <5>5
      <4>4. step' \in Nat /\ step' <= 2 * step
        BY <1>2, <2>4, DoubleAtMost
      <4>5. seed' = seed
        BY <2>1
      <4> SUFFICES ASSUME NEW z \in 0 .. step', z < step', z % Spacing(lo', 1) = 0
                   PROVE  z <= lo' - seed + FirstStep(seed)
        BY <4>5 DEF KeepsUp
      <4>6. z \in Nat /\ z < 2 * step /\ step # 0
        BY <4>1, <4>4
      <4>7. Galloping(seed, lo, step)
        BY <1>1, <2>1, <4>6, GallopingFromInvariant
      <4> QED BY <4>3, <4>6, <4>7, GallopLands
    <3> QED BY <2>1, <2>4, <3>1 DEF Gallop
  <2> QED BY <1>6, <2>3, <2>4 DEF GallopUp
<1>7. CASE Bisect
  <2>1. phase = "bisect" /\ UNCHANGED <<cdf, method, q, tail, target, seed, step>>
    BY <1>7 DEF Bisect
  <2>2. \A k : MayMiss(k)' = MayMiss(k)
    BY <2>1, SameEvaluations
  <2>3. CASE ~ (lo < Midpoint(lo, hi) /\ Midpoint(lo, hi) < hi) /\ Answer(hi) /\ lo' = lo
    <3>1. phase' = "done" /\ hi' = hi
      BY <2>3 DEF Answer
    <3>2. KeepsUp' = KeepsUp /\ Plus(lo, step)' = Plus(lo, step)
      BY <2>1, <2>3 DEF KeepsUp
    <3> QED BY <2>1, <2>2, <2>3, <3>1, <3>2 DEF Gallop
  <2>4. CASE lo < Midpoint(lo, hi) /\ Midpoint(lo, hi) < hi
    <3>1. lo \in Floats
      BY <1>1 DEF TypeOK
    <3>2. Midpoint(lo, hi) \in Support
      BY <1>2, <2>4, <3>1, MiddleForms
    <3>3. Midpoint(lo, hi) # Infinity
      BY <3>2, FloorInSupport
    <3>4. hi # Infinity
      <4> SUFFICES ASSUME hi = Infinity PROVE FALSE
        OBVIOUS
      <4>1. lo # Infinity
        BY <1>2, <3>1, FloatsAndGrid
      <4>2. Minus(hi, lo) = Infinity /\ Half(Infinity) = Infinity /\ Plus(lo, Infinity) = Infinity
        BY DEF Minus, Half, Plus
      <4>3. Floor(Infinity) = Infinity
        BY InfinityInGrid, WholeIsFine, FloorOfGrid
      <4>4. Midpoint(lo, hi) = Infinity
        BY <4>2, <4>3 DEF Midpoint
      <4> QED BY <3>3, <4>4
    <3>5. hi' \in {hi, Midpoint(lo, hi)} /\ phase' \in {"bisect", "done"}
      BY <1>7, <2>1 DEF Bisect, Answer
    <3>6. hi' # Infinity
      BY <3>3, <3>4, <3>5
    <3> QED BY <3>5, <3>6 DEF Gallop
  <2> QED BY <1>7, <2>3, <2>4 DEF Bisect
<1>8. CASE Finished
  <2>1. UNCHANGED <<cdf, method, q, phase, tail, target, seed, step, lo, hi>>
    BY <1>8 DEF Finished, vars
  <2>2. \A k : MayMiss(k)' = MayMiss(k)
    BY <2>1, SameEvaluations
  <2> QED BY <2>1, <2>2 DEF Gallop, KeepsUp
<1> QED BY <1>3, <1>4, <1>5, <1>6, <1>7, <1>8 DEF Next

\* The gallop jumps to infinity only past the reach of doubling: no support point in the nearer half
\* of what separates the estimate from overflow clearly meets the quantile.
THEOREM OverflowsOutOfReach == Spec => []InfinityIsOutOfReach
<1>1. IInv /\ Gallop => InfinityIsOutOfReach
  <2> SUFFICES ASSUME IInv, Gallop, phase = "done", hi = Infinity, target # 0,
                      NEW k \in Support, MeetsClearly(k)
               PROVE  2 * (k - seed) + FirstStep(seed) >= Infinity - seed
    BY DEF InfinityIsOutOfReach
  <2>1. /\ TypeOK /\ Fractions /\ SmallerTail /\ phase # "start"
        /\ KeepsUp /\ MayMiss(lo) /\ Plus(lo, step) = Infinity
    BY DEF IInv, Gallop
  <2>2. lo \in Floats /\ lo \in Grid /\ lo < Infinity /\ step \in Grid /\ cdf \in Cdfs /\ q \in Int
        /\ lo \in Nat /\ step \in Nat /\ k \in Nat /\ k \in Grid
    <3>1. lo \in Floats /\ cdf \in Cdfs
      BY <2>1 DEF TypeOK
    <3> QED BY <2>1, <3>1, FormedParts, FloatsAndGrid, SupportFacts, GridIsNat, TargetIsInt
  <2>3. lo < k
    <3>1. Floor(lo) \in Support /\ Floor(k) = k /\ Floor(lo) \in Nat
      BY <2>2, FloorInSupport, FloorOfGrid
    <3>2. ~ MeetsClearly(Floor(lo))
      BY <2>1, <2>2, EvaluatedAs
    <3>3. ~ k <= Floor(lo)
      <4> SUFFICES ASSUME k <= Floor(lo) PROVE FALSE
        OBVIOUS
      <4> DEFINE c == Compared(k)  d == Compared(Floor(lo))  s == Unit - Slack  m == Unit - Noise
      <4>1. c \in Nat /\ d \in Nat /\ IF tail = "CDF" THEN c <= d ELSE d <= c
        BY <2>2, <3>1, ComparedFacts
      <4>2. s \in Nat /\ m \in Nat /\ target \in Nat
        BY <2>1, <3>1, LevelsAssumption, MeetsCompared
      <4>3. /\ IF tail = "CDF" THEN c * m >= target * s ELSE c * s <= target * m
            /\ ~ IF tail = "CDF" THEN d * m >= target * s ELSE d * s <= target * m
        BY <2>1, <3>1, <3>2, MeetsCompared DEF MeetsClearly
      <4> HIDE DEF c, d, s, m
      <4>4. (c <= d => c * m <= d * m) /\ (d <= c => d * s <= c * s)
        BY <4>1, <4>2
      <4>5. {c * m, d * m, c * s, d * s, target * s, target * m} \subseteq Int
        BY <4>1, <4>2
      <4> QED BY <4>1, <4>3, <4>4, <4>5
    <3>4. k <= lo => Floor(k) <= Floor(lo)
      BY <2>2, FloorFacts
    <3> QED BY <2>2, <3>1, <3>3, <3>4
  <2>4. step # 0
    <3> SUFFICES ASSUME step = 0 PROVE FALSE
      OBVIOUS
    <3>1. lo # Infinity /\ step # Infinity /\ lo + step = lo * 1 /\ 1 \in Nat \ {0} /\ lo + step \in Nat
      BY <2>2, FormatFacts
    <3>2. Plus(lo, step) = Nearest(lo * 1, 1)
      BY <3>1, RoundIsSigned DEF Plus
    <3>3. Nearest(lo * 1, 1) = lo
      BY <2>2, <3>1, NearestFixesGrid
    <3> QED BY <2>1, <3>1, <3>2, <3>3
  <2>5. Galloping(seed, lo, step)
    BY <2>1, <2>4, GallopingFromInvariant
  <2> QED BY <2>1, <2>2, <2>3, <2>5, GallopOverflows
<1>2. Gallop /\ UNCHANGED vars => Gallop'
  <2> SUFFICES ASSUME Gallop, UNCHANGED vars PROVE Gallop'
    OBVIOUS
  <2>1. UNCHANGED <<cdf, method, q, phase, tail, target, seed, step, lo, hi>>
    BY DEF vars
  <2>2. \A k : MayMiss(k)' = MayMiss(k)
    BY <2>1, SameEvaluations
  <2> QED BY <2>1, <2>2 DEF Gallop, KeepsUp, FirstStep
<1>3. IInv /\ Gallop /\ [Next]_vars => Gallop'
  BY <1>2, GallopKeeps
<1> QED BY <1>1, <1>3, GallopInit, PoissonInvariant, PTL DEF Spec

=============================================================================
