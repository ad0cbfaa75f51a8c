-------------------------- MODULE ClosedFormProofs -------------------------
(***************************************************************************)
(* The closed forms, for every float format: a valid distribution answers  *)
(* a number or null at every point and quantile, infinite ones among       *)
(* them, Uniform's draws lie in [min, max), Geometric's are counts from 1  *)
(* and Uniform's mean is inside its bounds.  The four operations round as  *)
(* BitFloat defines them; of exp, ln, ln_1p and sinh the proofs take what  *)
(* its assumptions say, and no digit of an answer.  They follow the sign,  *)
(* the order and the finiteness of every intermediate float.               *)
(***************************************************************************)
EXTENDS ClosedForms, FiniteSetTheorems, FunctionTheorems, NaturalsInduction, WellFoundedInduction, TLAPS

-----------------------------------------------------------------------------
(***************************************************************************)
(* Powers of two, division, and the least-number principle.                *)
(***************************************************************************)

\* A power of two counts the subsets of an interval: the library has no facts about ^.
LEMMA SubsetsOfInterval ==
  ASSUME NEW a \in Int, NEW b \in Int, NEW k \in Nat, b - a + 1 = k
  PROVE  IsFiniteSet(SUBSET (a .. b)) /\ Cardinality(SUBSET (a .. b)) = 2 ^ k
<1>1. /\ IsFiniteSet(a .. b)
      /\ Cardinality(a .. b) = IF a > b THEN 0 ELSE b - a + 1
  BY FS_Interval
<1>2. Cardinality(a .. b) = k
  BY <1>1
<1> QED BY <1>1, <1>2, FS_SUBSET

\* A power of two is a positive natural.
LEMMA PowerIsPositive ==
  ASSUME NEW k \in Nat
  PROVE  2 ^ k \in Nat \ {0}
<1>1. IsFiniteSet(SUBSET (1 .. k)) /\ Cardinality(SUBSET (1 .. k)) = 2 ^ k
  <2>1. k - 1 + 1 = k /\ 1 \in Int /\ k \in Int
    OBVIOUS
  <2> QED BY <2>1, SubsetsOfInterval
<1>2. {} \in SUBSET (1 .. k)
  OBVIOUS
<1>3. Cardinality(SUBSET (1 .. k)) # 0
  BY <1>1, <1>2, FS_EmptySet
<1> QED BY <1>1, <1>3, FS_CardinalityType

\* A subset of an interval is one of its lower part and one of its upper part.
LEMMA PowerSum ==
  ASSUME NEW j \in Nat, NEW k \in Nat
  PROVE  2 ^ (j + k) = 2 ^ j * 2 ^ k
<1> DEFINE A == 1 .. j
           B == j + 1 .. j + k
           C == 1 .. j + k
           f == [T \in SUBSET C |-> <<T \cap A, T \cap B>>]
<1>1. /\ IsFiniteSet(SUBSET A) /\ Cardinality(SUBSET A) = 2 ^ j
      /\ IsFiniteSet(SUBSET B) /\ Cardinality(SUBSET B) = 2 ^ k
      /\ IsFiniteSet(SUBSET C) /\ Cardinality(SUBSET C) = 2 ^ (j + k)
  <2>1. IsFiniteSet(SUBSET A) /\ Cardinality(SUBSET A) = 2 ^ j
    <3>1. 1 \in Int /\ j \in Int /\ j - 1 + 1 = j
      OBVIOUS
    <3> QED BY <3>1, SubsetsOfInterval
  <2>2. IsFiniteSet(SUBSET B) /\ Cardinality(SUBSET B) = 2 ^ k
    <3>1. j + 1 \in Int /\ j + k \in Int /\ (j + k) - (j + 1) + 1 = k
      OBVIOUS
    <3> QED BY <3>1, SubsetsOfInterval
  <2>3. IsFiniteSet(SUBSET C) /\ Cardinality(SUBSET C) = 2 ^ (j + k)
    <3>1. 1 \in Int /\ j + k \in Nat /\ j + k \in Int /\ (j + k) - 1 + 1 = j + k
      OBVIOUS
    <3> QED BY <3>1, SubsetsOfInterval
  <2> QED BY <2>1, <2>2, <2>3
<1>2. C = A \cup B /\ A \cap B = {}
  OBVIOUS
<1>3. f \in Bijection(SUBSET C, (SUBSET A) \X (SUBSET B))
  <2> HIDE DEF A, B, C
  <2>1. f \in [SUBSET C -> (SUBSET A) \X (SUBSET B)]
    OBVIOUS
  <2>2. \A S, T \in SUBSET C : f[S] = f[T] => S = T
    BY <1>2
  <2>3. \A t \in (SUBSET A) \X (SUBSET B) : \E S \in SUBSET C : f[S] = t
    <3> TAKE t \in (SUBSET A) \X (SUBSET B)
    <3>1. PICK X \in SUBSET A, Y \in SUBSET B : t = <<X, Y>>
      OBVIOUS
    <3>2. X \cup Y \in SUBSET C /\ (X \cup Y) \cap A = X /\ (X \cup Y) \cap B = Y
      BY <1>2
    <3> QED BY <3>1, <3>2
  <2> QED BY <2>1, <2>2, <2>3 DEF Bijection, Injection, Surjection, IsInjective
<1>4. Cardinality((SUBSET A) \X (SUBSET B)) = 2 ^ (j + k)
  <2> HIDE DEF A, B, C, f
  <2>1. ExistsBijection(SUBSET C, (SUBSET A) \X (SUBSET B))
    BY <1>3 DEF ExistsBijection
  <2> QED BY <1>1, <2>1, FS_Bijection
<1> QED
  <2> HIDE DEF A, B, C, f
  <2>1. Cardinality((SUBSET A) \X (SUBSET B)) = Cardinality(SUBSET A) * Cardinality(SUBSET B)
    BY <1>1, FS_Product
  <2> QED BY <1>1, <1>4, <2>1

\* The next power of two is twice this one.
LEMMA PowerStep ==
  ASSUME NEW k \in Nat
  PROVE  2 ^ (k + 1) = 2 * 2 ^ k
<1>1. 2 ^ (k + 1) = 2 ^ k * 2 ^ 1
  BY PowerSum
<1> QED BY <1>1, PowerIsPositive

\* A higher power is a multiple of a lower one, and at least twice it.
LEMMA PowerUpTo ==
  ASSUME NEW j \in Nat, NEW k \in Nat, j <= k
  PROVE  /\ k - j \in Nat /\ 2 ^ k = 2 ^ j * 2 ^ (k - j)
         /\ 2 ^ j <= 2 ^ k
<1>1. k - j \in Nat /\ j + (k - j) = k
  OBVIOUS
<1>2. 2 ^ k = 2 ^ j * 2 ^ (k - j)
  BY <1>1, PowerSum
<1>3. \A x, y \in Nat \ {0} : x <= x * y
  OBVIOUS
<1> QED BY <1>1, <1>2, <1>3, PowerIsPositive

\* Any higher power of two is at least twice this one.
LEMMA PowerBelow ==
  ASSUME NEW j \in Nat, NEW k \in Nat, j < k
  PROVE  2 * 2 ^ j <= 2 ^ k
BY PowerUpTo, PowerStep

\* Euclidean division, in the form the rounding lemmas cite.
LEMMA Quotient ==
  ASSUME NEW a \in Int, NEW b \in Nat \ {0}
  PROVE  /\ a \div b \in Int /\ a % b \in 0 .. b - 1
         /\ a = b * (a \div b) + (a % b)
OBVIOUS

\* Strictly smaller naturals, as a relation.
Earlier == {p \in Nat \X Nat : p[1] < p[2]}

\* The least-number principle, about a set.
LEMMA LeastNatural ==
  ASSUME NEW T \in SUBSET Nat, T # {}
  PROVE  \E x \in T : \A y \in T : x <= y
<1>1. IsWellFoundedOn(Earlier, Nat)
  BY NatLessThanWellFounded, Zenon DEF OpToRel, Earlier
<1>2. \E x \in T : \A y \in T : ~ (<<y, x>> \in Earlier)
  <2>. HIDE DEF Earlier
  <2>. QED BY <1>1, WFMin
<1>3. \A x, y \in T : ~ (<<y, x>> \in Earlier) => x <= y
  BY DEF Earlier
<1> QED BY <1>2, <1>3

\* Multiplication by a natural number keeps an order.
LEMMA Products ==
  ASSUME NEW x \in Int, NEW y \in Int, NEW m \in Nat
  PROVE  /\ x <= y => m * x <= m * y /\ x * m <= y * m
         /\ m # 0 /\ m * x <= m * y => x <= y
         /\ m # 0 /\ x < y => m * x < m * y /\ m * x + m <= m * y
OBVIOUS

-----------------------------------------------------------------------------
(***************************************************************************)
(* The code of a float, and the value it stands for.                       *)
(***************************************************************************)

\* The value of a code, in the least unit of the format, and the spacing above it.
Offset(c) == UnitOf(c) - MinUnit
Gap(c) == 2 ^ Offset(c)
Value(c) == MagnitudeOf(c) * Gap(c)

\* The least binade, the first normal code and Infinity, as numbers.
LEMMA FormatFacts ==
  /\ Precision \in Nat /\ Precision >= 3 /\ Depth \in Nat /\ Depth >= Precision
  /\ MinUnit \in Int /\ MinUnit = - Depth
  /\ Leading \in Nat /\ Leading >= 2 /\ Leading % 2 = 0 /\ 2 * Leading = 2 ^ Precision
  /\ Infinity \in Nat /\ Infinity >= 2 * Leading /\ Infinity % 2 = 0
<1>1. Precision \in Nat /\ Precision >= 2 /\ Precision - 1 \in Nat /\ Precision - 2 \in Nat
  BY FormatAssumption
<1>2. 2 ^ (Precision - 1) = 2 * 2 ^ (Precision - 2)
  <2>1. Precision - 1 = (Precision - 2) + 1
    BY <1>1
  <2> QED BY <1>1, <2>1, PowerStep
<1>3. 2 ^ Precision = 2 * 2 ^ (Precision - 1)
  <2>1. Precision = (Precision - 1) + 1
    BY <1>1
  <2> QED BY <1>1, <2>1, PowerStep
<1>4. 2 ^ (Precision - 2) \in Nat \ {0}
  BY <1>1, PowerIsPositive
<1>5. Leading = 2 * 2 ^ (Precision - 2)
  BY <1>2 DEF Leading
<1>6. Leading \in Nat /\ Leading >= 2 /\ Leading % 2 = 0
  BY <1>4, <1>5
<1>7. Infinity = (Binades + 2) * Leading /\ Binades \in Nat
  BY FormatAssumption DEF Infinity
<1>8. Infinity = 2 * ((Binades + 2) * 2 ^ (Precision - 2)) /\ (Binades + 2) * 2 ^ (Precision - 2) \in Nat
  BY <1>4, <1>5, <1>7
<1>9. (Binades + 2) * Leading >= 2 * Leading
  BY <1>6, <1>7, Products
<1>10. Infinity \in Nat /\ Infinity % 2 = 0
  <2> DEFINE half == (Binades + 2) * 2 ^ (Precision - 2)
  <2>1. Infinity = 2 * half /\ half \in Nat
    BY <1>8
  <2> HIDE DEF half
  <2> QED BY <2>1
<1>11. Leading = 2 ^ (Precision - 1)
  BY DEF Leading
<1> QED BY <1>1, <1>3, <1>6, <1>7, <1>9, <1>10, <1>11, FormatAssumption DEF MinUnit

\* A code is its magnitude above a whole number of binades.
LEMMA CodeFacts ==
  ASSUME NEW c \in Nat
  PROVE  /\ Offset(c) \in Nat /\ Gap(c) \in Nat \ {0} /\ UnitOf(c) \in Int /\ UnitOf(c) = MinUnit + Offset(c)
         /\ MagnitudeOf(c) \in 0 .. 2 * Leading - 1
         /\ c = Offset(c) * Leading + MagnitudeOf(c) /\ Offset(c) * Leading \in Nat
         /\ Offset(c) # 0 => MagnitudeOf(c) >= Leading
         /\ c < 2 * Leading => Offset(c) = 0 /\ MagnitudeOf(c) = c /\ Gap(c) = 1
         /\ Value(c) \in Nat
<1>1. Leading \in Nat \ {0} /\ MinUnit \in Int
  BY FormatFacts
<1> DEFINE k == c \div Leading
<1>2. k \in Int /\ c % Leading \in 0 .. Leading - 1 /\ c = Leading * k + (c % Leading)
  BY <1>1, Quotient
<1>3. c >= 2 * Leading => k >= 2
  <2>1. k <= 1 => Leading * k <= Leading * 1
    BY <1>1, <1>2, Products
  <2> HIDE DEF k
  <2> QED BY <1>1, <1>2, <2>1
<1>4. Offset(c) = IF c < 2 * Leading THEN 0 ELSE k - 1
  BY <1>1, <1>2 DEF Offset, UnitOf
<1>5. UnitOf(c) \in Int /\ UnitOf(c) = MinUnit + Offset(c)
  BY <1>1, <1>2 DEF Offset, UnitOf
<1>6. Offset(c) \in Nat
  <2> HIDE DEF k
  <2> QED BY <1>1, <1>2, <1>3, <1>4
<1>7. MagnitudeOf(c) = c - Offset(c) * Leading
  BY DEF MagnitudeOf, Offset
<1>8. Offset(c) * Leading = IF c < 2 * Leading THEN 0 ELSE Leading * k - Leading
  <2> HIDE DEF k
  <2>1. (k - 1) * Leading = Leading * k - Leading /\ 0 * Leading = 0
    BY <1>1, <1>2
  <2> QED BY <1>4, <2>1
<1>9. Offset(c) * Leading \in Nat
  BY <1>1, <1>6
<1>10. /\ MagnitudeOf(c) \in 0 .. 2 * Leading - 1
       /\ c = Offset(c) * Leading + MagnitudeOf(c)
       /\ c < 2 * Leading => MagnitudeOf(c) = c
       /\ ~ c < 2 * Leading => MagnitudeOf(c) >= Leading
  <2> DEFINE t == Leading * k
             m == Offset(c) * Leading
  <2>1. t \in Int /\ c = t + (c % Leading) /\ c % Leading \in 0 .. Leading - 1
    BY <1>1, <1>2
  <2>2. m \in Nat /\ m = (IF c < 2 * Leading THEN 0 ELSE t - Leading) /\ MagnitudeOf(c) = c - m
    BY <1>7, <1>8, <1>9
  <2> HIDE DEF t, m, k
  <2>3. /\ MagnitudeOf(c) \in 0 .. 2 * Leading - 1
        /\ c = m + MagnitudeOf(c)
        /\ c < 2 * Leading => MagnitudeOf(c) = c
        /\ ~ c < 2 * Leading => MagnitudeOf(c) >= Leading
    BY <1>1, <2>1, <2>2
  <2> QED BY <2>3 DEF m
<1>11. Gap(c) \in Nat \ {0} /\ (Offset(c) = 0 => Gap(c) = 1)
  <2>1. 2 ^ 0 = 1
    <3>1. 1 \in Int /\ 0 \in Int /\ 0 \in Nat /\ 0 - 1 + 1 = 0
      OBVIOUS
    <3>2. IsFiniteSet(SUBSET (1 .. 0)) /\ Cardinality(SUBSET (1 .. 0)) = 2 ^ 0
      BY <3>1, SubsetsOfInterval
    <3>3. SUBSET (1 .. 0) = {{}}
      OBVIOUS
    <3> QED BY <3>2, <3>3, FS_Singleton
  <2> QED BY <1>6, <2>1, PowerIsPositive DEF Gap
<1>12. Value(c) \in Nat
  <2>1. MagnitudeOf(c) \in Nat /\ Gap(c) \in Nat
    BY <1>10, <1>11
  <2> QED BY <2>1 DEF Value
<1> QED BY <1>4, <1>5, <1>6, <1>9, <1>10, <1>11, <1>12

\* The least power of two is 1.
LEMMA PowerZero == 2 ^ 0 = 1
<1>1. 0 < 2 * Leading /\ 0 \in Nat
  BY FormatFacts
<1> QED BY <1>1, CodeFacts DEF Gap

\* The value of a significand and an offset.
LEMMA ValueOfPattern ==
  ASSUME NEW m \in Nat, NEW u \in Nat, m <= 2 * Leading, u = 0 \/ m >= Leading
  PROVE  /\ Pattern(m, MinUnit + u) \in Nat /\ Pattern(m, MinUnit + u) = u * Leading + m
         /\ u * Leading \in Nat
         /\ Value(Pattern(m, MinUnit + u)) = m * 2 ^ u
         /\ Gap(Pattern(m, MinUnit + u)) = IF m = 2 * Leading THEN 2 ^ (u + 1) ELSE 2 ^ u
<1> DEFINE c == u * Leading + m
<1>1. Leading \in Nat \ {0} /\ MinUnit \in Int
  BY FormatFacts
<1>2. Pattern(m, MinUnit + u) = c
  BY <1>1 DEF Pattern
<1>3. u * Leading \in Nat /\ c \in Nat
  BY <1>1
<1>4. /\ Offset(c) = (IF m = 2 * Leading THEN u + 1 ELSE u)
      /\ MagnitudeOf(c) = IF m = 2 * Leading THEN Leading ELSE m
  <2> DEFINE o == Offset(c)
             g == MagnitudeOf(c)
  <2>1. /\ o \in Nat /\ g \in 0 .. 2 * Leading - 1 /\ c = o * Leading + g /\ o * Leading \in Nat
        /\ o # 0 => g >= Leading
        /\ c < 2 * Leading => o = 0 /\ g = c
    BY <1>3, CodeFacts
  <2> HIDE DEF o, g
  <2>2. u * Leading + m = o * Leading + g
    BY <2>1
  <2>3. \A i, j \in Nat : i < j => i * Leading + Leading <= j * Leading
    BY <1>1, Products
  <2>4. /\ (u + 1) * Leading = u * Leading + Leading /\ (u + 2) * Leading = u * Leading + 2 * Leading
        /\ u + 1 \in Nat /\ u + 2 \in Nat
    BY <1>1
  <2>5. u <= o
    BY <1>1, <1>3, <2>1, <2>2, <2>3
  <2>6. o <= u + 1
    <3>1. u + 1 < o => (u + 1) * Leading + Leading <= o * Leading
      BY <2>1, <2>3, <2>4
    <3> QED BY <1>1, <1>3, <2>1, <2>2, <2>4, <3>1
  <2>7. o = u => g = m
    BY <1>1, <1>3, <2>1, <2>2
  <2>8. o = u + 1 => g + Leading = m
    BY <1>1, <1>3, <2>1, <2>2, <2>4
  <2>9. o = (IF m = 2 * Leading THEN u + 1 ELSE u) /\ g = IF m = 2 * Leading THEN Leading ELSE m
    BY <1>1, <2>1, <2>5, <2>6, <2>7, <2>8
  <2> QED BY <2>9 DEF o, g
<1>5. 2 ^ (u + 1) = 2 * 2 ^ u /\ 2 ^ u \in Nat
  BY PowerStep, PowerIsPositive
<1>6. Leading * (2 * 2 ^ u) = (2 * Leading) * 2 ^ u
  BY <1>1, <1>5
<1> HIDE DEF c
<1>7. Value(c) = m * 2 ^ u
  BY <1>4, <1>5, <1>6 DEF Value, Gap
<1>8. Gap(c) = IF m = 2 * Leading THEN 2 ^ (u + 1) ELSE 2 ^ u
  BY <1>4 DEF Gap
<1> QED BY <1>2, <1>3, <1>7, <1>8 DEF c

\* The next code is one spacing up.
LEMMA ValueStep ==
  ASSUME NEW c \in Nat
  PROVE  Value(c + 1) = Value(c) + Gap(c)
<1> DEFINE o == Offset(c)
           g == MagnitudeOf(c)
<1>1. /\ o \in Nat /\ g \in 0 .. 2 * Leading - 1 /\ c = o * Leading + g /\ o * Leading \in Nat
      /\ o # 0 => g >= Leading
      /\ 2 ^ o \in Nat \ {0}
  BY CodeFacts DEF Gap
<1>2. Leading \in Nat
  BY FormatFacts
<1> HIDE DEF o, g
<1>3. /\ Pattern(g + 1, MinUnit + o) = o * Leading + (g + 1)
      /\ Value(Pattern(g + 1, MinUnit + o)) = (g + 1) * 2 ^ o
  <2>1. g + 1 \in Nat /\ g + 1 <= 2 * Leading /\ (o = 0 \/ g + 1 >= Leading)
    BY <1>1, <1>2
  <2> QED BY <1>1, <2>1, ValueOfPattern
<1>4. o * Leading + (g + 1) = c + 1
  BY <1>1
<1>5. (g + 1) * 2 ^ o = g * 2 ^ o + 2 ^ o
  BY <1>1
<1> QED BY <1>3, <1>4, <1>5 DEF Value, Gap, o, g

\* Codes are in the order of their values.
LEMMA ValueClimbs ==
  ASSUME NEW c \in Nat, NEW d \in Nat
  PROVE  /\ c < d => Value(c) < Value(d)
         /\ c <= d => Value(c) <= Value(d)
         /\ Value(c) < Value(d) => c < d
         /\ Value(c) <= Value(d) => c <= d
<1>1. ASSUME NEW x \in Nat, NEW y \in Nat, x < y PROVE Value(x) < Value(y)
  <2> DEFINE o == Offset(x)
             g == MagnitudeOf(x)
             p == Offset(y)
             h == MagnitudeOf(y)
  <2>1. /\ o \in Nat /\ g \in 0 .. 2 * Leading - 1 /\ x = o * Leading + g /\ o * Leading \in Nat
        /\ o # 0 => g >= Leading
        /\ p \in Nat /\ h \in 0 .. 2 * Leading - 1 /\ y = p * Leading + h /\ p * Leading \in Nat
        /\ p # 0 => h >= Leading
        /\ 2 ^ o \in Nat \ {0} /\ 2 ^ p \in Nat \ {0}
    BY CodeFacts DEF Gap
  <2>2. Leading \in Nat \ {0}
    BY FormatFacts
  <2>3. Value(x) = g * 2 ^ o /\ Value(y) = h * 2 ^ p
    BY DEF Value, Gap
  <2> HIDE DEF o, g, p, h
  <2>4. CASE o = p
    <3>1. g < h
      BY <1>1, <2>1, <2>4
    <3> QED BY <2>1, <2>3, <2>4, <3>1, Products
  <2>5. CASE o < p
    <3>1. 2 * 2 ^ o <= 2 ^ p
      BY <2>1, <2>5, PowerBelow
    <3>2. h >= Leading
      BY <2>1, <2>5
    <3>3. g * 2 ^ o < (2 * Leading) * 2 ^ o
      BY <2>1, <2>2, Products
    <3>4. (2 * Leading) * 2 ^ o = Leading * (2 * 2 ^ o)
      BY <2>1, <2>2
    <3>5. Leading * (2 * 2 ^ o) <= Leading * 2 ^ p
      BY <2>1, <2>2, <3>1, Products
    <3>6. Leading * 2 ^ p <= h * 2 ^ p
      BY <2>1, <2>2, <3>2, Products
    <3> QED
      <4> DEFINE a1 == g * 2 ^ o
                 a2 == Leading * (2 * 2 ^ o)
                 a3 == Leading * 2 ^ p
                 a4 == h * 2 ^ p
      <4>1. a1 \in Int /\ a2 \in Int /\ a3 \in Int /\ a4 \in Int
        BY <2>1, <2>2
      <4>2. a1 < a2 /\ a2 <= a3 /\ a3 <= a4
        BY <3>3, <3>4, <3>5, <3>6
      <4> HIDE DEF a1, a2, a3, a4
      <4>3. a1 < a4
        BY <4>1, <4>2
      <4> QED BY <2>3, <4>3 DEF a1, a4
  <2>6. CASE p < o
    <3>1. p + 1 <= o => (p + 1) * Leading <= o * Leading
      BY <2>1, <2>2, Products
    <3>2. (p + 1) * Leading = p * Leading + Leading
      BY <2>1, <2>2
    <3>3. o # 0 /\ g >= Leading
      BY <2>1, <2>6
    <3> QED BY <1>1, <2>1, <2>2, <2>6, <3>1, <3>2, <3>3
  <2> QED BY <2>1, <2>4, <2>5, <2>6
<1>2. Value(c) \in Nat /\ Value(d) \in Nat
  BY CodeFacts
<1>3. c < d => Value(c) < Value(d)
  BY <1>1
<1>4. d < c => Value(d) < Value(c)
  BY <1>1
<1> QED BY <1>2, <1>3, <1>4

-----------------------------------------------------------------------------
(***************************************************************************)
(* Rounding to the nearest code, the even one of a tie: it keeps order,    *)
(* and leaves a value that has a code alone.                               *)
(***************************************************************************)

\* r is the code nearest n / d least units, the even one of a tie.
Rounds(r, n, d) ==
  /\ r \in 0 .. Infinity
  /\ r < Infinity => \/ 2 * n < (Value(r) + Value(r + 1)) * d
                     \/ 2 * n = (Value(r) + Value(r + 1)) * d /\ r % 2 = 0
  /\ r > 0 => \/ (Value(r - 1) + Value(r)) * d < 2 * n
              \/ (Value(r - 1) + Value(r)) * d = 2 * n /\ r % 2 = 0

\* Rounding keeps an order of ratios.
LEMMA RoundsClimb ==
  ASSUME NEW n1 \in Nat, NEW d1 \in Nat \ {0}, NEW n2 \in Nat, NEW d2 \in Nat \ {0},
         NEW r1, NEW r2, Rounds(r1, n1, d1), Rounds(r2, n2, d2), n1 * d2 <= n2 * d1
  PROVE  r1 <= r2
<1>1. Infinity \in Nat
  BY FormatFacts
<1>2. r1 \in Nat /\ r2 \in Nat /\ r1 <= Infinity /\ r2 <= Infinity
  BY <1>1 DEF Rounds
<1>3. SUFFICES ASSUME r2 < r1 PROVE FALSE
  BY <1>2
<1>4. r2 < Infinity /\ r1 > 0 /\ r1 - 1 \in Nat /\ r2 + 1 \in Nat /\ r2 <= r1 - 1 /\ r2 + 1 <= r1
  BY <1>1, <1>2, <1>3
<1> DEFINE s1 == Value(r1 - 1) + Value(r1)
           s2 == Value(r2) + Value(r2 + 1)
<1>5. s1 \in Nat /\ s2 \in Nat /\ s2 <= s1 /\ (r2 < r1 - 1 => s2 < s1)
  <2>1. /\ Value(r1 - 1) \in Nat /\ Value(r1) \in Nat /\ Value(r2) \in Nat /\ Value(r2 + 1) \in Nat
    BY <1>2, <1>4, CodeFacts
  <2>2. Value(r2) <= Value(r1 - 1) /\ Value(r2 + 1) <= Value(r1) /\ (r2 < r1 - 1 => Value(r2) < Value(r1 - 1))
    BY <1>2, <1>4, ValueClimbs
  <2> QED BY <2>1, <2>2
<1>6. /\ s1 * d1 < 2 * n1 \/ (s1 * d1 = 2 * n1 /\ r1 % 2 = 0)
      /\ 2 * n2 < s2 * d2 \/ (2 * n2 = s2 * d2 /\ r2 % 2 = 0)
  BY <1>4 DEF Rounds
<1> HIDE DEF s1, s2
<1> DEFINE p == s1 * d1
           q == s2 * d2
<1>7. p \in Nat /\ q \in Nat /\ p <= 2 * n1 /\ 2 * n2 <= q
  BY <1>5, <1>6
<1>8. p * d2 <= (2 * n1) * d2 /\ (2 * n2) * d1 <= q * d1
  <2> HIDE DEF p, q
  <2> QED BY <1>7, Products
<1>9. (2 * n1) * d2 = 2 * (n1 * d2) /\ (2 * n2) * d1 = 2 * (n2 * d1) /\ n1 * d2 \in Nat /\ n2 * d1 \in Nat
  OBVIOUS
<1>10. p * d2 = s1 * (d1 * d2) /\ q * d1 = s2 * (d1 * d2) /\ d1 * d2 \in Nat \ {0}
  BY <1>5
<1>11. s1 * (d1 * d2) \in Nat /\ s2 * (d1 * d2) \in Nat
  BY <1>5, <1>10
<1>12. s2 < s1 => s2 * (d1 * d2) < s1 * (d1 * d2)
  <2> DEFINE m == d1 * d2
  <2>1. m \in Nat \ {0}
    BY <1>10
  <2> HIDE DEF m
  <2>2. s2 < s1 => m * s2 < m * s1
    BY <1>5, <2>1, Products
  <2>3. m * s2 = s2 * m /\ m * s1 = s1 * m
    BY <1>5, <2>1
  <2>4. s2 < s1 => s2 * m < s1 * m
    BY <2>2, <2>3
  <2> QED BY <2>4 DEF m
<1>13. s1 = s2
  <2> DEFINE x == s1 * (d1 * d2)
             y == s2 * (d1 * d2)
             v == n1 * d2
             w == n2 * d1
  <2>1. x \in Nat /\ y \in Nat /\ v \in Nat /\ w \in Nat /\ x <= 2 * v /\ v <= w /\ 2 * w <= y
    BY <1>8, <1>9, <1>10, <1>11
  <2>2. s2 < s1 => y < x
    BY <1>12
  <2> HIDE DEF x, y, v, w
  <2> QED BY <1>5, <2>1, <2>2
<1>14. r1 = r2 + 1
  BY <1>2, <1>4, <1>5, <1>13
<1>15. p = 2 * n1 /\ 2 * n2 = q
  <2>1. p < 2 * n1 => p * d2 < (2 * n1) * d2
    <3> HIDE DEF p
    <3>1. p < 2 * n1 => d2 * p < d2 * (2 * n1)
      BY <1>7, Products
    <3>2. d2 * p = p * d2 /\ d2 * (2 * n1) = (2 * n1) * d2
      BY <1>7
    <3> QED BY <3>1, <3>2
  <2>2. 2 * n2 < q => (2 * n2) * d1 < q * d1
    <3> HIDE DEF q
    <3>1. 2 * n2 < q => d1 * (2 * n2) < d1 * q
      BY <1>7, Products
    <3>2. d1 * q = q * d1 /\ d1 * (2 * n2) = (2 * n2) * d1
      BY <1>7
    <3> QED BY <3>1, <3>2
  <2> DEFINE x == p * d2
             y == q * d1
             v == (2 * n1) * d2
             w == (2 * n2) * d1
  <2>3. x \in Nat /\ y \in Nat /\ v \in Nat /\ w \in Nat /\ x = y /\ x <= v /\ v <= w /\ w <= y
    BY <1>7, <1>8, <1>9, <1>10, <1>13
  <2>4. (p < 2 * n1 => x < v) /\ (2 * n2 < q => w < y)
    BY <2>1, <2>2
  <2> HIDE DEF x, y, v, w, p, q
  <2> QED BY <1>7, <2>3, <2>4
<1>16. r1 % 2 = 0 /\ r2 % 2 = 0
  BY <1>5, <1>6, <1>7, <1>15
<1> QED BY <1>2, <1>14, <1>16

\* The value of a code rounds to the code.
LEMMA RoundsFixes ==
  ASSUME NEW c \in 0 .. Infinity, NEW d \in Nat \ {0}
  PROVE  Value(c) * d \in Nat /\ Rounds(c, Value(c) * d, d)
<1>1. c \in Nat /\ Infinity \in Nat
  BY FormatFacts
<1>2. Value(c) \in Nat /\ Value(c + 1) \in Nat /\ Value(c) < Value(c + 1)
  BY <1>1, CodeFacts, ValueClimbs
<1>3. c > 0 => c - 1 \in Nat /\ Value(c - 1) \in Nat /\ Value(c - 1) < Value(c)
  BY <1>1, CodeFacts, ValueClimbs
<1>4. 2 * (Value(c) * d) = d * (2 * Value(c)) /\ Value(c) * d \in Nat
  BY <1>2
<1>5. 2 * (Value(c) * d) < (Value(c) + Value(c + 1)) * d
  <2> DEFINE x == 2 * Value(c)
             y == Value(c) + Value(c + 1)
  <2>1. x \in Nat /\ y \in Nat /\ x < y /\ 2 * (Value(c) * d) = d * x
    BY <1>2, <1>4
  <2> HIDE DEF x, y
  <2>2. d * x < d * y /\ d * y = y * d
    BY <2>1, Products
  <2>3. 2 * (Value(c) * d) < y * d
    BY <2>1, <2>2
  <2> QED BY <2>3 DEF y
<1>6. c > 0 => (Value(c - 1) + Value(c)) * d < 2 * (Value(c) * d)
  <2> SUFFICES ASSUME c > 0 PROVE (Value(c - 1) + Value(c)) * d < 2 * (Value(c) * d)
    OBVIOUS
  <2> DEFINE x == 2 * Value(c)
             y == Value(c - 1) + Value(c)
  <2>1. x \in Nat /\ y \in Nat /\ y < x /\ 2 * (Value(c) * d) = d * x
    BY <1>2, <1>3, <1>4
  <2> HIDE DEF x, y
  <2>2. d * y < d * x /\ d * y = y * d
    BY <2>1, Products
  <2>3. y * d < 2 * (Value(c) * d)
    BY <2>1, <2>2
  <2> QED BY <2>3 DEF y
<1> QED BY <1>1, <1>4, <1>5, <1>6 DEF Rounds

\* A ratio no higher than a code's value rounds no higher than the code, and so below it.
LEMMA RoundsAgainst ==
  ASSUME NEW n \in Nat, NEW d \in Nat \ {0}, NEW r, Rounds(r, n, d), NEW c \in 0 .. Infinity
  PROVE  /\ n <= Value(c) * d => r <= c
         /\ Value(c) * d <= n => c <= r
<1>1. Value(c) \in Nat
  <2>1. c \in Nat
    BY FormatFacts
  <2> QED BY <2>1, CodeFacts
<1>2. Value(c) * 1 = Value(c) /\ Rounds(c, Value(c) * 1, 1)
  BY <1>1, RoundsFixes
<1>3. Rounds(c, Value(c), 1) /\ n * 1 = n /\ Value(c) * d \in Nat
  BY <1>1, <1>2
<1>4. n <= Value(c) * d => r <= c
  BY <1>1, <1>3, RoundsClimb
<1>5. Value(c) * d <= n => c <= r
  BY <1>1, <1>3, RoundsClimb
<1> QED BY <1>4, <1>5

\* The ratio is what counts.
LEMMA Cancels ==
  ASSUME NEW x \in Int, NEW y \in Int, NEW m \in Nat \ {0}
  PROVE  /\ x * m < y * m <=> x < y
         /\ x * m = y * m <=> x = y
         /\ x * m <= y * m <=> x <= y
<1>1. x < y => m * x < m * y
  BY Products
<1>2. y < x => m * y < m * x
  BY Products
<1>3. m * x = x * m /\ m * y = y * m /\ m * x \in Int /\ m * y \in Int
  OBVIOUS
<1> QED BY <1>1, <1>2, <1>3

\* Equal ratios round to the same codes.
LEMMA RoundsRescaled ==
  ASSUME NEW n \in Nat, NEW d \in Nat \ {0}, NEW m \in Nat, NEW b \in Nat \ {0},
         NEW r, Rounds(r, n, d), n * b = m * d
  PROVE  Rounds(r, m, b)
<1>1. ASSUME NEW s \in Nat
      PROVE  /\ 2 * n < s * d <=> 2 * m < s * b
             /\ 2 * n = s * d <=> 2 * m = s * b
             /\ s * d < 2 * n <=> s * b < 2 * m
  <2>1. (2 * n) * b = 2 * (n * b) /\ (2 * m) * d = 2 * (m * d)
    OBVIOUS
  <2>2. (s * d) * b = (s * b) * d
    OBVIOUS
  <2>3. s * d \in Int /\ s * b \in Int /\ 2 * n \in Int /\ 2 * m \in Int
    OBVIOUS
  <2> DEFINE x == 2 * n
             y == s * d
             z == 2 * m
             w == s * b
  <2>4. x * b = z * d /\ y * b = w * d /\ x \in Int /\ y \in Int /\ z \in Int /\ w \in Int
    BY <2>1, <2>2, <2>3
  <2> HIDE DEF x, y, z, w
  <2>5. (x * b < y * b <=> x < y) /\ (x * b = y * b <=> x = y) /\ (y * b < x * b <=> y < x)
    BY <2>4, Cancels
  <2>6. (z * d < w * d <=> z < w) /\ (z * d = w * d <=> z = w) /\ (w * d < z * d <=> w < z)
    BY <2>4, Cancels
  <2>7. (x < y <=> z < w) /\ (x = y <=> z = w) /\ (y < x <=> w < z)
    BY <2>4, <2>5, <2>6
  <2> QED BY <2>7 DEF x, y, z, w
<1>2. r \in Nat /\ (r < Infinity => Value(r) + Value(r + 1) \in Nat) /\ (r > 0 => Value(r - 1) + Value(r) \in Nat)
  <2>1. r \in Nat /\ r + 1 \in Nat /\ (r > 0 => r - 1 \in Nat)
    BY FormatFacts DEF Rounds
  <2>2. Value(r) \in Nat /\ Value(r + 1) \in Nat /\ (r > 0 => Value(r - 1) \in Nat)
    BY <2>1, CodeFacts
  <2> QED BY <2>1, <2>2
<1> QED BY <1>1, <1>2 DEF Rounds

\* The count is the nearest whole number, the even one of a tie.
LEMMA CountNearest ==
  ASSUME NEW a \in Nat, NEW b \in Nat \ {0}
  PROVE  /\ NearestCount(a, b) \in Nat
         /\ \/ 2 * a < (2 * NearestCount(a, b) + 1) * b
            \/ 2 * a = (2 * NearestCount(a, b) + 1) * b /\ NearestCount(a, b) % 2 = 0
         /\ \/ (2 * NearestCount(a, b) - 1) * b < 2 * a
            \/ (2 * NearestCount(a, b) - 1) * b = 2 * a /\ NearestCount(a, b) % 2 = 0
         /\ \A c \in Nat : c * b <= a => c <= NearestCount(a, b)
         /\ \A c \in Nat : a <= c * b => NearestCount(a, b) <= c
<1> DEFINE below == a \div b
           rest == a % b
           count == NearestCount(a, b)
<1>1. below \in Int /\ rest \in 0 .. b - 1 /\ a = b * below + rest
  BY Quotient
<1>2. below \in Nat
  <2>1. below <= -1 => b * below <= b * (-1)
    BY <1>1, Products
  <2> HIDE DEF below, rest
  <2> QED BY <1>1, <2>1
<1>3. count = IF 2 * rest - b > 0 \/ (2 * rest - b = 0 /\ below % 2 = 1) THEN below + 1 ELSE below
  BY DEF NearestCount, EvenUp
<1> HIDE DEF below, rest, count
<1> DEFINE t == b * below
<1>4. t \in Nat /\ a = t + rest /\ count \in Nat /\ count \in below .. below + 1
  BY <1>1, <1>2, <1>3
<1>5. (2 * count + 1) * b = (IF count = below THEN 2 * t + b ELSE 2 * t + 3 * b)
  <2>1. CASE count = below
    BY <1>2, <2>1
  <2>2. CASE count = below + 1
    BY <1>2, <2>2
  <2>3. count = below \/ count = below + 1
    <3> HIDE DEF t
    <3> QED BY <1>2, <1>4
  <2> QED BY <2>1, <2>2, <2>3
<1>6. (2 * count - 1) * b = (IF count = below THEN 2 * t - b ELSE 2 * t + b)
  <2>1. CASE count = below
    BY <1>2, <2>1
  <2>2. CASE count = below + 1
    BY <1>2, <2>2
  <2>3. count = below \/ count = below + 1
    <3> HIDE DEF t
    <3> QED BY <1>2, <1>4
  <2> QED BY <2>1, <2>2, <2>3
<1>7. ASSUME NEW c \in Nat
      PROVE (c * b <= a => c <= count) /\ (a <= c * b => count <= c)
  <2>1. below + 1 <= c => (below + 1) * b <= c * b
    BY <1>2, Products
  <2>2. c + 1 <= below => (c + 1) * b <= below * b
    BY <1>2, Products
  <2>3. (below + 1) * b = t + b /\ below * b = t /\ (c + 1) * b = c * b + b /\ c * b \in Nat
    BY <1>2
  <2>4. c = below => c * b = t
    BY <2>3
  <2> HIDE DEF t
  <2> QED BY <1>1, <1>2, <1>3, <1>4, <2>1, <2>2, <2>3, <2>4
<1>8. \/ 2 * a < (2 * count + 1) * b
      \/ 2 * a = (2 * count + 1) * b /\ count % 2 = 0
  <2> HIDE DEF t
  <2> QED BY <1>1, <1>2, <1>3, <1>4, <1>5
<1>9. \/ (2 * count - 1) * b < 2 * a
      \/ (2 * count - 1) * b = 2 * a /\ count % 2 = 0
  <2> HIDE DEF t
  <2>1. below % 2 = 1 => (below + 1) % 2 = 0
    BY <1>2
  <2> QED BY <1>1, <1>2, <1>3, <1>4, <1>6, <2>1
<1> QED BY <1>4, <1>7, <1>8, <1>9 DEF count

-----------------------------------------------------------------------------
(***************************************************************************)
(* The exponent of a ratio, and the rounding of one.                       *)
(***************************************************************************)

\* 2 ^ k is the ratio of Up(k) to Down(k).
LEMMA UpDown ==
  ASSUME NEW k \in Int
  PROVE  /\ Up(k) \in Nat \ {0} /\ Down(k) \in Nat \ {0}
         /\ k >= 0 => Up(k) = 2 ^ k /\ Down(k) = 1
         /\ k <= 0 => Up(k) = 1 /\ Down(k) = 2 ^ (- k)
<1>1. NotBelowZero(k) = (IF k > 0 THEN k ELSE 0) /\ NotBelowZero(- k) = (IF - k > 0 THEN - k ELSE 0)
  BY DEF NotBelowZero
<1>2. CASE k > 0
  <2>1. k \in Nat /\ NotBelowZero(k) = k /\ NotBelowZero(- k) = 0
    BY <1>1, <1>2
  <2>2. Up(k) = 2 ^ k /\ Down(k) = 1
    BY <2>1, PowerZero DEF Up, Down
  <2>3. Up(k) \in Nat \ {0} /\ Down(k) \in Nat \ {0}
    BY <2>1, <2>2, PowerIsPositive
  <2> QED BY <1>2, <2>2, <2>3
<1>3. CASE k < 0
  <2>1. - k \in Nat /\ NotBelowZero(k) = 0 /\ NotBelowZero(- k) = - k
    BY <1>1, <1>3
  <2>2. Up(k) = 1 /\ Down(k) = 2 ^ (- k)
    BY <2>1, PowerZero DEF Up, Down
  <2>3. Up(k) \in Nat \ {0} /\ Down(k) \in Nat \ {0}
    BY <2>1, <2>2, PowerIsPositive
  <2> QED BY <1>3, <2>2, <2>3
<1>4. CASE k = 0
  <2>1. ~ k > 0 /\ ~ - k > 0 /\ - k = 0
    <3>1. \A x \in Int : x + x = 0 => - x = 0
      OBVIOUS
    <3>2. \A x \in Int : x <= 0 /\ x >= 0 => ~ x > 0 /\ ~ (- x > 0) /\ x + x = 0
      OBVIOUS
    <3>3. k <= 0 /\ k >= 0
      BY <1>4
    <3> HIDE <1>4
    <3> QED BY <3>1, <3>2, <3>3
  <2>2. NotBelowZero(k) = 0 /\ NotBelowZero(- k) = 0
    BY <1>1, <2>1
  <2>3. Up(k) = 1 /\ Down(k) = 1 /\ 2 ^ k = 1 /\ 2 ^ (- k) = 1
    BY <1>4, <2>1, <2>2, PowerZero DEF Up, Down
  <2> QED BY <2>3
<1> QED BY <1>2, <1>3, <1>4

\* The scalings of two exponents multiply to the scaling of their sum.
LEMMA UpDownSum ==
  ASSUME NEW i \in Int, NEW j \in Int
  PROVE  Up(i + j) * (Down(i) * Down(j)) = Down(i + j) * (Up(i) * Up(j))
<1>1. i + j \in Int /\ - i \in Int /\ - j \in Int /\ - (i + j) \in Int
  OBVIOUS
<1>2. CASE i >= 0 /\ j >= 0
  <2>1. i \in Nat /\ j \in Nat /\ i + j \in Nat
    BY <1>2
  <2>2. 2 ^ (i + j) = 2 ^ i * 2 ^ j /\ 2 ^ i \in Nat /\ 2 ^ j \in Nat
    BY <2>1, PowerSum, PowerIsPositive
  <2>3. Up(i + j) = 2 ^ (i + j) /\ Down(i + j) = 1 /\ Up(i) = 2 ^ i /\ Down(i) = 1 /\ Up(j) = 2 ^ j /\ Down(j) = 1
    BY <2>1, UpDown
  <2> QED BY <2>2, <2>3
<1>3. CASE i <= 0 /\ j <= 0
  <2>1. - i \in Nat /\ - j \in Nat /\ - (i + j) = (- i) + (- j)
    BY <1>3
  <2>2. 2 ^ (- (i + j)) = 2 ^ (- i) * 2 ^ (- j)
    BY <2>1, PowerSum
  <2>3. Up(i + j) = 1 /\ Down(i + j) = 2 ^ (- (i + j)) /\ Up(i) = 1 /\ Down(i) = 2 ^ (- i) /\ Up(j) = 1 /\ Down(j) = 2 ^ (- j)
    BY <1>3, UpDown
  <2>4. Down(i) \in Nat /\ Down(j) \in Nat /\ Down(i + j) \in Nat
    BY UpDown
  <2> QED BY <2>2, <2>3, <2>4
<1>4. ASSUME NEW a \in Int, NEW b \in Int, a >= 0, b <= 0
      PROVE  Up(a + b) * (Down(a) * Down(b)) = Down(a + b) * (Up(a) * Up(b))
  <2>1. a \in Nat /\ - b \in Nat /\ a + b \in Int
    BY <1>4
  <2>2. Up(a) = 2 ^ a /\ Down(a) = 1 /\ Up(b) = 1 /\ Down(b) = 2 ^ (- b)
    BY <1>4, UpDown
  <2>3. 2 ^ a \in Nat /\ 2 ^ (- b) \in Nat
    BY <2>1, PowerIsPositive
  <2>4. CASE a + b >= 0
    <3>1. a + b \in Nat /\ a = (a + b) + (- b)
      BY <2>1, <2>4
    <3>2. 2 ^ ((a + b) + (- b)) = 2 ^ (a + b) * 2 ^ (- b)
      BY <2>1, <3>1, PowerSum
    <3>3. 2 ^ a = 2 ^ (a + b) * 2 ^ (- b)
      BY <3>1, <3>2
    <3>4. Up(a + b) = 2 ^ (a + b) /\ Down(a + b) = 1
      BY <2>1, <2>4, UpDown
    <3>5. 2 ^ (a + b) \in Nat
      BY <3>1, PowerIsPositive
    <3> QED BY <2>2, <2>3, <3>3, <3>4, <3>5
  <2>5. CASE a + b <= 0
    <3>1. - (a + b) \in Nat /\ - b = a + (- (a + b))
      BY <2>1, <2>5
    <3>2. 2 ^ (a + (- (a + b))) = 2 ^ a * 2 ^ (- (a + b))
      BY <2>1, <3>1, PowerSum
    <3>3. 2 ^ (- b) = 2 ^ a * 2 ^ (- (a + b))
      BY <3>1, <3>2
    <3>4. Up(a + b) = 1 /\ Down(a + b) = 2 ^ (- (a + b))
      BY <2>1, <2>5, UpDown
    <3>5. 2 ^ (- (a + b)) \in Nat
      BY <3>1, PowerIsPositive
    <3> QED BY <2>2, <2>3, <3>3, <3>4, <3>5
  <2> QED BY <2>1, <2>4, <2>5
<1>5. CASE i >= 0 /\ j <= 0
  BY <1>4, <1>5
<1>6. CASE i <= 0 /\ j >= 0
  <2>1. Up(j + i) * (Down(j) * Down(i)) = Down(j + i) * (Up(j) * Up(i))
    BY <1>4, <1>6
  <2>2. /\ Down(j) * Down(i) = Down(i) * Down(j) /\ Up(j) * Up(i) = Up(i) * Up(j) /\ j + i = i + j
    <3>1. Up(i) \in Nat /\ Up(j) \in Nat /\ Down(i) \in Nat /\ Down(j) \in Nat
      BY UpDown
    <3> QED BY <3>1
  <2> QED BY <2>1, <2>2
<1> QED BY <1>2, <1>3, <1>5, <1>6

\* A comparison with 2 ^ k holds with both sides scaled by 2 ^ f.
LEMMA ScaledAlike ==
  ASSUME NEW a \in Nat, NEW b \in Nat, NEW k \in Int, NEW f \in Int
  PROVE  /\ a * Up(k) <= b * Down(k) <=> (a * Down(f)) * Up(k + f) <= (b * Up(f)) * Down(k + f)
         /\ b * Down(k) < a * Up(k) <=> (b * Up(f)) * Down(k + f) < (a * Down(f)) * Up(k + f)
<1> DEFINE uk == Up(k)
           dk == Down(k)
           uf == Up(f)
           df == Down(f)
           us == Up(k + f)
           ds == Down(k + f)
<1>1. uk \in Nat \ {0} /\ dk \in Nat \ {0} /\ uf \in Nat \ {0} /\ df \in Nat \ {0} /\ us \in Nat \ {0} /\ ds \in Nat \ {0}
  <2>1. k + f \in Int
    OBVIOUS
  <2> QED BY <2>1, UpDown
<1>2. us * (dk * df) = ds * (uk * uf)
  BY UpDownSum
<1> HIDE DEF uk, dk, uf, df, us, ds
<1>3. ((a * df) * us) * dk = a * (us * (dk * df)) /\ (a * uk) * (ds * uf) = a * (ds * (uk * uf))
  BY <1>1
<1>4. ((b * uf) * ds) * dk = (b * dk) * (ds * uf)
  BY <1>1
<1>5. ((a * df) * us) * dk = (a * uk) * (ds * uf)
  BY <1>2, <1>3
<1> DEFINE x == (a * df) * us
           y == (b * uf) * ds
           m == ds * uf
           v == a * uk
           w == b * dk
<1>6. x \in Int /\ y \in Int /\ m \in Nat \ {0} /\ v \in Int /\ w \in Int /\ x * dk = v * m /\ y * dk = w * m
  BY <1>1, <1>4, <1>5
<1> HIDE DEF x, y, m, v, w
<1>7. (x * dk <= y * dk <=> x <= y) /\ (y * dk < x * dk <=> y < x)
  BY <1>1, <1>6, Cancels
<1>8. (v * m <= w * m <=> v <= w) /\ (w * m < v * m <=> w < v)
  BY <1>6, Cancels
<1>9. (v <= w <=> x <= y) /\ (w < v <=> y < x)
  BY <1>6, <1>7, <1>8
<1> QED BY <1>9 DEF x, y, v, w, uk, dk, uf, df, us, ds

\* A natural is below its power of two.
LEMMA PowerIsAbove ==
  ASSUME NEW k \in Nat
  PROVE  k < 2 ^ k
<1> DEFINE T == {j \in Nat : ~ j < 2 ^ j}
<1>1. SUFFICES ASSUME T # {} PROVE FALSE
  BY DEF T
<1>2. PICK j \in T : \A i \in T : j <= i
  <2>1. T \in SUBSET Nat
    OBVIOUS
  <2> HIDE DEF T
  <2> QED BY <1>1, <2>1, LeastNatural
<1>3. j \in Nat /\ ~ j < 2 ^ j
  BY <1>2
<1>4. j # 0
  <2> SUFFICES ASSUME j = 0 PROVE FALSE
    OBVIOUS
  <2>1. 2 ^ j = 1
    BY PowerZero
  <2> QED BY <1>3, <2>1
<1>5. j - 1 \in Nat /\ j - 1 < 2 ^ (j - 1) /\ 2 ^ (j - 1) \in Nat \ {0}
  <2>1. j - 1 \in Nat /\ ~ j <= j - 1
    BY <1>3, <1>4
  <2>2. j - 1 \notin T
    BY <1>2, <2>1
  <2> QED BY <2>1, <2>2, PowerIsPositive
<1>6. 2 ^ j = 2 * 2 ^ (j - 1)
  <2>1. j = (j - 1) + 1
    BY <1>3
  <2> QED BY <1>5, <2>1, PowerStep
<1> QED BY <1>3, <1>5, <1>6

\* BitLength is the exponent of the power of two a number lies in.
LEMMA BitLengthFacts ==
  ASSUME NEW n \in Nat \ {0}
  PROVE  BitLength(n) \in Nat /\ 2 ^ BitLength(n) <= n /\ n < 2 * 2 ^ BitLength(n)
<1> DEFINE T == {b \in Nat : n < 2 * 2 ^ b}
<1>1. PICK b \in T : \A c \in T : b <= c
  <2>1. n < 2 ^ n /\ 2 ^ n \in Nat
    BY PowerIsAbove, PowerIsPositive
  <2>2. n \in T /\ T \in SUBSET Nat
    BY <2>1
  <2> HIDE DEF T
  <2> QED BY <2>2, LeastNatural
<1>2. b \in Nat /\ n < 2 * 2 ^ b /\ 2 ^ b \in Nat \ {0}
  BY <1>1, PowerIsPositive
<1>3. 2 ^ b <= n
  <2>1. CASE b = 0
    BY <2>1, PowerZero
  <2>2. CASE b # 0
    <3>1. b - 1 \in Nat /\ ~ b <= b - 1 /\ b = (b - 1) + 1
      BY <1>2, <2>2
    <3>2. b - 1 \notin T
      BY <1>1, <3>1
    <3>3. 2 ^ b = 2 * 2 ^ (b - 1) /\ 2 ^ (b - 1) \in Nat
      BY <3>1, PowerStep, PowerIsPositive
    <3> QED BY <3>1, <3>2, <3>3
  <2> QED BY <2>1, <2>2
<1>4. b \in 0 .. n
  BY <1>2, <1>3, PowerIsAbove
<1>5. ASSUME NEW c \in Nat
      PROVE  n \div 2 ^ c = 1 <=> 2 ^ c <= n /\ n < 2 * 2 ^ c
  <2> DEFINE p == 2 ^ c
             k == n \div p
  <2>1. p \in Nat \ {0}
    BY PowerIsPositive
  <2> HIDE DEF p
  <2>2. k \in Int /\ n % p \in 0 .. p - 1 /\ n = p * k + (n % p)
    BY <2>1, Quotient
  <2>3. k <= 0 => p * k <= p * 0
    BY <2>1, <2>2, Products
  <2>4. k >= 2 => p * k >= p * 2
    BY <2>1, <2>2, Products
  <2>5. k = 1 => p * k = p
    BY <2>1, <2>2
  <2>6. p * k \in Int /\ p * 0 = 0 /\ p * 2 = 2 * p
    BY <2>1, <2>2
  <2> HIDE DEF p, k
  <2>7. k = 1 <=> p <= n /\ n < 2 * p
    BY <2>1, <2>2, <2>3, <2>4, <2>5, <2>6
  <2> QED BY <2>7 DEF p, k
<1>6. n \div 2 ^ b = 1
  BY <1>2, <1>3, <1>5
<1>7. BitLength(n) \in 0 .. n /\ n \div 2 ^ BitLength(n) = 1
  BY <1>4, <1>6 DEF BitLength
<1> QED BY <1>5, <1>7

\* The exponent of a ratio.
LEMMA Log2Facts ==
  ASSUME NEW num \in Nat \ {0}, NEW den \in Nat \ {0}
  PROVE  /\ Log2(num, den) \in Int
         /\ den * Up(Log2(num, den)) <= num * Down(Log2(num, den))
         /\ num * Down(Log2(num, den) + 1) < den * Up(Log2(num, den) + 1)
<1> DEFINE i == BitLength(num)
           j == BitLength(den)
           g == i - j
           pi == 2 ^ i
           pj == 2 ^ j
<1>1. i \in Nat /\ j \in Nat /\ pi <= num /\ num < 2 * pi /\ pj <= den /\ den < 2 * pj /\ pi \in Nat \ {0} /\ pj \in Nat \ {0}
  BY BitLengthFacts, PowerIsPositive
<1>2. g \in Int /\ - j \in Int /\ g = i + (- j)
  BY <1>1
<1>3. Up(g) * pj = Down(g) * pi
  <2>1. Up(i) = pi /\ Down(i) = 1 /\ Up(- j) = 1 /\ Down(- j) = pj
    <3>1. i >= 0 /\ - j <= 0 /\ - (- j) = j
      BY <1>1
    <3> QED BY <1>1, <1>2, <3>1, UpDown
  <2>2. Up(i + (- j)) * (Down(i) * Down(- j)) = Down(i + (- j)) * (Up(i) * Up(- j))
    BY <1>1, <1>2, UpDownSum
  <2>3. Up(g) * (1 * pj) = Down(g) * (pi * 1)
    BY <1>2, <2>1, <2>2
  <2> HIDE DEF pi, pj
  <2> QED BY <1>1, <1>2, <2>3
<1>4. ASSUME NEW k \in Int
      PROVE  Up(k + 1) * Down(k) = 2 * (Down(k + 1) * Up(k))
  <2>1. 2 ^ 1 = 2
    <3>1. 2 ^ (0 + 1) = 2 * 2 ^ 0
      BY PowerStep
    <3> QED BY <3>1, PowerZero
  <2>2. Up(1) = 2 /\ Down(1) = 1
    <3>1. 1 \in Int /\ 1 >= 0
      OBVIOUS
    <3>2. Up(1) = 2 ^ 1 /\ Down(1) = 1
      BY <3>1, UpDown
    <3> QED BY <2>1, <3>2
  <2>3. Up(k + 1) * (Down(k) * Down(1)) = Down(k + 1) * (Up(k) * Up(1))
    BY UpDownSum
  <2>4. Up(k) \in Nat /\ Down(k) \in Nat /\ Up(k + 1) \in Nat /\ Down(k + 1) \in Nat
    BY UpDown
  <2> QED BY <2>2, <2>3, <2>4
<1>5. Log2(num, den) = IF num * Down(g) >= den * Up(g) THEN g ELSE g - 1
  BY DEF Log2, LogFrom
<1> DEFINE u == Up(g)
           d == Down(g)
<1>6. u \in Nat \ {0} /\ d \in Nat \ {0}
  BY <1>2, UpDown
<1>7. num * d < 2 * (den * u)
  <2> HIDE DEF i, j, g, pi, pj, u, d
  <2>1. u * pj = d * pi
    BY <1>3 DEF u, d
  <2>2. d * num < d * (2 * pi) /\ d * num = num * d
    BY <1>1, <1>6, Products
  <2>3. d * (2 * pi) = 2 * (d * pi) /\ 2 * (u * pj) = 2 * (d * pi)
    BY <1>1, <1>6, <2>1
  <2>4. u * pj <= u * den /\ u * den = den * u
    BY <1>1, <1>6, Products
  <2>5. d * num \in Int /\ d * pi \in Int /\ u * den \in Int
    BY <1>1, <1>6
  <2> QED BY <2>1, <2>2, <2>3, <2>4, <2>5
<1>8. den * u < 2 * (num * d)
  <2> HIDE DEF i, j, g, pi, pj, u, d
  <2>1. u * pj = d * pi
    BY <1>3 DEF u, d
  <2>2. u * den < u * (2 * pj) /\ u * den = den * u
    BY <1>1, <1>6, Products
  <2>3. u * (2 * pj) = 2 * (u * pj)
    BY <1>1, <1>6
  <2>4. d * pi <= d * num /\ d * num = num * d
    BY <1>1, <1>6, Products
  <2>5. u * den \in Int /\ u * pj \in Int /\ d * pi \in Int /\ d * num \in Int
    BY <1>1, <1>6
  <2> QED BY <2>1, <2>2, <2>3, <2>4, <2>5
<1>9. ASSUME num * d >= den * u PROVE num * Down(g + 1) < den * Up(g + 1)
  <2> DEFINE v == Up(g + 1)
             w == Down(g + 1)
  <2>1. v \in Nat \ {0} /\ w \in Nat \ {0} /\ v * d = 2 * (w * u)
    <3>1. g + 1 \in Int
      BY <1>2
    <3> QED BY <1>2, <1>4, <3>1, UpDown
  <2> HIDE DEF i, j, g, pi, pj, u, d, v, w
  <2>2. (num * w) * d = (num * d) * w /\ (2 * (den * u)) * w = den * (2 * (w * u)) /\ den * (v * d) = (den * v) * d
    BY <1>6, <2>1
  <2>3. (num * d) * w < (2 * (den * u)) * w
    <3>1. num * d \in Int /\ 2 * (den * u) \in Int
      BY <1>6
    <3> QED BY <1>7, <2>1, <3>1, Cancels
  <2>4. (num * w) * d < (den * v) * d
    BY <2>1, <2>2, <2>3
  <2>5. num * w \in Int /\ den * v \in Int
    BY <2>1
  <2>6. num * w < den * v
    BY <1>6, <2>4, <2>5, Cancels
  <2> QED BY <2>6 DEF v, w
<1>10. ASSUME ~ num * d >= den * u
       PROVE  /\ den * Up(g - 1) <= num * Down(g - 1)
              /\ num * Down((g - 1) + 1) < den * Up((g - 1) + 1)
  <2> DEFINE v == Up(g - 1)
             w == Down(g - 1)
  <2>1. v \in Nat \ {0} /\ w \in Nat \ {0} /\ u * w = 2 * (d * v) /\ (g - 1) + 1 = g
    <3>1. g - 1 \in Int /\ (g - 1) + 1 = g
      BY <1>2
    <3>2. Up((g - 1) + 1) * Down(g - 1) = 2 * (Down((g - 1) + 1) * Up(g - 1))
      BY <1>4, <3>1
    <3> QED BY <3>1, <3>2, UpDown
  <2>2. num * d < den * u
    <3> HIDE DEF u, d
    <3>1. num * d \in Int /\ den * u \in Int
      BY <1>6
    <3> QED BY <1>10, <3>1
  <2>3. num * Down((g - 1) + 1) < den * Up((g - 1) + 1)
    BY <2>1, <2>2
  <2> HIDE DEF i, j, g, pi, pj, u, d, v, w
  <2>4. (den * u) * w = den * (u * w) /\ den * (2 * (d * v)) = (den * v) * (2 * d) /\ (2 * (num * d)) * w = (num * w) * (2 * d)
    BY <1>6, <2>1
  <2>5. (den * u) * w <= (2 * (num * d)) * w
    <3>1. den * u \in Int /\ 2 * (num * d) \in Int /\ den * u <= 2 * (num * d)
      BY <1>6, <1>8
    <3> QED BY <2>1, <3>1, Cancels
  <2>6. (den * v) * (2 * d) <= (num * w) * (2 * d)
    BY <2>1, <2>4, <2>5
  <2>7. den * v \in Int /\ num * w \in Int /\ 2 * d \in Nat \ {0}
    BY <1>6, <2>1
  <2>8. den * v <= num * w
    BY <2>6, <2>7, Cancels
  <2> QED BY <2>3, <2>8 DEF v, w
<1>11. CASE num * d >= den * u
  <2>1. Log2(num, den) = g
    BY <1>5, <1>11
  <2>2. den * Up(g) <= num * Down(g)
    <3>1. num * d \in Int /\ den * u \in Int /\ den * u <= num * d
      <4> HIDE DEF u, d
      <4>1. num * d \in Int /\ den * u \in Int
        BY <1>6
      <4> QED BY <1>11, <4>1
    <3> QED BY <3>1
  <2> HIDE DEF g
  <2> QED BY <1>2, <1>9, <1>11, <2>1, <2>2
<1>12. CASE ~ num * d >= den * u
  <2>1. Log2(num, den) = g - 1 /\ g - 1 \in Int
    BY <1>2, <1>5, <1>12
  <2> HIDE DEF g
  <2> QED BY <1>10, <1>12, <2>1
<1> QED BY <1>11, <1>12

\* The codes of even counts are even.
LEMMA CodeParity ==
  ASSUME NEW k \in Nat, NEW u \in Nat
  PROVE  (u * Leading + k) % 2 = k % 2
<1>1. Leading \in Nat /\ Leading % 2 = 0
  BY FormatFacts
<1> DEFINE h == Leading \div 2
<1>2. h \in Nat /\ Leading = 2 * h
  BY <1>1
<1> HIDE DEF h
<1> DEFINE t == u * h
<1>3. t \in Nat /\ u * Leading = 2 * t
  BY <1>2
<1> HIDE DEF t
<1> QED BY <1>3

\* The nearest count of a unit spells the nearest code.
LEMMA CountRounds ==
  ASSUME NEW a \in Nat, NEW b \in Nat \ {0}, NEW u \in Nat,
         a < (2 * Leading) * b, u = 0 \/ Leading * b <= a
  PROVE  Rounds(UpToInfinity(Pattern(NearestCount(a, b), MinUnit + u)), a * 2 ^ u, b)
<1> DEFINE k == NearestCount(a, b)
           c == Pattern(k, MinUnit + u)
           w == 2 ^ u
<1>1. Leading \in Nat \ {0} /\ Infinity \in Nat /\ Infinity % 2 = 0 /\ Infinity > 0
  BY FormatFacts
<1>2. w \in Nat \ {0}
  BY PowerIsPositive
<1>3. /\ k \in Nat
      /\ 2 * a < (2 * k + 1) * b \/ (2 * a = (2 * k + 1) * b /\ k % 2 = 0)
      /\ (2 * k - 1) * b < 2 * a \/ ((2 * k - 1) * b = 2 * a /\ k % 2 = 0)
  BY CountNearest
<1>4. k <= 2 * Leading /\ (u = 0 \/ k >= Leading)
  <2>1. 2 * Leading \in Nat /\ a <= (2 * Leading) * b
    <3>1. (2 * Leading) * b \in Nat
      BY <1>1
    <3> QED BY <1>1, <3>1
  <2> QED BY <1>1, <2>1, CountNearest
<1>5. /\ c \in Nat /\ c = u * Leading + k /\ u * Leading \in Nat
      /\ Value(c) = k * w
      /\ Gap(c) = IF k = 2 * Leading THEN 2 * w ELSE w
  <2>1. 2 ^ (u + 1) = 2 * 2 ^ u
    BY PowerStep
  <2> QED BY <1>3, <1>4, <2>1, ValueOfPattern
<1>6. c % 2 = k % 2
  BY <1>3, <1>5, CodeParity
<1>7. Value(c + 1) = Value(c) + Gap(c)
  BY <1>5, ValueStep
<1>8. \/ 2 * (a * w) < (Value(c) + Value(c + 1)) * b
      \/ 2 * (a * w) = (Value(c) + Value(c + 1)) * b /\ c % 2 = 0
  <2>1. 2 * (a * w) = (2 * a) * w
    BY <1>2
  <2>2. CASE k # 2 * Leading
    <3>1. (Value(c) + Value(c + 1)) * b = ((2 * k + 1) * b) * w
      <4> HIDE DEF k, w
      <4>1. Value(c) + Value(c + 1) = (2 * k + 1) * w
        BY <1>2, <1>3, <1>5, <1>7, <2>2
      <4>2. ((2 * k + 1) * w) * b = ((2 * k + 1) * b) * w
        BY <1>2, <1>3
      <4> QED BY <4>1, <4>2
    <3>2. /\ (2 * a) * w < ((2 * k + 1) * b) * w <=> 2 * a < (2 * k + 1) * b
          /\ (2 * a) * w = ((2 * k + 1) * b) * w <=> 2 * a = (2 * k + 1) * b
      <4>1. 2 * a \in Int /\ (2 * k + 1) * b \in Int
        BY <1>3
      <4> HIDE DEF k, w
      <4> QED BY <1>2, <4>1, Cancels
    <3> QED BY <1>3, <1>6, <2>1, <3>1, <3>2
  <2>3. CASE k = 2 * Leading
    <3>1. (Value(c) + Value(c + 1)) * b = ((2 * k + 2) * b) * w
      <4> HIDE DEF k, w
      <4>1. Value(c) + Value(c + 1) = (2 * k + 2) * w
        BY <1>2, <1>3, <1>5, <1>7, <2>3
      <4>2. ((2 * k + 2) * w) * b = ((2 * k + 2) * b) * w
        BY <1>2, <1>3
      <4> QED BY <4>1, <4>2
    <3>2. 2 * a < (2 * k + 2) * b
      <4> HIDE DEF k
      <4>1. (2 * k + 2) * b = (2 * k + 1) * b + b /\ (2 * k + 1) * b \in Int
        BY <1>3
      <4> QED BY <1>3, <4>1
    <3>3. (2 * a) * w < ((2 * k + 2) * b) * w
      <4>1. 2 * a \in Int /\ (2 * k + 2) * b \in Int
        BY <1>3
      <4> HIDE DEF k, w
      <4> QED BY <1>2, <3>2, <4>1, Cancels
    <3> QED BY <2>1, <3>1, <3>3
  <2> QED BY <2>2, <2>3
<1>9. ASSUME c > 0
      PROVE  \/ (Value(c - 1) + Value(c)) * b < 2 * (a * w)
             \/ (Value(c - 1) + Value(c)) * b = 2 * (a * w) /\ c % 2 = 0
  <2>1. 2 * (a * w) = (2 * a) * w
    BY <1>2
  <2>2. c - 1 \in Nat /\ Value(c - 1) \in Nat /\ Value(c - 1) < Value(c) /\ Value(c) = Value(c - 1) + Gap(c - 1)
    <3>1. c - 1 \in Nat /\ (c - 1) + 1 = c
      BY <1>5, <1>9
    <3>2. Value((c - 1) + 1) = Value(c - 1) + Gap(c - 1) /\ Gap(c - 1) \in Nat \ {0} /\ Value(c - 1) \in Nat
      BY <3>1, ValueStep, CodeFacts
    <3> HIDE DEF c
    <3> QED BY <3>1, <3>2
  <2>3. k # 0
    <3> SUFFICES ASSUME k = 0 PROVE FALSE
      OBVIOUS
    <3>1. u = 0 /\ u * Leading = 0
      BY <1>1, <1>4
    <3> QED BY <1>5, <1>9, <3>1
  <2>4. CASE u = 0 \/ k - 1 >= Leading
    <3>1. k - 1 \in Nat /\ k - 1 <= 2 * Leading /\ k - 1 # 2 * Leading
      <4> HIDE DEF k
      <4> QED BY <1>1, <1>3, <1>4, <2>3
    <3>2. Pattern(k - 1, MinUnit + u) = u * Leading + (k - 1) /\ Gap(Pattern(k - 1, MinUnit + u)) = w
      BY <2>4, <3>1, ValueOfPattern
    <3>3. Gap(c - 1) = w
      <4>1. u * Leading + (k - 1) = c - 1
        <5> HIDE DEF k, c
        <5> QED BY <1>3, <1>5
      <4> QED BY <3>2, <4>1
    <3>4. (Value(c - 1) + Value(c)) * b = ((2 * k - 1) * b) * w
      <4> HIDE DEF k, c, w
      <4>1. Value(c - 1) + Value(c) = (2 * k - 1) * w
        BY <1>2, <1>3, <1>5, <2>2, <3>3
      <4>2. ((2 * k - 1) * w) * b = ((2 * k - 1) * b) * w
        BY <1>2, <1>3
      <4> QED BY <4>1, <4>2
    <3>5. /\ ((2 * k - 1) * b) * w < (2 * a) * w <=> (2 * k - 1) * b < 2 * a
          /\ ((2 * k - 1) * b) * w = (2 * a) * w <=> (2 * k - 1) * b = 2 * a
      <4>1. 2 * a \in Int /\ (2 * k - 1) * b \in Int
        BY <1>3
      <4> HIDE DEF k, w
      <4> QED BY <1>2, <4>1, Cancels
    <3> QED BY <1>3, <1>6, <2>1, <3>4, <3>5
  <2>5. CASE u # 0 /\ k - 1 < Leading
    <3>1. k = Leading /\ k * b <= a
      <4>1. k = Leading
        <5> HIDE DEF k
        <5> QED BY <1>1, <1>3, <1>4, <2>5
      <4> HIDE DEF k
      <4> QED BY <2>5, <4>1
    <3>2. (Value(c - 1) + Value(c)) * b < (2 * (k * w)) * b
      <4>1. Value(c - 1) + Value(c) < 2 * (k * w) /\ 2 * (k * w) \in Int /\ Value(c - 1) + Value(c) \in Int
        <5> HIDE DEF k, c, w
        <5> DEFINE t == k * w
        <5>1. t \in Nat /\ Value(c) = t
          BY <1>2, <1>3, <1>5
        <5> HIDE DEF t
        <5>2. Value(c - 1) + Value(c) < 2 * t /\ 2 * t \in Int /\ Value(c - 1) + Value(c) \in Int
          BY <2>2, <5>1
        <5> QED BY <5>2 DEF t
      <4> HIDE DEF k, c, w
      <4> QED BY <4>1, Cancels
    <3>3. (2 * (k * w)) * b = (k * b) * (2 * w) /\ (2 * a) * w = a * (2 * w)
      <4> HIDE DEF k, w
      <4> QED BY <1>2, <1>3
    <3>4. (k * b) * (2 * w) <= a * (2 * w)
      <4>1. k * b \in Int /\ 2 * w \in Nat \ {0}
        BY <1>2, <1>3
      <4> HIDE DEF k, w
      <4> QED BY <3>1, <4>1, Cancels
    <3>5. (Value(c - 1) + Value(c)) * b \in Int /\ (k * b) * (2 * w) \in Int /\ a * (2 * w) \in Int
      <4> HIDE DEF k, w, c
      <4> QED BY <1>2, <1>3, <1>5, <2>2
    <3>6. (Value(c - 1) + Value(c)) * b < a * (2 * w)
      <4> DEFINE x == (Value(c - 1) + Value(c)) * b
                 y == (k * b) * (2 * w)
                 z == a * (2 * w)
      <4>1. x \in Int /\ y \in Int /\ z \in Int /\ x < y /\ y <= z
        BY <3>2, <3>3, <3>4, <3>5
      <4> HIDE DEF x, y, z
      <4>2. x < z
        BY <4>1
      <4> QED BY <4>2 DEF x, z
    <3> QED BY <2>1, <3>3, <3>6
  <2>6. (u = 0 \/ k - 1 >= Leading) \/ (u # 0 /\ k - 1 < Leading)
    <3> HIDE DEF k
    <3> QED BY <1>1, <1>3
  <2> QED BY <2>4, <2>5, <2>6
<1> HIDE DEF k, c, w
<1>10. CASE c < Infinity
  <2>1. UpToInfinity(c) = c
    BY <1>10 DEF UpToInfinity
  <2>2. c \in 0 .. Infinity
    BY <1>1, <1>5, <1>10
  <2>3. Rounds(c, a * w, b)
    BY <1>8, <1>9, <2>2 DEF Rounds
  <2> QED BY <2>1, <2>3 DEF k, c, w
<1>11. CASE ~ c < Infinity
  <2>1. UpToInfinity(c) = Infinity
    BY <1>11 DEF UpToInfinity
  <2>2. Infinity - 1 \in Nat /\ c > 0 /\ c - 1 \in Nat /\ Infinity <= c
    BY <1>1, <1>5, <1>11
  <2> DEFINE s == Value(Infinity - 1) + Value(Infinity)
             t == Value(c - 1) + Value(c)
  <2>3. s \in Nat /\ t \in Nat /\ s <= t /\ (Infinity < c => s < t)
    <3>1. /\ Value(Infinity - 1) \in Nat /\ Value(Infinity) \in Nat /\ Value(c - 1) \in Nat /\ Value(c) \in Nat
      BY <1>1, <1>5, <2>2, CodeFacts
    <3>2. /\ Value(Infinity - 1) <= Value(c - 1) /\ Value(Infinity) <= Value(c)
          /\ Infinity < c => Value(Infinity) < Value(c)
      <4>1. Infinity - 1 <= c - 1
        BY <1>1, <1>5, <2>2
      <4> QED BY <1>1, <1>5, <2>2, <4>1, ValueClimbs
    <3> QED BY <3>1, <3>2
  <2>4. t * b < 2 * (a * w) \/ t * b = 2 * (a * w)
    BY <1>9, <2>2
  <2> HIDE DEF s, t
  <2>5. s * b <= t * b /\ (s < t => s * b < t * b) /\ s * b \in Int /\ t * b \in Int /\ a * w \in Int
    BY <1>2, <2>3, Cancels
  <2>6. \/ s * b < 2 * (a * w)
        \/ s * b = 2 * (a * w) /\ Infinity % 2 = 0
    <3> DEFINE x == s * b
               y == t * b
               z == a * w
    <3>1. x \in Int /\ y \in Int /\ z \in Int /\ x <= y /\ (y < 2 * z \/ y = 2 * z)
      BY <2>4, <2>5
    <3> HIDE DEF x, y, z
    <3>2. x < 2 * z \/ x = 2 * z
      BY <3>1
    <3> QED BY <1>1, <3>2 DEF x, z
  <2>7. Rounds(Infinity, a * w, b)
    BY <1>1, <2>6 DEF Rounds, s
  <2> QED BY <2>1, <2>7 DEF k, c, w
<1> QED BY <1>10, <1>11

\* NearestTo rounds, once.
LEMMA NearestRounds ==
  ASSUME NEW num \in Nat, NEW den \in Nat \ {0}, NEW e \in Int
  PROVE  /\ num * Up(e - MinUnit) \in Nat /\ den * Down(e - MinUnit) \in Nat \ {0}
         /\ Rounds(NearestTo(num, den, e), num * Up(e - MinUnit), den * Down(e - MinUnit))
<1>1. /\ MinUnit \in Int /\ Precision \in Nat /\ Precision >= 2 /\ Leading \in Nat \ {0} /\ Infinity \in Nat /\ Infinity > 0
      /\ 2 * Leading = 2 ^ Precision /\ Leading = 2 ^ (Precision - 1)
  BY FormatFacts DEF Leading
<1> DEFINE f == e - MinUnit
           n == num * Up(f)
           d == den * Down(f)
<1>2. f \in Int /\ Up(f) \in Nat \ {0} /\ Down(f) \in Nat \ {0} /\ n \in Nat /\ d \in Nat \ {0}
  <2>1. f \in Int
    BY <1>1
  <2>2. Up(f) \in Nat \ {0} /\ Down(f) \in Nat \ {0}
    BY <2>1, UpDown
  <2> HIDE DEF f
  <2> QED BY <2>1, <2>2
<1>3. CASE num = 0
  <2>1. NearestTo(num, den, e) = 0 /\ n = 0
    <3>1. NearestTo(num, den, e) = 0
      BY <1>3 DEF NearestTo
    <3>2. 0 * Up(f) = 0
      BY <1>2
    <3> QED BY <1>3, <3>1, <3>2
  <2>2. Value(0) = 0 /\ 0 \in 0 .. Infinity
    <3>1. 0 \in Nat /\ 0 < 2 * Leading
      BY <1>1
    <3>2. MagnitudeOf(0) = 0 /\ Gap(0) = 1
      BY <3>1, CodeFacts
    <3> QED BY <1>1, <3>2 DEF Value
  <2>3. Rounds(0, Value(0) * d, d)
    BY <1>2, <2>2, RoundsFixes
  <2>4. Value(0) * d = 0
    <3> HIDE DEF d
    <3> QED BY <1>2, <2>2
  <2> QED BY <1>2, <2>1, <2>3, <2>4
<1>4. CASE num # 0
  <2> DEFINE lg == Log2(num, den)
             top == lg + e
             t == lg + f
  <2>1. lg \in Int /\ den * Up(lg) <= num * Down(lg) /\ num * Down(lg + 1) < den * Up(lg + 1)
    BY <1>4, Log2Facts
  <2>2. NearestTo(num, den, e) = IF top < MinUnit - 1 THEN 0 ELSE UpToInfinity(InUnits(num, den, e, UnitAt(top)))
    BY <1>4 DEF NearestTo, NearestAt
  <2>3. t \in Int /\ top = t + MinUnit /\ lg + 1 \in Int /\ (lg + 1) + f = t + 1
    <3> HIDE DEF lg
    <3> QED BY <1>1, <2>1
  <2>4. n * Down(t + 1) < d * Up(t + 1)
    <3>1. (num * Up(f)) * Down((lg + 1) + f) < (den * Down(f)) * Up((lg + 1) + f)
      BY <1>2, <2>1, <2>3, ScaledAlike
    <3> QED BY <2>3, <3>1
  <2> HIDE DEF lg, top, t, f, n, d
  <2>5. CASE top < MinUnit - 1
    <3>1. t + 1 <= -1 /\ t + 1 \in Int
      BY <1>1, <2>3, <2>5
    <3>2. Up(t + 1) = 1 /\ Down(t + 1) = 2 ^ (- (t + 1)) /\ - (t + 1) \in Nat /\ - (t + 1) >= 1
      BY <3>1, UpDown
    <3>3. Down(t + 1) >= 2 /\ Down(t + 1) \in Nat
      <4> DEFINE g == - (t + 1)
      <4>1. g \in Nat /\ 0 < g /\ 0 \in Nat /\ Down(t + 1) = 2 ^ g
        BY <3>2
      <4> HIDE DEF g
      <4>2. 2 * 2 ^ 0 <= 2 ^ g
        BY <4>1, PowerBelow
      <4> QED BY <4>1, <4>2, PowerZero, PowerIsPositive
    <3>4. n * 2 <= n * Down(t + 1) /\ d * 1 = d /\ n * Down(t + 1) \in Nat
      BY <1>2, <3>3, Products
    <3>5. 2 * n < d
      BY <1>2, <2>4, <3>2, <3>4
    <3>6. Value(0) = 0 /\ Value(1) = 1 /\ 0 + 1 = 1
      <4>1. 0 \in Nat /\ 0 < 2 * Leading /\ 1 \in Nat /\ 1 < 2 * Leading
        BY <1>1
      <4>2. MagnitudeOf(0) = 0 /\ Gap(0) = 1 /\ MagnitudeOf(1) = 1 /\ Gap(1) = 1
        BY <4>1, CodeFacts
      <4> QED BY <4>2 DEF Value
    <3>7. (Value(0) + Value(0 + 1)) * d = d
      BY <1>2, <3>6
    <3>8. Rounds(0, n, d)
      BY <1>1, <3>5, <3>7 DEF Rounds
    <3> QED BY <1>2, <2>2, <2>5, <3>8 DEF f, n, d
  <2>6. CASE ~ top < MinUnit - 1
    <3> DEFINE u == IF top - Precision + 1 - MinUnit > 0 THEN top - Precision + 1 - MinUnit ELSE 0
               i == e - (MinUnit + u)
               a == num * Up(i)
               b == den * Down(i)
    <3>1. u \in Nat /\ UnitAt(top) = MinUnit + u
      <4>1. UnitAt(top) = MinUnit + u
        BY DEF UnitAt, NotBelowZero
      <4> QED BY <1>1, <2>3, <4>1
    <3>2. i \in Int /\ f = i + u /\ t >= -1 /\ (u = 0 => t + 1 <= Precision) /\ (u # 0 => t - u = Precision - 1)
      <4>1. f = e - MinUnit
        BY DEF f
      <4> QED BY <1>1, <2>3, <2>6, <3>1, <4>1
    <3> HIDE DEF u, i
    <3>3. a \in Nat /\ b \in Nat \ {0} /\ Up(i) \in Nat \ {0} /\ Down(i) \in Nat \ {0}
      BY <3>2, UpDown
    <3>4. InUnits(num, den, e, UnitAt(top)) = Pattern(NearestCount(a, b), MinUnit + u)
      BY <3>1 DEF InUnits, i
    <3>5. a < (2 * Leading) * b
      <4> DEFINE j == t + 1 - u
      <4>1. j \in Int /\ j >= 0 /\ j <= Precision /\ j = (lg + 1) + i
        <5>1. t = lg + f
          BY DEF t
        <5>2. j \in Int /\ j >= 0 /\ j <= Precision
          BY <1>1, <2>3, <3>1, <3>2
        <5> QED BY <2>1, <3>1, <3>2, <5>1, <5>2
      <4>2. a * Down(j) < b * Up(j)
        <5>1. (num * Up(i)) * Down((lg + 1) + i) < (den * Down(i)) * Up((lg + 1) + i)
          BY <2>1, <2>3, <3>2, ScaledAlike
        <5> QED BY <4>1, <5>1
      <4> HIDE DEF j, a, b
      <4>3. Down(j) = 1 /\ Up(j) = 2 ^ j /\ 2 ^ j \in Nat /\ 2 ^ j <= 2 ^ Precision
        <5>1. j \in Nat /\ Precision \in Nat /\ j <= Precision
          BY <1>1, <4>1
        <5>2. 2 ^ j <= 2 ^ Precision /\ 2 ^ j \in Nat
          BY <5>1, PowerUpTo, PowerIsPositive
        <5> QED BY <4>1, <5>2, UpDown
      <4>4. b * 2 ^ j <= b * (2 * Leading) /\ b * (2 * Leading) = (2 * Leading) * b /\ a * 1 = a
        <5>1. 2 ^ j <= 2 * Leading
          BY <1>1, <4>3
        <5> HIDE DEF j
        <5> QED BY <1>1, <3>3, <4>3, <5>1, Products
      <4>5. b * 2 ^ j \in Int /\ (2 * Leading) * b \in Int
        BY <1>1, <3>3, <4>3
      <4>6. a < b * 2 ^ j
        BY <4>2, <4>3, <4>4
      <4> HIDE <4>2, <4>3
      <4> QED BY <3>3, <4>4, <4>5, <4>6
    <3>6. u = 0 \/ Leading * b <= a
      <4> SUFFICES ASSUME u # 0 PROVE Leading * b <= a
        OBVIOUS
      <4> DEFINE j == t - u
      <4>1. j \in Int /\ j = Precision - 1 /\ j >= 0 /\ j = lg + i
        <5>1. t = lg + f
          BY DEF t
        <5> QED BY <1>1, <2>1, <3>1, <3>2, <5>1
      <4>2. (den * Down(i)) * Up(lg + i) <= (num * Up(i)) * Down(lg + i)
        BY <2>1, <3>2, ScaledAlike
      <4>3. b * Up(j) <= a * Down(j)
        BY <4>1, <4>2
      <4>4. Down(j) = 1 /\ Up(j) = Leading
        BY <1>1, <4>1, UpDown
      <4> HIDE DEF j, a, b
      <4>5. b * Leading <= a * 1
        BY <4>3, <4>4
      <4> QED BY <1>1, <3>3, <4>5
    <3>7. Rounds(UpToInfinity(Pattern(NearestCount(a, b), MinUnit + u)), a * 2 ^ u, b)
      <4> HIDE DEF a, b
      <4> QED BY <3>1, <3>3, <3>5, <3>6, CountRounds
    <3>8. (a * 2 ^ u) * d = n * b
      <4>1. Up(u) = 2 ^ u /\ Down(u) = 1 /\ 2 ^ u \in Nat /\ u \in Int
        BY <3>1, UpDown, PowerIsPositive
      <4>2. Up(i + u) * (Down(i) * Down(u)) = Down(i + u) * (Up(i) * Up(u))
        BY <3>2, <4>1, UpDownSum
      <4> DEFINE x == Up(f)
                 y == Down(f)
                 p == Up(i)
                 q == Down(i)
                 w == 2 ^ u
      <4>3. x * (q * 1) = y * (p * w) /\ x \in Nat /\ y \in Nat /\ p \in Nat /\ q \in Nat /\ w \in Nat
        BY <1>2, <3>2, <3>3, <4>1, <4>2
      <4>4. a = num * p /\ b = den * q /\ n = num * x /\ d = den * y
        BY DEF n, d
      <4> HIDE DEF x, y, p, q, w, a, b
      <4>5. x * q = y * (p * w)
        BY <4>3
      <4>6. ((num * p) * w) * (den * y) = (num * den) * (y * (p * w))
        BY <4>3
      <4>7. (num * x) * (den * q) = (num * den) * (x * q)
        BY <4>3
      <4>8. (a * w) * d = n * b
        BY <4>4, <4>5, <4>6, <4>7
      <4> QED BY <4>8 DEF w
    <3>9. Rounds(UpToInfinity(Pattern(NearestCount(a, b), MinUnit + u)), n, d)
      <4>1. a * 2 ^ u \in Nat
        <5>1. 2 ^ u \in Nat
          BY <3>1, PowerIsPositive
        <5> HIDE DEF a, b
        <5> QED BY <3>3, <5>1
      <4> HIDE DEF a, b
      <4> QED BY <1>2, <3>3, <3>7, <3>8, <4>1, RoundsRescaled
    <3> QED BY <1>2, <2>2, <2>6, <3>4, <3>9 DEF f, n, d
  <2> QED BY <2>5, <2>6
<1> QED BY <1>3, <1>4

-----------------------------------------------------------------------------
(***************************************************************************)
(* Signed codes: their numbers, and the four operations, rounded once.     *)
(***************************************************************************)

\* What a signed code stands for, in least units, and rounding of a signed ratio.
Number(x) == IF x < 0 THEN - Value(- x) ELSE Value(x)
Near(r, n, d) == IF n < 0 THEN Rounds(- r, - n, d) ELSE Rounds(r, n, d)

\* The absolute value of a code, and the codes it tells from the rest.
LEMMA AbsFacts ==
  ASSUME NEW x \in Int
  PROVE  /\ Abs(x) \in Nat
         /\ x >= 0 => Abs(x) = x
         /\ x < 0 => Abs(x) = - x /\ - x \in Nat
         /\ Abs(x) <= Infinity <=> x \in Codes
         /\ Abs(x) < Infinity <=> (- Infinity < x /\ x < Infinity)
BY FormatFacts DEF Abs, Codes

\* A code is an integer of one of two signs, and never NaN.
LEMMA CodesFacts ==
  ASSUME NEW x \in Codes
  PROVE  /\ x \in Int /\ - x \in Codes /\ Abs(x) \in 0 .. Infinity /\ x # NaN
         /\ x >= 0 => x \in 0 .. Infinity
         /\ x < 0 => - x \in 0 .. Infinity
<1>1. Infinity \in Nat /\ NaN \notin Int
  BY FormatFacts, FormatAssumption
<1> QED BY <1>1, AbsFacts DEF Codes

\* The number of a code has its sign, and is its count of units.
LEMMA NumberFacts ==
  ASSUME NEW x \in Int
  PROVE  /\ Number(x) \in Int
         /\ Number(x) = Count(x) * Gap(Abs(x)) /\ Count(x) \in Int
         /\ Number(- x) = - Number(x)
         /\ x > 0 => Number(x) > 0
         /\ x = 0 => Number(x) = 0
         /\ x < 0 => Number(x) < 0
<1>1. Leading \in Nat /\ 0 < 2 * Leading
  BY FormatFacts
<1>2. Value(0) = 0
  <2>1. 0 \in Nat
    OBVIOUS
  <2>2. MagnitudeOf(0) = 0 /\ Gap(0) = 1
    BY <1>1, <2>1, CodeFacts
  <2> QED BY <2>2 DEF Value
<1>3. \A c \in Nat : Value(c) \in Nat /\ (c > 0 => Value(c) > 0)
  <2> TAKE c \in Nat
  <2>1. Value(c) \in Nat /\ Value(0) \in Nat /\ 0 \in Nat
    BY CodeFacts
  <2>2. 0 < c => Value(0) < Value(c)
    BY <2>1, ValueClimbs
  <2> QED BY <1>2, <2>1, <2>2
<1>4. /\ Number(x) \in Int
      /\ x > 0 => Number(x) > 0
      /\ x < 0 => Number(x) < 0
  BY <1>3 DEF Number
<1>5. x = 0 => Number(x) = 0
  BY <1>2 DEF Number
<1>6. Number(- x) = - Number(x)
  <2>1. CASE x > 0
    <3>1. - x < 0 /\ - (- x) = x /\ ~ x < 0
      BY <2>1
    <3> QED BY <3>1 DEF Number
  <2>2. CASE x < 0
    <3>1. ~ - x < 0 /\ - x \in Nat /\ Value(- x) \in Nat
      BY <1>3, <2>2
    <3>2. Number(- x) = Value(- x) /\ Number(x) = - Value(- x)
      BY <2>2, <3>1 DEF Number
    <3> QED BY <3>1, <3>2
  <2>3. CASE x = 0
    <3>1. \A i \in Int : i + i = 0 => - i = 0
      OBVIOUS
    <3>2. x + x = 0 /\ Number(x) = 0 /\ Number(x) + Number(x) = 0 /\ Number(x) \in Int
      BY <1>4, <1>5, <2>3
    <3>3. - x = 0 /\ - Number(x) = 0
      BY <3>1, <3>2
    <3>4. Number(0) = 0
      BY <1>2 DEF Number
    <3> QED BY <3>3, <3>4
  <2> QED BY <2>1, <2>2, <2>3
<1>7. Number(x) = Count(x) * Gap(Abs(x)) /\ Count(x) \in Int
  <2>1. Abs(x) \in Nat
    BY AbsFacts
  <2> DEFINE m == MagnitudeOf(Abs(x))
             g == Gap(Abs(x))
  <2>2. m \in Nat /\ g \in Nat
    <3>1. m \in 0 .. 2 * Leading - 1 /\ g \in Nat
      BY <2>1, CodeFacts
    <3> QED BY <1>1, <3>1
  <2>3. CASE x < 0
    <3>1. Count(x) = - m
      BY <2>3 DEF Count, Magnitude
    <3>2. Number(x) = - (m * g)
      <4>1. Abs(x) = - x
        BY <2>3, AbsFacts
      <4> QED BY <2>3, <4>1 DEF Number, Value
    <3> HIDE DEF m, g
    <3>3. - (m * g) = (- m) * g
      BY <2>2
    <3> QED BY <2>2, <3>1, <3>2, <3>3 DEF g
  <2>4. CASE ~ x < 0
    <3>1. Count(x) = m
      BY <2>4 DEF Count, Magnitude
    <3>2. Number(x) = m * g
      <4>1. Abs(x) = x
        BY <2>4, AbsFacts
      <4> QED BY <2>4, <4>1 DEF Number, Value
    <3> HIDE DEF m
    <3> QED BY <2>2, <3>1, <3>2
  <2> QED BY <2>3, <2>4
<1> QED BY <1>4, <1>5, <1>6, <1>7

\* Signed codes are in the order of their numbers.
LEMMA NumberClimbs ==
  ASSUME NEW x \in Int, NEW y \in Int
  PROVE  (x < y <=> Number(x) < Number(y)) /\ (x <= y <=> Number(x) <= Number(y))
<1>1. ASSUME NEW a \in Int, NEW b \in Int, a < b PROVE Number(a) < Number(b)
  <2>1. Number(a) \in Int /\ Number(b) \in Int
    BY NumberFacts
  <2>2. CASE a < 0 /\ b < 0
    <3>1. - a \in Nat /\ - b \in Nat /\ - b < - a
      BY <1>1, <2>2
    <3>2. Value(- b) < Value(- a) /\ Value(- a) \in Nat /\ Value(- b) \in Nat
      BY <3>1, ValueClimbs, CodeFacts
    <3>3. Number(a) = - Value(- a) /\ Number(b) = - Value(- b)
      BY <2>2 DEF Number
    <3> QED BY <3>2, <3>3
  <2>3. CASE a >= 0
    <3>1. a \in Nat /\ b \in Nat /\ ~ a < 0 /\ ~ b < 0
      BY <1>1, <2>3
    <3> QED BY <1>1, <3>1, ValueClimbs DEF Number
  <2>4. CASE a < 0 /\ b >= 0
    <3>1. Number(a) < 0 /\ Number(b) >= 0
      <4>1. b > 0 \/ b = 0
        BY <2>4
      <4> QED BY <2>1, <2>4, <4>1, NumberFacts
    <3> QED BY <2>1, <3>1
  <2> QED BY <2>2, <2>3, <2>4
<1>2. Number(x) \in Int /\ Number(y) \in Int
  BY NumberFacts
<1>3. x < y => Number(x) < Number(y)
  BY <1>1
<1>4. y < x => Number(y) < Number(x)
  BY <1>1
<1> QED BY <1>2, <1>3, <1>4

\* What a ratio rounds to is a code of the ratio's sign.
LEMMA NearIsCode ==
  ASSUME NEW n \in Int, NEW d \in Nat \ {0}, NEW r \in Int, Near(r, n, d)
  PROVE  r \in Codes /\ (n >= 0 => r >= 0) /\ (n <= 0 => r <= 0) /\ (n < 0 => - r \in 0 .. Infinity)
<1>1. Infinity \in Nat
  BY FormatFacts
<1>2. CASE n < 0
  <2>1. - r \in 0 .. Infinity
    BY <1>2 DEF Near, Rounds
  <2> QED BY <1>1, <1>2, <2>1 DEF Codes
<1>3. CASE n > 0
  <2>1. r \in 0 .. Infinity
    BY <1>3 DEF Near, Rounds
  <2> QED BY <1>1, <1>3, <2>1 DEF Codes
<1>4. CASE n = 0
  <2>1. r \in 0 .. Infinity /\ Rounds(r, 0, d)
    BY <1>4 DEF Near, Rounds
  <2>2. r <= 0
    <3> SUFFICES ASSUME r > 0 PROVE FALSE
      BY <1>1, <2>1
    <3>1. r - 1 \in Nat /\ r \in Nat
      BY <1>1, <2>1
    <3>2. \/ (Value(r - 1) + Value(r)) * d < 2 * 0
          \/ (Value(r - 1) + Value(r)) * d = 2 * 0 /\ r % 2 = 0
      BY <2>1 DEF Rounds
    <3>3. Value(r - 1) \in Nat /\ Value(r) \in Nat /\ Value(r - 1) < Value(r)
      <4>1. r - 1 < r
        BY <3>1
      <4> QED BY <3>1, <4>1, CodeFacts, ValueClimbs
    <3>4. 0 * d < (Value(r - 1) + Value(r)) * d /\ 0 * d = 0
      BY <3>3, Cancels
    <3> DEFINE s == (Value(r - 1) + Value(r)) * d
    <3>5. s \in Int /\ 0 < s /\ (s < 2 * 0 \/ s = 2 * 0)
      BY <3>2, <3>3, <3>4
    <3> HIDE DEF s
    <3> QED BY <3>5
  <2> QED BY <1>1, <1>4, <2>1, <2>2 DEF Codes
<1> QED BY <1>2, <1>3, <1>4

\* Rounding keeps the order of signed ratios.
LEMMA NearClimbs ==
  ASSUME NEW n1 \in Int, NEW d1 \in Nat \ {0}, NEW n2 \in Int, NEW d2 \in Nat \ {0},
         NEW r1 \in Int, NEW r2 \in Int, Near(r1, n1, d1), Near(r2, n2, d2), n1 * d2 <= n2 * d1
  PROVE  r1 <= r2
<1>1. CASE n1 >= 0 /\ n2 >= 0
  <2>1. n1 \in Nat /\ n2 \in Nat /\ ~ n1 < 0 /\ ~ n2 < 0
    BY <1>1
  <2>2. Rounds(r1, n1, d1) /\ Rounds(r2, n2, d2)
    BY <2>1 DEF Near
  <2> QED BY <2>1, <2>2, RoundsClimb
<1>2. CASE n1 < 0 /\ n2 < 0
  <2>1. Rounds(- r1, - n1, d1) /\ Rounds(- r2, - n2, d2) /\ - n1 \in Nat /\ - n2 \in Nat
    BY <1>2 DEF Near
  <2>2. (- n2) * d1 <= (- n1) * d2
    <3>1. (- n2) * d1 = - (n2 * d1) /\ (- n1) * d2 = - (n1 * d2) /\ n1 * d2 \in Int /\ n2 * d1 \in Int
      OBVIOUS
    <3> QED BY <3>1
  <2>3. - r2 <= - r1
    BY <2>1, <2>2, RoundsClimb
  <2> QED BY <2>3
<1>3. CASE n1 < 0 /\ n2 >= 0
  <2>1. r1 <= 0 /\ r2 >= 0
    BY <1>3, NearIsCode
  <2> QED BY <2>1
<1>4. CASE n1 >= 0 /\ n2 < 0
  <2>1. n1 * d2 >= 0 * d2 /\ n2 * d1 < 0 * d1
    BY <1>4, Cancels
  <2>2. 0 * d2 = 0 /\ 0 * d1 = 0 /\ n1 * d2 \in Int /\ n2 * d1 \in Int
    OBVIOUS
  <2> QED BY <2>1, <2>2
<1> QED BY <1>1, <1>2, <1>3, <1>4

\* The number of a code rounds to the code.
LEMMA NearFixes ==
  ASSUME NEW c \in Codes, NEW d \in Nat \ {0}
  PROVE  Number(c) * d \in Int /\ Near(c, Number(c) * d, d)
<1>1. c \in Int /\ (c >= 0 => c \in 0 .. Infinity) /\ (c < 0 => - c \in 0 .. Infinity)
  BY CodesFacts
<1>2. Number(c) \in Int
  BY <1>1, NumberFacts
<1>3. CASE c >= 0
  <2>1. Rounds(c, Value(c) * d, d) /\ Value(c) * d \in Nat
    BY <1>1, <1>3, RoundsFixes
  <2>2. Number(c) = Value(c)
    BY <1>1, <1>3 DEF Number
  <2> QED BY <2>1, <2>2 DEF Near
<1>4. CASE c < 0
  <2>1. Rounds(- c, Value(- c) * d, d) /\ Value(- c) * d \in Nat
    BY <1>1, <1>4, RoundsFixes
  <2>2. Number(c) = - Value(- c) /\ Number(c) < 0
    BY <1>1, <1>4, NumberFacts DEF Number
  <2>3. Value(- c) \in Nat
    <3>1. - c \in Nat
      BY <1>1, <1>4
    <3> QED BY <3>1, CodeFacts
  <2>4. Number(c) * d < 0 * d /\ 0 * d = 0
    BY <1>2, <2>2, Cancels
  <2>5. - (Number(c) * d) = Value(- c) * d
    BY <2>2, <2>3
  <2> QED BY <1>2, <2>1, <2>4, <2>5 DEF Near
<1> QED BY <1>1, <1>3, <1>4

\* A ratio on one side of a code's number rounds to that side of the code, or to it.
LEMMA NearAgainst ==
  ASSUME NEW n \in Int, NEW d \in Nat \ {0}, NEW r \in Int, Near(r, n, d), NEW c \in Codes
  PROVE  /\ n <= Number(c) * d => r <= c
         /\ Number(c) * d <= n => c <= r
<1>1. Number(c) \in Int /\ Near(c, Number(c) * 1, 1) /\ c \in Int
  <2>1. 1 \in Nat \ {0} /\ c \in Int
    BY CodesFacts
  <2> QED BY <2>1, NumberFacts, NearFixes
<1>2. Number(c) * 1 = Number(c) /\ n * 1 = n
  BY <1>1
<1> QED BY <1>1, <1>2, NearClimbs

\* Equal signed ratios round to the same codes.
LEMMA NearRescaled ==
  ASSUME NEW n \in Int, NEW d \in Nat \ {0}, NEW m \in Int, NEW b \in Nat \ {0},
         NEW r \in Int, Near(r, n, d), n * b = m * d
  PROVE  Near(r, m, b)
<1>1. n < 0 <=> m < 0
  <2>1. n < 0 <=> n * b < 0 * b
    BY Cancels
  <2>2. m < 0 <=> m * d < 0 * d
    BY Cancels
  <2>3. 0 * b = 0 /\ 0 * d = 0
    OBVIOUS
  <2> QED BY <2>1, <2>2, <2>3
<1>2. CASE n < 0
  <2>1. (- n) * b = (- m) * d /\ - n \in Nat /\ - m \in Nat
    BY <1>1, <1>2
  <2> QED BY <1>1, <1>2, <2>1, RoundsRescaled DEF Near
<1>3. CASE ~ n < 0
  <2>1. n \in Nat /\ m \in Nat
    BY <1>1, <1>3
  <2> QED BY <1>1, <1>3, <2>1, RoundsRescaled DEF Near
<1> QED BY <1>2, <1>3

\* Round rounds, whatever the sign.
LEMMA RoundIsNear ==
  ASSUME NEW num \in Int, NEW den \in Nat \ {0}, NEW e \in Int
  PROVE  /\ num * Up(e - MinUnit) \in Int /\ den * Down(e - MinUnit) \in Nat \ {0}
         /\ Round(num, den, e) \in Int
         /\ Near(Round(num, den, e), num * Up(e - MinUnit), den * Down(e - MinUnit))
<1> DEFINE f == e - MinUnit
           u == Up(f)
           d == den * Down(f)
           r == NearestTo(Abs(num), den, e)
<1>1. f \in Int /\ u \in Nat \ {0}
  <2>1. f \in Int
    BY FormatFacts
  <2> QED BY <2>1, UpDown
<1>2. Abs(num) \in Nat /\ Rounds(r, Abs(num) * u, d) /\ d \in Nat \ {0} /\ Abs(num) * u \in Nat
  <2>1. Abs(num) \in Nat
    BY AbsFacts
  <2> QED BY <2>1, NearestRounds
<1>3. r \in 0 .. Infinity /\ Infinity \in Nat
  BY <1>2, FormatFacts DEF Rounds
<1>4. Round(num, den, e) = Sign(num) * r
  BY DEF Round
<1> HIDE DEF f, u, d, r
<1>5. CASE num < 0
  <2>1. Sign(num) = -1 /\ Abs(num) = - num
    BY <1>5, AbsFacts DEF Sign
  <2>2. Round(num, den, e) = - r /\ - (- r) = r
    BY <1>3, <1>4, <2>1
  <2>3. - (num * u) = (- num) * u
    BY <1>1
  <2>4. num * u < 0 * u /\ 0 * u = 0
    BY <1>1, <1>5, Cancels
  <2>5. num * u < 0 /\ num * u \in Int
    BY <1>1, <2>4
  <2> QED BY <1>2, <1>3, <2>1, <2>2, <2>3, <2>5 DEF Near, f, u, d
<1>6. CASE ~ num < 0
  <2>1. Sign(num) = 1 /\ Abs(num) = num
    BY <1>6, AbsFacts DEF Sign
  <2>2. Round(num, den, e) = r
    BY <1>3, <1>4, <2>1
  <2>3. num * u \in Nat /\ ~ num * u < 0
    BY <1>2, <2>1
  <2> QED BY <1>2, <1>3, <2>1, <2>2, <2>3 DEF Near, f, u, d
<1> QED BY <1>5, <1>6

\* One least unit is 1 / Unity.
Unity == 2 ^ Depth

\* The numbers of 0, 1, 2 and Infinity in least units, and how far exp's limit is from the last.
LEMMA Landmarks ==
  /\ Unity \in Nat \ {0} /\ Unity >= 2
  /\ One \in 2 .. Infinity - 1 /\ Number(One) = Unity
  /\ Two \in One + 1 .. Infinity - 1 /\ Number(Two) = 2 * Unity
  /\ Number(Infinity) = 2 ^ TopExponent * Unity
  /\ Number(0) = 0 /\ Number(1) = 1
  /\ TopExponent \in Nat /\ TopExponent >= 2
  /\ Infinity \in Nat /\ Infinity > 0
<1>1. /\ Precision \in Nat /\ Precision >= 2 /\ Depth \in Nat /\ Depth >= 1 /\ Depth >= Precision - 1 /\ Binades \in Nat
      /\ MinUnit = - Depth /\ Leading \in Nat /\ Leading >= 2 /\ Infinity \in Nat /\ Infinity > 0
      /\ Leading = 2 ^ (Precision - 1)
  BY FormatFacts, FormatAssumption DEF Leading
<1>2. Unity \in Nat \ {0} /\ Unity >= 2
  <2>1. 1 <= Depth /\ 0 < Depth /\ 0 \in Nat
    BY <1>1
  <2>2. 2 * 2 ^ 0 <= 2 ^ Depth
    BY <1>1, <2>1, PowerBelow
  <2> QED BY <1>1, <2>2, PowerZero, PowerIsPositive DEF Unity
<1>3. TopExponent \in Nat /\ TopExponent >= 2
  BY RangeAssumption
<1>4. ASSUME NEW u \in Nat
      PROVE  /\ Pattern(Leading, MinUnit + u) = u * Leading + Leading
             /\ Value(Pattern(Leading, MinUnit + u)) = Leading * 2 ^ u
             /\ Leading * 2 ^ u = 2 ^ ((Precision - 1) + u)
  <2>1. Leading <= 2 * Leading /\ Leading >= Leading
    BY <1>1
  <2>2. Precision - 1 \in Nat
    BY <1>1
  <2> QED BY <1>1, <2>1, <2>2, ValueOfPattern, PowerSum
<1>5. One \in Nat /\ Value(One) = Unity
  <2> DEFINE u == 1 - Precision + Depth
  <2>1. u \in Nat /\ MinUnit + u = 1 - Precision /\ (Precision - 1) + u = Depth
    BY <1>1
  <2>2. One = u * Leading + Leading /\ Value(One) = 2 ^ Depth
    BY <1>4, <2>1 DEF One
  <2> HIDE DEF u
  <2> QED BY <1>1, <2>1, <2>2 DEF Unity
<1>6. Two \in Nat /\ Value(Two) = 2 * Unity
  <2> DEFINE u == 2 - Precision + Depth
  <2>1. u \in Nat /\ MinUnit + u = 2 - Precision /\ (Precision - 1) + u = Depth + 1
    BY <1>1
  <2>2. Two = u * Leading + Leading /\ Value(Two) = 2 ^ (Depth + 1)
    BY <1>4, <2>1 DEF Two
  <2> HIDE DEF u
  <2> QED BY <1>1, <2>1, <2>2, PowerStep DEF Unity
<1>7. Value(Infinity) = 2 ^ TopExponent * Unity
  <2> DEFINE u == Binades + 1
  <2>1. u \in Nat /\ (Precision - 1) + u = TopExponent + Depth
    BY <1>1 DEF TopExponent
  <2>2. Infinity = u * Leading + Leading
    BY <1>1 DEF Infinity
  <2>3. Value(Infinity) = 2 ^ (TopExponent + Depth)
    BY <1>4, <2>1, <2>2
  <2> QED BY <1>1, <1>3, <2>3, PowerSum DEF Unity
<1>8. Value(0) = 0 /\ Value(1) = 1
  <2>1. 0 \in Nat /\ 0 < 2 * Leading /\ 1 \in Nat /\ 1 < 2 * Leading
    BY <1>1
  <2>2. MagnitudeOf(0) = 0 /\ Gap(0) = 1 /\ MagnitudeOf(1) = 1 /\ Gap(1) = 1
    BY <2>1, CodeFacts
  <2> QED BY <2>2 DEF Value
<1>9. 1 < One /\ One < Two /\ Two < Infinity
  <2>1. Value(1) < Value(One) /\ Value(One) < Value(Two)
    BY <1>2, <1>5, <1>6, <1>8
  <2>2. Value(Two) < Value(Infinity)
    <3>1. 2 ^ TopExponent >= 4 /\ 2 ^ TopExponent \in Nat
      <4>1. TopExponent \in Nat /\ 2 <= TopExponent
        BY RangeAssumption
      <4>2. 0 \in Nat /\ 1 \in Nat /\ 2 \in Nat /\ 0 + 1 = 1 /\ 1 + 1 = 2
        OBVIOUS
      <4>3. 2 ^ 1 = 2 * 2 ^ 0 /\ 2 ^ 2 = 2 * 2 ^ 1
        BY <4>2, PowerStep
      <4>4. 2 ^ 2 = 4
        BY <4>3, PowerZero
      <4>5. 2 ^ 2 <= 2 ^ TopExponent /\ 2 ^ TopExponent \in Nat \ {0}
        BY <4>1, <4>2, PowerUpTo, PowerIsPositive
      <4> QED BY <4>4, <4>5
    <3>2. 4 * Unity <= 2 ^ TopExponent * Unity
      BY <1>2, <3>1, Cancels
    <3>3. 2 ^ TopExponent * Unity \in Int
      BY <1>2, <3>1
    <3> HIDE <3>1
    <3> QED BY <1>2, <1>6, <1>7, <3>2, <3>3
  <2> QED BY <1>1, <1>5, <1>6, <2>1, <2>2, ValueClimbs
<1>10. Number(One) = Value(One) /\ Number(Two) = Value(Two) /\ Number(Infinity) = Value(Infinity)
       /\ Number(0) = Value(0) /\ Number(1) = Value(1)
  BY <1>1, <1>5, <1>6 DEF Number
<1> QED BY <1>1, <1>2, <1>3, <1>5, <1>6, <1>7, <1>8, <1>9, <1>10

\* Offsets climb with the codes.
LEMMA OffsetClimbs ==
  ASSUME NEW c \in Nat, NEW d \in Nat, c <= d
  PROVE  Offset(c) <= Offset(d)
<1> DEFINE o == Offset(c)
           g == MagnitudeOf(c)
           p == Offset(d)
           h == MagnitudeOf(d)
<1>1. /\ o \in Nat /\ g \in 0 .. 2 * Leading - 1 /\ c = o * Leading + g /\ o * Leading \in Nat
      /\ o # 0 => g >= Leading
      /\ p \in Nat /\ h \in 0 .. 2 * Leading - 1 /\ d = p * Leading + h /\ p * Leading \in Nat
  BY CodeFacts
<1>2. Leading \in Nat \ {0}
  BY FormatFacts
<1> HIDE DEF o, g, p, h
<1>3. SUFFICES ASSUME p < o PROVE FALSE
  BY <1>1 DEF o, p
<1>4. p + 1 <= o => (p + 1) * Leading <= o * Leading
  BY <1>1, <1>2, Products
<1>5. (p + 1) * Leading = p * Leading + Leading
  BY <1>1, <1>2
<1> QED BY <1>1, <1>2, <1>3, <1>4, <1>5

\* What is less than a quarter of the spacing away rounds to where it was.
LEMMA StaysPut ==
  ASSUME NEW x \in Int, x # 0, - Infinity < x, x < Infinity, Offset(Abs(x)) # 0,
         NEW z \in Int, 4 * z < Gap(Abs(x)), - Gap(Abs(x)) < 4 * z
  PROVE  Near(x, Number(x) + z, 1)
<1>1. ASSUME NEW c \in Nat, c < Infinity, Offset(c) # 0, NEW y \in Int, 4 * y < Gap(c), - Gap(c) < 4 * y
      PROVE  Value(c) + y \in Nat \ {0} /\ Rounds(c, Value(c) + y, 1)
  <2>1. /\ Offset(c) \in Nat /\ Gap(c) \in Nat \ {0} /\ Value(c) \in Nat /\ MagnitudeOf(c) \in Nat /\ MagnitudeOf(c) >= 2
        /\ Gap(c) = 2 ^ Offset(c) /\ Infinity \in Nat
    BY <1>1, CodeFacts, FormatFacts DEF Gap
  <2>2. c - 1 \in Nat /\ c > 0
    <3>1. c # 0
      <4>1. 0 < 2 * Leading /\ 0 \in Nat
        BY FormatFacts
      <4> QED BY <1>1, <4>1, CodeFacts
    <3> QED BY <3>1
  <2>3. Value(c) = Value(c - 1) + Gap(c - 1) /\ Value(c - 1) \in Nat /\ Gap(c - 1) \in Nat
    <3>1. Value((c - 1) + 1) = Value(c - 1) + Gap(c - 1) /\ (c - 1) + 1 = c
      BY <2>2, ValueStep
    <3> QED BY <2>2, <3>1, CodeFacts
  <2>4. Value(c + 1) = Value(c) + Gap(c)
    BY ValueStep
  <2>5. Gap(c) <= 2 * Gap(c - 1)
    <3> DEFINE o == Offset(c)
               p == Offset(c - 1)
    <3>1. o \in Nat /\ p \in Nat /\ c = o * Leading + MagnitudeOf(c) /\ o * Leading \in Nat
          /\ c - 1 = p * Leading + MagnitudeOf(c - 1) /\ p * Leading \in Nat
          /\ MagnitudeOf(c) >= Leading /\ MagnitudeOf(c - 1) <= 2 * Leading - 1
          /\ MagnitudeOf(c) \in Nat /\ MagnitudeOf(c - 1) \in Nat
      <4>1. /\ o \in Nat /\ c = o * Leading + MagnitudeOf(c) /\ o * Leading \in Nat
            /\ MagnitudeOf(c) >= Leading /\ MagnitudeOf(c) \in 0 .. 2 * Leading - 1
        BY <1>1, CodeFacts
      <4>2. /\ p \in Nat /\ c - 1 = p * Leading + MagnitudeOf(c - 1) /\ p * Leading \in Nat
            /\ MagnitudeOf(c - 1) \in 0 .. 2 * Leading - 1
        BY <2>2, CodeFacts
      <4> HIDE DEF o, p
      <4>3. Leading \in Nat
        BY FormatFacts
      <4> QED BY <4>1, <4>2, <4>3
    <3>2. Leading \in Nat \ {0}
      BY FormatFacts
    <3> HIDE DEF o, p
    <3>3. p + 2 <= o => (p + 2) * Leading <= o * Leading
      BY <3>1, <3>2, Products
    <3>4. (p + 2) * Leading = p * Leading + 2 * Leading
      BY <3>1, <3>2
    <3>5. o <= p + 1
      BY <3>1, <3>2, <3>3, <3>4
    <3>6. 2 ^ o <= 2 ^ (p + 1) /\ 2 ^ (p + 1) = 2 * 2 ^ p
      BY <3>1, <3>5, PowerUpTo, PowerStep
    <3> QED BY <3>6 DEF Gap, o, p
  <2>6. Value(c) >= 2 * Gap(c)
    <3> DEFINE g == Gap(c)
               m == MagnitudeOf(c)
    <3>1. g \in Nat /\ m \in Nat /\ 2 <= m
      BY <2>1
    <3> HIDE DEF g, m
    <3>2. 2 * g <= m * g /\ m * g \in Int
      BY <3>1, Products
    <3> QED BY <3>2 DEF g, m, Value
  <2> DEFINE g == Gap(c)
             h == Gap(c - 1)
             v == Value(c)
             w == Value(c - 1)
             s == Value(c + 1)
  <2>7. /\ g \in Nat \ {0} /\ h \in Nat /\ v \in Nat /\ w \in Nat /\ v = w + h /\ s = v + g /\ g <= 2 * h /\ v >= 2 * g
        /\ 4 * y < g /\ - g < 4 * y
    BY <1>1, <2>1, <2>3, <2>4, <2>5, <2>6
  <2> HIDE DEF g, h, v, w, s
  <2>8. v + y \in Nat \ {0} /\ 2 * (v + y) < (v + s) * 1 /\ (w + v) * 1 < 2 * (v + y)
    BY <2>7
  <2> QED BY <1>1, <2>1, <2>2, <2>8 DEF Rounds, v, w, s
<1>2. CASE x > 0
  <2>1. x \in Nat /\ Abs(x) = x /\ Number(x) = Value(x)
    BY <1>2, AbsFacts DEF Number
  <2>2. Value(x) + z \in Nat \ {0} /\ Rounds(x, Value(x) + z, 1)
    BY <1>1, <2>1
  <2> QED BY <2>1, <2>2 DEF Near
<1>3. CASE x < 0
  <2>1. - x \in Nat /\ Abs(x) = - x /\ Number(x) = - Value(- x) /\ - x < Infinity
    BY <1>3, AbsFacts, FormatFacts DEF Number
  <2>2. - z \in Int /\ 4 * (- z) < Gap(- x) /\ - Gap(- x) < 4 * (- z)
    <3>1. Gap(- x) \in Int
      BY <2>1, CodeFacts
    <3> QED BY <2>1, <3>1
  <2>3. Value(- x) + (- z) \in Nat \ {0} /\ Rounds(- x, Value(- x) + (- z), 1)
    BY <1>1, <2>1, <2>2
  <2>4. Value(- x) \in Int
    BY <2>1, CodeFacts
  <2>5. Number(x) + z < 0 /\ - (Number(x) + z) = Value(- x) + (- z)
    BY <2>1, <2>3, <2>4
  <2> QED BY <2>3, <2>5 DEF Near
<1> QED BY <1>2, <1>3

\* The sum of two floats, the larger one first, is rounded once.
LEMMA SumIsNear ==
  ASSUME NEW x \in Int, - Infinity < x, x < Infinity, NEW y \in Int, Abs(y) <= Abs(x)
  PROVE  Sum(x, y) \in Int /\ Near(Sum(x, y), Number(x) + Number(y), 1)
<1> DEFINE ox == Offset(Abs(x))
           oy == Offset(Abs(y))
           apart == Unit(x) - Unit(y)
           far == 2 * Precision
<1>1. /\ Precision \in Nat /\ Precision >= 2 /\ MinUnit \in Int /\ Leading \in Nat /\ 2 * Leading = 2 ^ Precision
      /\ Infinity \in Nat
  BY FormatFacts
<1>2. /\ Abs(x) \in Nat /\ Abs(y) \in Nat /\ ox \in Nat /\ oy \in Nat /\ oy <= ox
      /\ Unit(x) = MinUnit + ox /\ Unit(y) = MinUnit + oy
      /\ Unit(x) \in Int /\ Unit(y) \in Int
  <2>1. Abs(x) \in Nat /\ Abs(y) \in Nat
    BY AbsFacts
  <2> QED BY <2>1, CodeFacts, OffsetClimbs DEF Unit
<1>3. apart = ox - oy /\ apart \in Nat /\ far \in Nat
  <2> HIDE DEF ox, oy
  <2>1. apart = ox - oy
    BY <1>1, <1>2
  <2> QED BY <1>1, <1>2, <2>1
<1>4. /\ Count(x) \in Int /\ Number(x) = Count(x) * 2 ^ ox /\ Number(x) \in Int
      /\ Count(y) \in Int /\ Number(y) = Count(y) * 2 ^ oy /\ Number(y) \in Int
  BY NumberFacts DEF Gap
<1>5. Sum(x, y) = IF apart < far THEN SumAt(x, y, apart, apart) ELSE SumAt(x, y, apart, far)
  BY DEF Sum, SumOf
<1> HIDE DEF ox, oy, apart, far
<1>6. ASSUME NEW s \in Nat, s <= apart, NEW k \in Int
      PROVE  /\ Round(Count(x) * 2 ^ s + k, 1, Unit(x) - s) \in Int
             /\ Near(Round(Count(x) * 2 ^ s + k, 1, Unit(x) - s), Number(x) + k * 2 ^ (ox - s), 1)
  <2> DEFINE num == Count(x) * 2 ^ s + k
             e == Unit(x) - s
             f == ox - s
  <2>1. 2 ^ s \in Nat /\ num \in Int /\ e \in Int /\ e - MinUnit = f /\ f \in Nat
    <3>1. 2 ^ s \in Nat
      BY PowerIsPositive
    <3>2. num \in Int
      BY <1>4, <3>1
    <3> QED BY <1>1, <1>2, <1>3, <1>6, <3>1, <3>2
  <2>2. Up(f) = 2 ^ f /\ Down(f) = 1 /\ 2 ^ f \in Nat
    BY <2>1, UpDown, PowerIsPositive
  <2>3. 1 * 1 = 1 /\ 1 \in Nat \ {0}
    OBVIOUS
  <2>4. Round(num, 1, e) \in Int /\ Near(Round(num, 1, e), num * 2 ^ f, 1)
    <3> HIDE DEF num, e, f
    <3>1. Round(num, 1, e) \in Int /\ Near(Round(num, 1, e), num * Up(e - MinUnit), 1 * Down(e - MinUnit))
      BY <2>1, <2>3, RoundIsNear
    <3> QED BY <2>1, <2>2, <2>3, <3>1
  <2>5. num * 2 ^ f = Number(x) + k * 2 ^ f
    <3>1. 2 ^ ox = 2 ^ s * 2 ^ f
      <4>1. s + f = ox
        BY <1>2, <2>1
      <4> QED BY <2>1, <4>1, PowerSum
    <3> DEFINE p == 2 ^ s
               q == 2 ^ f
               c == Count(x)
    <3>2. p \in Nat /\ q \in Nat /\ c \in Int /\ Number(x) = c * (p * q) /\ num = c * p + k
      BY <1>4, <2>1, <2>2, <3>1
    <3> HIDE DEF p, q, c, num, f
    <3>3. (c * p + k) * q = c * (p * q) + k * q
      BY <3>2
    <3>4. num * q = Number(x) + k * q
      BY <3>2, <3>3
    <3> QED BY <3>4 DEF q, f
  <2> QED BY <2>4, <2>5
<1>7. CASE apart <= far
  <2>1. Sum(x, y) = SumAt(x, y, apart, apart)
    <3>1. apart < far \/ apart = far
      BY <1>3, <1>7
    <3> QED BY <1>5, <3>1
  <2>2. Sum(x, y) = Round(Count(x) * 2 ^ apart + Count(y), 1, Unit(x) - apart)
    BY <2>1 DEF SumAt
  <2>3. ox - apart = oy
    BY <1>2, <1>3
  <2> QED BY <1>3, <1>4, <1>6, <2>2, <2>3
<1>8. CASE far < apart
  <2>1. Sum(x, y) = Round(Count(x) * 2 ^ far + Side(y), 1, Unit(x) - far)
    <3>1. ~ apart < far /\ apart # far
      BY <1>3, <1>8
    <3> QED BY <1>5, <3>1 DEF SumAt
  <2>2. Side(y) \in {-1, 0, 1} /\ (y = 0 <=> Side(y) = 0)
    BY DEF Side, Sign
  <2> DEFINE f == ox - far
             r == Sum(x, y)
  <2>3. r \in Int /\ Near(r, Number(x) + Side(y) * 2 ^ f, 1)
    <3>1. Side(y) \in Int /\ far \in Nat /\ far <= apart
      BY <1>3, <1>8, <2>2
    <3> QED BY <1>6, <2>1, <3>1
  <2>4. f \in Nat /\ ox # 0 /\ oy + far < ox
    BY <1>2, <1>3, <1>8
  <2>5. CASE y = 0
    <3>1. Side(y) = 0 /\ Number(y) = 0 /\ 2 ^ f \in Nat
      BY <2>2, <2>4, <2>5, NumberFacts, PowerIsPositive
    <3>2. Number(x) + Side(y) * 2 ^ f = Number(x) + Number(y)
      <4> DEFINE p == 2 ^ f
      <4>1. p \in Nat
        BY <3>1
      <4> HIDE DEF p, f
      <4>2. 0 * p = 0
        BY <4>1
      <4> QED BY <1>4, <3>1, <4>2 DEF p
    <3> QED BY <2>3, <3>2
  <2>6. CASE y # 0
    <3>1. x # 0
      <4> SUFFICES ASSUME x = 0 PROVE FALSE
        OBVIOUS
      <4>1. Abs(x) = 0 /\ Abs(y) # 0
        BY <2>6, AbsFacts
      <4> QED BY <1>2, <4>1
    <3>2. Gap(Abs(x)) = 2 ^ ox /\ 2 ^ ox \in Nat
      BY <1>2, PowerIsPositive DEF Gap, ox
    <3>3. 4 * 2 ^ f < 2 ^ ox /\ 2 ^ f \in Nat
      <4>1. f + 2 < ox /\ f + 1 \in Nat /\ f + 2 \in Nat
        <5>1. far >= 4
          BY <1>1 DEF far
        <5> QED BY <1>2, <1>3, <2>4, <5>1
      <4>2. 2 ^ (f + 1) = 2 * 2 ^ f /\ 2 ^ ((f + 1) + 1) = 2 * 2 ^ (f + 1) /\ 2 ^ f \in Nat \ {0}
        BY <2>4, <4>1, PowerStep, PowerIsPositive
      <4>3. 2 * 2 ^ (f + 2) <= 2 ^ ox
        BY <1>2, <4>1, PowerBelow
      <4>4. (f + 1) + 1 = f + 2
        BY <2>4
      <4> HIDE DEF f
      <4> QED BY <3>2, <4>2, <4>3, <4>4
    <3>4. Near(x, Number(x) + Side(y) * 2 ^ f, 1)
      <4> DEFINE z == Side(y) * 2 ^ f
      <4>1. z \in Int /\ 4 * z < 2 ^ ox /\ - 2 ^ ox < 4 * z
        <5> DEFINE p == 2 ^ f
                   q == 2 ^ ox
        <5>1. p \in Nat /\ q \in Nat /\ 4 * p < q
          BY <3>2, <3>3
        <5> HIDE DEF p, q, f
        <5>2. Side(y) * p \in Int /\ 4 * (Side(y) * p) < q /\ - q < 4 * (Side(y) * p)
          BY <2>2, <5>1
        <5> QED BY <5>2 DEF p, q
      <4> HIDE DEF z
      <4>2. Near(x, Number(x) + z, 1)
        BY <1>2, <2>4, <3>1, <3>2, <4>1, StaysPut DEF ox
      <4> QED BY <4>2 DEF z
    <3>5. Near(x, Number(x) + Number(y), 1)
      <4>1. Number(y) \in Int /\ 4 * Number(y) < 2 ^ ox /\ - 2 ^ ox < 4 * Number(y)
        <5>1. Number(y) = Value(Abs(y)) \/ Number(y) = - Value(Abs(y))
          BY AbsFacts DEF Number
        <5>2. Value(Abs(y)) \in Nat /\ Value(Abs(y)) = MagnitudeOf(Abs(y)) * 2 ^ oy
              /\ MagnitudeOf(Abs(y)) \in 0 .. 2 * Leading - 1
          BY <1>2, CodeFacts DEF Value, Gap, oy
        <5>3. 4 * Value(Abs(y)) < 2 ^ ox
          <6> DEFINE m == MagnitudeOf(Abs(y))
                     p == 2 ^ oy
          <6>1. p \in Nat \ {0} /\ m \in Nat /\ m < 2 ^ Precision /\ 2 ^ Precision \in Nat
            BY <1>1, <1>2, <5>2, PowerIsPositive
          <6>2. 2 ^ (Precision + oy) = 2 ^ Precision * p
            BY <1>1, <1>2, PowerSum
          <6>3. m * p < 2 ^ Precision * p
            <7> HIDE DEF m, p
            <7> QED BY <6>1, Cancels
          <6> DEFINE j == Precision + oy
          <6>4. j \in Nat /\ j + 1 \in Nat /\ j + 2 \in Nat /\ (j + 1) + 1 = j + 2 /\ j + 2 <= ox
            <7>1. far >= Precision + 2
              BY <1>1 DEF far
            <7> QED BY <1>1, <1>2, <1>3, <2>4, <7>1
          <6>5. 2 ^ (j + 1) = 2 * 2 ^ j /\ 2 ^ ((j + 1) + 1) = 2 * 2 ^ (j + 1) /\ 2 ^ j \in Nat \ {0}
            BY <6>4, PowerStep, PowerIsPositive
          <6>6. 2 ^ (j + 2) <= 2 ^ ox
            BY <1>2, <6>4, PowerUpTo
          <6>7. Value(Abs(y)) < 2 ^ j
            BY <5>2, <6>2, <6>3
          <6> HIDE DEF j, m, p
          <6> QED BY <3>2, <5>2, <6>4, <6>5, <6>6, <6>7
        <5> QED BY <1>4, <3>2, <5>1, <5>2, <5>3
      <4> QED BY <1>2, <2>4, <3>1, <3>2, <4>1, StaysPut DEF ox
    <3>6. r = x
      <4> DEFINE n == Number(x) + Side(y) * 2 ^ f
      <4>1. n \in Int /\ n * 1 <= n * 1 /\ 1 \in Nat \ {0}
        <5> DEFINE p == 2 ^ f
        <5>1. p \in Nat
          BY <3>3
        <5> HIDE DEF p, f
        <5>2. Number(x) + Side(y) * p \in Int
          BY <1>4, <2>2, <5>1
        <5>3. \A i \in Int : i * 1 <= i * 1
          OBVIOUS
        <5> QED BY <5>2, <5>3 DEF p
      <4>2. Near(r, n, 1) /\ Near(x, n, 1)
        BY <2>3, <3>4
      <4> HIDE DEF n, r
      <4>3. r <= x /\ x <= r
        BY <2>3, <4>1, <4>2, NearClimbs DEF r
      <4> QED BY <2>3, <4>3 DEF r
    <3> QED BY <2>3, <3>5, <3>6
  <2> QED BY <2>5, <2>6
<1> QED BY <1>3, <1>7, <1>8

\* The codes with names, and which codes are finite.
LEMMA FiniteFacts ==
  /\ Infinity \in Int /\ - Infinity \in Int /\ Infinity > 0 /\ - Infinity < 0
  /\ Infinity \in Codes /\ - Infinity \in Codes /\ 0 \in Codes /\ 1 \in Codes /\ One \in Codes /\ Two \in Codes
  /\ NaN \notin Codes /\ NaN \notin Int
  /\ \A x \in Codes : /\ x \in Int /\ - x \in Codes /\ Neg(x) = - x /\ x # NaN
                      /\ Finite(x) <=> x # Infinity /\ x # - Infinity
                      /\ ~ Finite(x) => x = Infinity \/ x = - Infinity
                      /\ (Abs(x) = Infinity <=> ~ Finite(x)) /\ (Finite(- x) <=> Finite(x))
  /\ Finite(0) /\ Finite(One) /\ Finite(Two) /\ Finite(- One) /\ 0 < One /\ One < Two /\ 1 < One /\ Two < Infinity
  /\ One \in Int /\ Two \in Int
<1>1. Infinity \in Nat /\ Infinity > 0 /\ One \in 2 .. Infinity - 1 /\ Two \in One + 1 .. Infinity - 1 /\ NaN \notin Int
  BY Landmarks, FormatAssumption
<1>2. /\ Infinity \in Int /\ - Infinity \in Int /\ - Infinity < 0 /\ 1 < One /\ One < Two /\ Two < Infinity
      /\ One \in Int /\ Two \in Int
  BY <1>1
<1>3. \A x \in Codes : /\ x \in Int /\ - x \in Codes /\ Neg(x) = - x /\ x # NaN
                       /\ Finite(x) <=> x # Infinity /\ x # - Infinity
                       /\ ~ Finite(x) => x = Infinity \/ x = - Infinity
                       /\ (Abs(x) = Infinity <=> ~ Finite(x)) /\ (Finite(- x) <=> Finite(x))
  <2> TAKE x \in Codes
  <2>1. x \in Int /\ - x \in Int /\ - x \in Codes /\ - Infinity <= x /\ x <= Infinity /\ x # NaN /\ - x # NaN
    BY <1>1, <1>2 DEF Codes
  <2>2. Finite(x) <=> x # Infinity /\ x # - Infinity
    BY <1>2, <2>1 DEF Finite
  <2>3. Finite(- x) <=> Finite(x)
    BY <1>2, <2>1 DEF Finite
  <2>4. Abs(x) = Infinity <=> ~ Finite(x)
    <3>1. CASE x < 0
      BY <1>1, <1>2, <2>1, <3>1 DEF Finite, Abs
    <3>2. CASE ~ x < 0
      BY <1>1, <1>2, <2>1, <3>2 DEF Finite, Abs
    <3> QED BY <3>1, <3>2
  <2>5. Neg(x) = - x
    BY <2>1 DEF Neg
  <2> QED BY <2>1, <2>2, <2>3, <2>4, <2>5
<1>4. /\ Infinity \in Codes /\ - Infinity \in Codes /\ 0 \in Codes /\ 1 \in Codes /\ One \in Codes /\ Two \in Codes
  BY <1>1, <1>2 DEF Codes
<1>5. Finite(0) /\ Finite(One) /\ Finite(Two)
  BY <1>1, <1>2 DEF Finite
<1>6. Finite(- One)
  BY <1>3, <1>4, <1>5
<1>7. NaN \notin Codes
  BY <1>3
<1> QED BY <1>1, <1>2, <1>3, <1>4, <1>5, <1>6, <1>7

\* A sum of finite floats is the float nearest the sum of their numbers.
LEMMA AddFinite ==
  ASSUME NEW x \in Codes, NEW y \in Codes, Finite(x), Finite(y)
  PROVE  Add(x, y) \in Codes /\ Near(Add(x, y), Number(x) + Number(y), 1)
<1>1. /\ x \in Int /\ y \in Int /\ x # NaN /\ y # NaN /\ x # Infinity /\ y # Infinity /\ x # - Infinity /\ y # - Infinity
      /\ Abs(x) # Infinity /\ Abs(x) \in Nat /\ Abs(y) \in Nat
      /\ - Infinity < x /\ x < Infinity /\ - Infinity < y /\ y < Infinity
  BY FiniteFacts, AbsFacts DEF Finite
<1>2. Number(x) \in Int /\ Number(y) \in Int
  BY <1>1, NumberFacts
<1>3. CASE Abs(x) >= Abs(y)
  <2>1. Add(x, y) = Sum(x, y)
    BY <1>1, <1>3 DEF Add
  <2>2. Sum(x, y) \in Int /\ Near(Sum(x, y), Number(x) + Number(y), 1)
    BY <1>1, <1>3, SumIsNear
  <2>3. Number(x) + Number(y) \in Int /\ 1 \in Nat \ {0}
    BY <1>2
  <2>4. Sum(x, y) \in Codes
    BY <2>2, <2>3, NearIsCode
  <2> QED BY <2>1, <2>2, <2>4
<1>4. CASE ~ Abs(x) >= Abs(y)
  <2>1. Add(x, y) = Sum(y, x)
    BY <1>1, <1>4 DEF Add
  <2>2. Sum(y, x) \in Int /\ Near(Sum(y, x), Number(y) + Number(x), 1)
    BY <1>1, <1>4, SumIsNear
  <2>3. Number(x) + Number(y) \in Int /\ 1 \in Nat \ {0} /\ Number(y) + Number(x) = Number(x) + Number(y)
    BY <1>2
  <2>4. Sum(y, x) \in Codes
    BY <2>2, <2>3, NearIsCode
  <2> QED BY <2>1, <2>2, <2>3, <2>4
<1> QED BY <1>3, <1>4

\* A sum is a number unless its terms are opposite infinities.
LEMMA AddNumber ==
  ASSUME NEW x \in Codes, NEW y \in Codes, ~ (x = Infinity /\ y = - Infinity), ~ (x = - Infinity /\ y = Infinity)
  PROVE  /\ Add(x, y) \in Codes
         /\ Infinity \in {x, y} => Add(x, y) = Infinity
         /\ - Infinity \in {x, y} => Add(x, y) = - Infinity
<1>1. /\ x \in Int /\ y \in Int /\ x # NaN /\ y # NaN /\ Infinity \in Int /\ Infinity > 0 /\ - Infinity \in Int
      /\ Infinity \in Codes /\ - Infinity \in Codes /\ Infinity # - Infinity
      /\ (Abs(x) = Infinity <=> ~ Finite(x)) /\ (~ Finite(x) => x = Infinity \/ x = - Infinity)
      /\ (~ Finite(y) => y = Infinity \/ y = - Infinity)
  BY FiniteFacts
<1>2. ~ (Abs(x) = Infinity /\ y = - x)
  <2>1. - (- Infinity) = Infinity
    BY <1>1
  <2> QED BY <1>1, <2>1
<1>3. CASE Infinity \in {x, y}
  <2>1. Add(x, y) = Infinity
    BY <1>1, <1>2, <1>3 DEF Add
  <2> QED BY <1>1, <1>3, <2>1
<1>4. CASE - Infinity \in {x, y}
  <2>1. ~ Infinity \in {x, y}
    BY <1>1, <1>4
  <2>2. Add(x, y) = - Infinity
    BY <1>1, <1>2, <1>4, <2>1 DEF Add
  <2> QED BY <1>1, <1>4, <2>1, <2>2
<1>5. CASE ~ Infinity \in {x, y} /\ ~ - Infinity \in {x, y}
  <2>1. Finite(x) /\ Finite(y)
    BY <1>1, <1>5
  <2> QED BY <1>5, <2>1, AddFinite
<1> QED BY <1>3, <1>4, <1>5

\* So is a difference.
LEMMA SubFinite ==
  ASSUME NEW x \in Codes, NEW y \in Codes, Finite(x), Finite(y)
  PROVE  Sub(x, y) \in Codes /\ Near(Sub(x, y), Number(x) - Number(y), 1) /\ Number(x) - Number(y) \in Int
<1>1. - y \in Codes /\ Neg(y) = - y /\ Finite(- y) /\ x \in Int /\ y \in Int
  BY FiniteFacts
<1>2. Number(- y) = - Number(y) /\ Number(x) \in Int /\ Number(y) \in Int
  BY <1>1, NumberFacts
<1>3. Number(x) + Number(- y) = Number(x) - Number(y) /\ Number(x) - Number(y) \in Int
  BY <1>2
<1>4. Sub(x, y) = Add(x, - y)
  BY <1>1 DEF Sub
<1> QED BY <1>1, <1>3, <1>4, AddFinite

\* A difference is a number unless its terms are the same infinity, and has the sign of the order.
LEMMA SubNumber ==
  ASSUME NEW x \in Codes, NEW y \in Codes, ~ (x = Infinity /\ y = Infinity), ~ (x = - Infinity /\ y = - Infinity)
  PROVE  /\ Sub(x, y) \in Codes
         /\ x = Infinity \/ y = - Infinity => Sub(x, y) = Infinity
         /\ x = - Infinity \/ y = Infinity => Sub(x, y) = - Infinity
         /\ x <= y => Sub(x, y) <= 0
         /\ x >= y => Sub(x, y) >= 0
         /\ x > y => Sub(x, y) >= 1
<1>1. /\ x \in Int /\ y \in Int /\ - y \in Codes /\ Neg(y) = - y /\ Infinity \in Int /\ Infinity > 0
      /\ (~ Finite(x) => x = Infinity \/ x = - Infinity) /\ (~ Finite(y) => y = Infinity \/ y = - Infinity)
      /\ - Infinity <= x /\ x <= Infinity /\ - Infinity <= y /\ y <= Infinity
  BY FiniteFacts DEF Codes
<1>2. Sub(x, y) = Add(x, - y)
  BY <1>1 DEF Sub
<1>3. /\ ~ (x = Infinity /\ - y = - Infinity) /\ ~ (x = - Infinity /\ - y = Infinity)
      /\ y = Infinity => - y = - Infinity
      /\ y = - Infinity => - y = Infinity
  BY <1>1
<1>4. /\ Add(x, - y) \in Codes
      /\ Infinity \in {x, - y} => Add(x, - y) = Infinity
      /\ - Infinity \in {x, - y} => Add(x, - y) = - Infinity
  BY <1>1, <1>3, AddNumber
<1>5. /\ Sub(x, y) \in Codes
      /\ x = Infinity \/ y = - Infinity => Sub(x, y) = Infinity
      /\ x = - Infinity \/ y = Infinity => Sub(x, y) = - Infinity
  BY <1>2, <1>3, <1>4
<1>6. CASE Finite(x) /\ Finite(y)
  <2>1. Near(Sub(x, y), Number(x) - Number(y), 1) /\ Number(x) - Number(y) \in Int /\ Sub(x, y) \in Codes
    BY <1>6, SubFinite
  <2>2. Sub(x, y) \in Int /\ 1 \in Nat \ {0} /\ Number(1) = 1 /\ 1 \in Codes
    <3>1. Sub(x, y) \in Int
      BY <2>1, FiniteFacts
    <3>2. 1 \in Nat \ {0}
      OBVIOUS
    <3> QED BY <3>1, <3>2, FiniteFacts, Landmarks
  <2>3. Number(x) \in Int /\ Number(y) \in Int /\ (x <= y <=> Number(x) <= Number(y)) /\ (y <= x <=> Number(y) <= Number(x))
        /\ (y < x <=> Number(y) < Number(x))
    BY <1>1, NumberFacts, NumberClimbs
  <2>4. x <= y => Sub(x, y) <= 0
    BY <2>1, <2>2, <2>3, NearIsCode
  <2>5. x >= y => Sub(x, y) >= 0
    BY <1>1, <2>1, <2>2, <2>3, NearIsCode
  <2>6. x > y => Sub(x, y) >= 1
    <3>1. x > y => Number(1) * 1 <= Number(x) - Number(y)
      BY <1>1, <2>2, <2>3
    <3>2. Number(1) * 1 <= Number(x) - Number(y) => 1 <= Sub(x, y)
      BY <2>1, <2>2, NearAgainst
    <3> QED BY <2>2, <3>1, <3>2
  <2> QED BY <1>5, <2>4, <2>5, <2>6
<1>7. CASE ~ (Finite(x) /\ Finite(y))
  BY <1>1, <1>5, <1>7
<1> QED BY <1>6, <1>7

\* A product of finite floats is the float nearest the product of their numbers.
LEMMA MulFinite ==
  ASSUME NEW x \in Codes, NEW y \in Codes, Finite(x), Finite(y)
  PROVE  Mul(x, y) \in Codes /\ Near(Mul(x, y), Number(x) * Number(y), Unity) /\ Number(x) * Number(y) \in Int
<1> DEFINE ox == Offset(Abs(x))
           oy == Offset(Abs(y))
           num == Count(x) * Count(y)
           e == Unit(x) + Unit(y)
           f == ox + oy + (- Depth)
<1>1. x \in Int /\ y \in Int /\ x # NaN /\ y # NaN /\ Abs(x) \in Nat /\ Abs(y) \in Nat
  BY FiniteFacts, AbsFacts
<1>2. Mul(x, y) = Round(num, 1, e)
  BY <1>1 DEF Mul
<1>3. /\ ox \in Nat /\ oy \in Nat /\ Unit(x) = MinUnit + ox /\ Unit(y) = MinUnit + oy
      /\ MinUnit = - Depth /\ Depth \in Nat
  BY <1>1, CodeFacts, FormatFacts DEF Unit
<1>4. /\ Count(x) \in Int /\ Number(x) = Count(x) * 2 ^ ox /\ Number(x) \in Int
      /\ Count(y) \in Int /\ Number(y) = Count(y) * 2 ^ oy /\ Number(y) \in Int
  BY <1>1, NumberFacts DEF Gap
<1> HIDE DEF ox, oy
<1>5. e \in Int /\ e - MinUnit = f /\ f \in Int /\ num \in Int /\ - Depth \in Int /\ ox + oy \in Int
  BY <1>3, <1>4
<1>6. Round(num, 1, e) \in Int /\ Near(Round(num, 1, e), num * Up(f), 1 * Down(f))
  <2> HIDE DEF num, e, f
  <2>1. 1 \in Nat \ {0}
    OBVIOUS
  <2>2. Round(num, 1, e) \in Int /\ Near(Round(num, 1, e), num * Up(e - MinUnit), 1 * Down(e - MinUnit))
    BY <1>5, <2>1, RoundIsNear
  <2> QED BY <1>5, <2>2
<1>7. Up(f) * Unity = Down(f) * (2 ^ ox * 2 ^ oy) /\ Up(f) \in Nat \ {0} /\ Down(f) \in Nat \ {0}
      /\ 2 ^ ox \in Nat /\ 2 ^ oy \in Nat /\ Unity \in Nat \ {0}
  <2>1. Up(ox + oy + (- Depth)) * (Down(ox + oy) * Down(- Depth)) = Down(ox + oy + (- Depth)) * (Up(ox + oy) * Up(- Depth))
    BY <1>5, UpDownSum
  <2>2. Down(ox + oy) = 1 /\ Up(ox + oy) = 2 ^ ox * 2 ^ oy
    <3>1. ox + oy >= 0 /\ 2 ^ (ox + oy) = 2 ^ ox * 2 ^ oy
      BY <1>3, PowerSum
    <3> QED BY <1>5, <3>1, UpDown
  <2>3. Up(- Depth) = 1 /\ Down(- Depth) = Unity
    <3>1. - Depth <= 0 /\ - (- Depth) = Depth
      BY <1>3
    <3> QED BY <1>5, <3>1, UpDown DEF Unity
  <2>4. Up(f) \in Nat \ {0} /\ Down(f) \in Nat \ {0} /\ 2 ^ ox \in Nat /\ 2 ^ oy \in Nat /\ Unity \in Nat \ {0}
    BY <1>3, <1>5, UpDown, PowerIsPositive, Landmarks
  <2>5. Up(f) * (1 * Unity) = Down(f) * ((2 ^ ox * 2 ^ oy) * 1)
    BY <2>1, <2>2, <2>3
  <2> DEFINE p == 2 ^ ox * 2 ^ oy
  <2>6. p \in Nat
    BY <2>4
  <2> HIDE DEF p, f
  <2>7. Up(f) * Unity = Down(f) * p
    BY <2>4, <2>5, <2>6 DEF p
  <2> QED BY <2>4, <2>7 DEF p
<1>8. (num * Up(f)) * Unity = (Number(x) * Number(y)) * (1 * Down(f)) /\ num * Up(f) \in Int /\ 1 * Down(f) \in Nat \ {0}
      /\ Number(x) * Number(y) \in Int
  <2> DEFINE u == Up(f)
             d == Down(f)
             p == 2 ^ ox
             q == 2 ^ oy
             a == Count(x)
             b == Count(y)
  <2>1. u \in Nat \ {0} /\ d \in Nat \ {0} /\ p \in Nat /\ q \in Nat /\ a \in Int /\ b \in Int /\ u * Unity = d * (p * q)
        /\ Number(x) = a * p /\ Number(y) = b * q /\ Unity \in Nat \ {0} /\ num = a * b
    BY <1>4, <1>7
  <2> HIDE DEF u, d, p, q, a, b, num, f
  <2>2. ((a * b) * u) * Unity = (a * b) * (u * Unity) /\ ((a * p) * (b * q)) * (1 * d) = (a * b) * (d * (p * q))
        /\ (a * b) * u \in Int /\ 1 * d \in Nat \ {0} /\ (a * p) * (b * q) \in Int
    BY <2>1
  <2> QED BY <2>1, <2>2 DEF u, d
<1>9. Near(Round(num, 1, e), Number(x) * Number(y), Unity)
  <2> DEFINE r == Round(num, 1, e)
             n == num * Up(f)
             d == 1 * Down(f)
             m == Number(x) * Number(y)
  <2>1. r \in Int /\ n \in Int /\ d \in Nat \ {0} /\ m \in Int /\ Unity \in Nat \ {0} /\ Near(r, n, d) /\ n * Unity = m * d
    BY <1>6, <1>7, <1>8
  <2> HIDE DEF r, n, d, m
  <2>2. Near(r, m, Unity)
    BY <2>1, NearRescaled
  <2> QED BY <2>2 DEF r, m
<1>10. Round(num, 1, e) \in Codes
  <2> HIDE DEF num, e, f
  <2> QED BY <1>6, <1>7, <1>8, <1>9, NearIsCode
<1> QED BY <1>2, <1>8, <1>9, <1>10

\* Zero has one sign.
LEMMA MinusZero ==
  \A i \in Int : (i <= 0 /\ i >= 0 => i = 0 /\ - i = 0) /\ (i = 0 => - i = 0)
<1>1. \A i \in Int : i + i = 0 => - i = 0
  OBVIOUS
<1>2. \A i \in Int : i <= 0 /\ i >= 0 => i = 0 /\ i + i = 0
  OBVIOUS
<1>3. \A i \in Int : i = 0 => i + i = 0
  OBVIOUS
<1> QED BY <1>1, <1>2, <1>3

\* The sign of a product of integers.
LEMMA SignOfProduct ==
  ASSUME NEW x \in Int, NEW y \in Int
  PROVE  /\ x * y \in Int
         /\ x >= 0 /\ y >= 0 => x * y >= 0
         /\ x <= 0 /\ y >= 0 => x * y <= 0
         /\ x >= 0 /\ y <= 0 => x * y <= 0
         /\ x <= 0 /\ y <= 0 => x * y >= 0
OBVIOUS

\* A product is a number unless it is of 0 and an infinity.
LEMMA MulNumber ==
  ASSUME NEW x \in Codes, NEW y \in Codes, x = 0 => Finite(y), y = 0 => Finite(x)
  PROVE  /\ Mul(x, y) \in Codes
         /\ x >= 0 /\ y >= 0 => Mul(x, y) >= 0
         /\ x <= 0 /\ y >= 0 => Mul(x, y) <= 0
         /\ x >= 0 /\ y <= 0 => Mul(x, y) <= 0
         /\ ~ Finite(x) \/ ~ Finite(y) => Mul(x, y) = Infinity \/ Mul(x, y) = - Infinity
<1>1. /\ x \in Int /\ y \in Int /\ Infinity \in Int /\ Infinity > 0 /\ - Infinity \in Int /\ - Infinity < 0
      /\ Infinity \in Codes /\ - Infinity \in Codes /\ x # NaN /\ y # NaN
      /\ (~ Finite(x) => x # 0) /\ (~ Finite(y) => y # 0)
  BY FiniteFacts
<1>2. CASE Finite(x) /\ Finite(y)
  <2>1. Mul(x, y) \in Codes /\ Near(Mul(x, y), Number(x) * Number(y), Unity) /\ Number(x) * Number(y) \in Int
    BY <1>2, MulFinite
  <2>2. Mul(x, y) \in Int /\ Unity \in Nat \ {0}
    BY <2>1, FiniteFacts, Landmarks
  <2>3. /\ Number(x) * Number(y) >= 0 => Mul(x, y) >= 0
        /\ Number(x) * Number(y) <= 0 => Mul(x, y) <= 0
    BY <2>1, <2>2, NearIsCode
  <2>4. /\ Number(x) \in Int /\ Number(y) \in Int
        /\ x >= 0 => Number(x) >= 0
        /\ y >= 0 => Number(y) >= 0
        /\ x <= 0 => Number(x) <= 0
        /\ y <= 0 => Number(y) <= 0
    BY <1>1, NumberFacts
  <2>5. /\ x >= 0 /\ y >= 0 => Number(x) * Number(y) >= 0
        /\ x <= 0 /\ y >= 0 => Number(x) * Number(y) <= 0
        /\ x >= 0 /\ y <= 0 => Number(x) * Number(y) <= 0
    BY <2>4, SignOfProduct
  <2> QED BY <1>2, <2>1, <2>3, <2>5
<1>3. CASE ~ (Finite(x) /\ Finite(y))
  <2>1. x # 0 /\ y # 0
    BY <1>1, <1>3
  <2>2. Mul(x, y) = IF (x < 0) # (y < 0) THEN - Infinity ELSE Infinity
    BY <1>1, <1>3, <2>1 DEF Mul, Signed
  <2> QED BY <1>1, <2>1, <2>2
<1> QED BY <1>2, <1>3

\* Anything times 0, and 0 times anything finite, is 0.
LEMMA MulZero ==
  ASSUME NEW x \in Codes, Finite(x)
  PROVE  Mul(x, 0) = 0 /\ Mul(0, x) = 0
<1>1. /\ x \in Int /\ 0 \in Codes /\ Finite(0) /\ Number(0) = 0 /\ Unity \in Nat \ {0} /\ Number(x) \in Int
  BY FiniteFacts, Landmarks, NumberFacts
<1>2. /\ Mul(x, 0) \in Codes /\ Near(Mul(x, 0), Number(x) * Number(0), Unity)
      /\ Mul(0, x) \in Codes /\ Near(Mul(0, x), Number(0) * Number(x), Unity)
  BY <1>1, MulFinite
<1>3. Number(x) * Number(0) = 0 /\ Number(0) * Number(x) = 0
  BY <1>1
<1>4. 0 \in Int /\ Mul(x, 0) \in Int /\ Mul(0, x) \in Int /\ Near(Mul(x, 0), 0, Unity) /\ Near(Mul(0, x), 0, Unity)
  <2>1. 0 \in Int /\ Mul(x, 0) \in Int /\ Mul(0, x) \in Int
    BY <1>2, FiniteFacts
  <2>2. Near(Mul(x, 0), 0, Unity)
    BY <1>2, <1>3
  <2>3. Near(Mul(0, x), 0, Unity)
    BY <1>2, <1>3
  <2> QED BY <2>1, <2>2, <2>3
<1>5. /\ Mul(x, 0) >= 0 /\ Mul(x, 0) <= 0
      /\ Mul(0, x) >= 0 /\ Mul(0, x) <= 0
  BY <1>1, <1>4, NearIsCode
<1> QED BY <1>4, <1>5

\* A rounded ratio is a code that is not negative.
LEMMA NearestIsCode ==
  ASSUME NEW num \in Nat, NEW den \in Nat \ {0}, NEW e \in Int
  PROVE  NearestTo(num, den, e) \in 0 .. Infinity /\ NearestTo(num, den, e) \in Codes
<1>1. Rounds(NearestTo(num, den, e), num * Up(e - MinUnit), den * Down(e - MinUnit))
  BY NearestRounds
<1>2. NearestTo(num, den, e) \in 0 .. Infinity
  BY <1>1 DEF Rounds
<1> QED BY <1>2, FiniteFacts DEF Codes

\* A quotient of finite floats is the float nearest the quotient of their numbers.
LEMMA DivFinite ==
  ASSUME NEW x \in Codes, NEW y \in Codes, Finite(x), Finite(y), y # 0
  PROVE  /\ Div(x, y) \in Codes
         /\ Number(x) * Unity \in Int
         /\ y > 0 => Number(y) \in Nat \ {0} /\ Near(Div(x, y), Number(x) * Unity, Number(y))
<1> DEFINE ax == Abs(x)
           ay == Abs(y)
           ox == Offset(ax)
           oy == Offset(ay)
           mx == MagnitudeOf(ax)
           my == MagnitudeOf(ay)
           e == Unit(x) - Unit(y)
           f == (ox + Depth) + (- oy)
           r == NearestTo(mx, my, e)
<1>1. x \in Int /\ y \in Int /\ x # NaN /\ y # NaN /\ ax \in Nat /\ ay \in Nat /\ Infinity \in Int
  BY FiniteFacts, AbsFacts
<1>2. Div(x, y) = IF (x < 0) # (y < 0) THEN - r ELSE r
  BY <1>1 DEF Div, Signed, Magnitude
<1>3. /\ ox \in Nat /\ oy \in Nat /\ Unit(x) = MinUnit + ox /\ Unit(y) = MinUnit + oy
      /\ mx \in Nat /\ my \in Nat /\ Value(ax) = mx * 2 ^ ox /\ Value(ay) = my * 2 ^ oy
      /\ Value(ax) \in Nat /\ Value(ay) \in Nat
      /\ MinUnit = - Depth /\ Depth \in Nat /\ MinUnit \in Int
  BY <1>1, CodeFacts, FormatFacts DEF Unit, Value, Gap
<1>4. 2 ^ ox \in Nat \ {0} /\ 2 ^ oy \in Nat \ {0} /\ Unity \in Nat \ {0}
  BY <1>3, PowerIsPositive, Landmarks
<1>5. /\ Number(x) \in Int /\ Number(y) \in Int
      /\ Number(x) = IF x < 0 THEN - Value(ax) ELSE Value(ax)
      /\ y > 0 => Number(y) = Value(ay)
      /\ Value(ay) # 0
  <2>1. /\ x < 0 => ax = - x
        /\ ~ x < 0 => ax = x
        /\ y < 0 => ay = - y
        /\ ~ y < 0 => ay = y
    BY DEF Abs
  <2>2. Number(x) = (IF x < 0 THEN - Value(ax) ELSE Value(ax)) /\ Number(y) = (IF y < 0 THEN - Value(ay) ELSE Value(ay))
    BY <2>1 DEF Number
  <2>3. Number(x) \in Int /\ Number(y) \in Int /\ Number(y) # 0
    BY <1>1, NumberFacts
  <2>4. y > 0 => ~ y < 0
    BY <1>1
  <2> HIDE DEF ax, ay
  <2> QED BY <1>3, <2>2, <2>3, <2>4
<1>6. my \in Nat \ {0}
  <2> HIDE DEF my, oy, ay
  <2> QED BY <1>3, <1>4, <1>5
<1> HIDE DEF ax, ay, ox, oy, mx, my
<1>7. e \in Int /\ e - MinUnit = f /\ f \in Int /\ ox + Depth \in Int /\ - oy \in Int /\ ox + Depth \in Nat
  BY <1>3
<1>8. mx * Up(f) \in Nat /\ my * Down(f) \in Nat \ {0} /\ Rounds(r, mx * Up(f), my * Down(f))
  <2> HIDE DEF e, f
  <2>1. /\ mx * Up(e - MinUnit) \in Nat /\ my * Down(e - MinUnit) \in Nat \ {0}
        /\ Rounds(NearestTo(mx, my, e), mx * Up(e - MinUnit), my * Down(e - MinUnit))
    BY <1>3, <1>6, <1>7, NearestRounds
  <2> QED BY <1>7, <2>1
<1>9. Up(f) * 2 ^ oy = Down(f) * (2 ^ ox * Unity) /\ Up(f) \in Nat \ {0} /\ Down(f) \in Nat \ {0}
  <2>1. Up((ox + Depth) + (- oy)) * (Down(ox + Depth) * Down(- oy)) = Down((ox + Depth) + (- oy)) * (Up(ox + Depth) * Up(- oy))
    BY <1>7, UpDownSum
  <2>2. Down(ox + Depth) = 1 /\ Up(ox + Depth) = 2 ^ ox * Unity
    <3>1. ox + Depth >= 0 /\ 2 ^ (ox + Depth) = 2 ^ ox * 2 ^ Depth
      BY <1>3, PowerSum
    <3> QED BY <1>7, <3>1, UpDown DEF Unity
  <2>3. Up(- oy) = 1 /\ Down(- oy) = 2 ^ oy
    <3>1. - oy <= 0 /\ - (- oy) = oy
      BY <1>3
    <3> QED BY <1>7, <3>1, UpDown
  <2>4. Up(f) \in Nat \ {0} /\ Down(f) \in Nat \ {0}
    <3> HIDE DEF f
    <3> QED BY <1>7, UpDown
  <2>5. Up(f) * (1 * 2 ^ oy) = Down(f) * ((2 ^ ox * Unity) * 1)
    BY <2>1, <2>2, <2>3
  <2> DEFINE p == 2 ^ ox * Unity
             q == 2 ^ oy
  <2>6. p \in Nat /\ q \in Nat
    BY <1>4
  <2> HIDE DEF p, q, f
  <2>7. Up(f) * q = Down(f) * p
    BY <2>4, <2>5, <2>6 DEF p, q
  <2> QED BY <2>4, <2>7 DEF p, q
<1>10. Rounds(r, Value(ax) * Unity, Value(ay)) /\ Value(ax) * Unity \in Nat
  <2> DEFINE u == Up(f)
             d == Down(f)
             p == 2 ^ ox
             q == 2 ^ oy
  <2>1. u \in Nat \ {0} /\ d \in Nat \ {0} /\ p \in Nat /\ q \in Nat \ {0} /\ mx \in Nat /\ my \in Nat \ {0}
        /\ u * q = d * (p * Unity) /\ Value(ax) = mx * p /\ Value(ay) = my * q /\ Unity \in Nat \ {0}
        /\ Rounds(r, mx * u, my * d)
    BY <1>3, <1>4, <1>6, <1>8, <1>9
  <2> HIDE DEF u, d, p, q, f, r
  <2>2. (mx * u) * (my * q) = (mx * my) * (u * q) /\ ((mx * p) * Unity) * (my * d) = (mx * my) * (d * (p * Unity))
        /\ mx * u \in Nat /\ my * d \in Nat \ {0} /\ (mx * p) * Unity \in Nat /\ my * q \in Nat \ {0}
    BY <2>1
  <2>3. (mx * u) * (my * q) = ((mx * p) * Unity) * (my * d)
    BY <2>1, <2>2
  <2>4. Rounds(r, (mx * p) * Unity, my * q)
    BY <2>1, <2>2, <2>3, RoundsRescaled
  <2> QED BY <2>1, <2>2, <2>4
<1>11. r \in 0 .. Infinity /\ r \in Codes /\ - r \in Codes /\ r \in Int
  <2> HIDE DEF e
  <2> QED BY <1>3, <1>6, <1>7, NearestIsCode, FiniteFacts
<1>12. Number(x) * Unity = (IF x < 0 THEN - (Value(ax) * Unity) ELSE Value(ax) * Unity) /\ Number(x) * Unity \in Int
  BY <1>3, <1>4, <1>5, <1>10
<1>13. ASSUME y > 0
       PROVE  Near(Div(x, y), Number(x) * Unity, Number(y))
  <2>1. ~ y < 0 /\ Number(y) = Value(ay)
    BY <1>1, <1>5, <1>13
  <2> DEFINE n == Value(ax) * Unity
             v == Value(ay)
  <2>2. n \in Nat /\ v \in Nat \ {0} /\ Rounds(r, n, v)
    BY <1>3, <1>5, <1>10
  <2> HIDE DEF r, n, v
  <2>3. CASE x < 0
    <3>1. Div(x, y) = - r /\ Number(x) * Unity = - n
      BY <1>2, <1>12, <2>1, <2>3 DEF n
    <3>2. CASE n = 0
      <4>1. - n = 0 /\ ~ - n < 0 /\ n = 0
        <5>1. n \in Int
          BY <2>2
        <5>2. - n = 0
          BY <3>2, <5>1, MinusZero
        <5> QED BY <3>2, <5>2
      <4>2. Value(0) * v = 0 /\ 0 \in 0 .. Infinity /\ 0 \in Nat
        BY <2>2, Landmarks DEF Number
      <4>3. r <= 0
        BY <2>2, <4>1, <4>2, RoundsAgainst
      <4>4. r = 0 /\ - r = 0
        <5>1. r \in Int /\ r >= 0
          BY <1>11
        <5> QED BY <4>3, <5>1, MinusZero
      <4>5. Near(0, 0, v)
        BY <2>2, <3>2, <4>4 DEF Near
      <4> QED BY <2>1, <3>1, <4>1, <4>4, <4>5 DEF v
    <3>3. CASE n # 0
      <4>1. - n < 0 /\ - (- n) = n /\ - (- r) = r
        BY <1>11, <2>2, <3>3
      <4>2. Near(- r, - n, v)
        BY <2>2, <4>1 DEF Near
      <4> QED BY <2>1, <3>1, <4>2 DEF v
    <3> QED BY <3>2, <3>3
  <2>4. CASE ~ x < 0
    <3>1. Div(x, y) = r /\ Number(x) * Unity = n
      BY <1>2, <1>12, <2>1, <2>4 DEF n
    <3>2. Near(r, n, v)
      BY <2>2 DEF Near
    <3> QED BY <2>1, <3>1, <3>2 DEF v
  <2> QED BY <2>3, <2>4
<1>14. Div(x, y) \in Codes
  BY <1>2, <1>11
<1>15. y > 0 => Number(y) \in Nat \ {0}
  BY <1>1, <1>3, <1>5
<1> QED BY <1>12, <1>13, <1>14, <1>15

\* A quotient is a number unless it is 0 / 0 or of two infinities, with the sign of what is divided.
LEMMA DivNumber ==
  ASSUME NEW x \in Codes, NEW y \in Codes, Finite(x) \/ Finite(y), x # 0 \/ y # 0
  PROVE  /\ Div(x, y) \in Codes
         /\ y > 0 /\ x >= 0 => Div(x, y) >= 0
         /\ y > 0 /\ x <= 0 => Div(x, y) <= 0
         /\ y > 0 /\ x = Infinity => Div(x, y) = Infinity
         /\ y > 0 /\ x = - Infinity => Div(x, y) = - Infinity
<1>1. /\ x \in Int /\ y \in Int /\ Infinity \in Int /\ Infinity > 0 /\ - Infinity \in Int /\ - Infinity < 0
      /\ Infinity \in Codes /\ - Infinity \in Codes /\ 0 \in Codes /\ x # NaN /\ y # NaN
      /\ (Finite(x) => x # Infinity /\ x # - Infinity)
      /\ (~ Finite(x) => x = Infinity \/ x = - Infinity)
  BY FiniteFacts
<1>2. CASE Finite(x) /\ Finite(y) /\ y # 0
  <2>1. /\ Div(x, y) \in Codes /\ Number(x) * Unity \in Int
        /\ y > 0 => Number(y) \in Nat \ {0} /\ Near(Div(x, y), Number(x) * Unity, Number(y))
    BY <1>2, DivFinite
  <2>2. Div(x, y) \in Int /\ Unity \in Nat \ {0} /\ Unity \in Int /\ Unity >= 0
    <3>1. Div(x, y) \in Int
      BY <2>1, FiniteFacts
    <3>2. Unity \in Nat \ {0}
      BY Landmarks
    <3> QED BY <3>1, <3>2
  <2>3. /\ Number(x) \in Int
        /\ x >= 0 => Number(x) >= 0
        /\ x <= 0 => Number(x) <= 0
    BY <1>1, NumberFacts
  <2>4. /\ x >= 0 => Number(x) * Unity >= 0
        /\ x <= 0 => Number(x) * Unity <= 0
    BY <2>2, <2>3, SignOfProduct
  <2>5. y > 0 => (x >= 0 => Div(x, y) >= 0) /\ (x <= 0 => Div(x, y) <= 0)
    BY <2>1, <2>2, <2>4, NearIsCode
  <2> QED BY <1>1, <1>2, <2>1, <2>5
<1>3. CASE ~ Finite(x) \/ y = 0
  <2>1. Div(x, y) = IF (x < 0) # (y < 0) THEN - Infinity ELSE Infinity
    BY <1>1, <1>3 DEF Div, Signed
  <2> QED BY <1>1, <1>3, <2>1
<1>4. CASE Finite(x) /\ y # 0 /\ ~ Finite(y)
  <2>1. Div(x, y) = 0
    BY <1>1, <1>4 DEF Div
  <2> QED BY <1>1, <1>4, <2>1
<1> QED BY <1>2, <1>3, <1>4

\* What is no larger than a positive divisor is no larger than 1 beside it, either way.
LEMMA DivWithinOne ==
  ASSUME NEW x \in Codes, NEW y \in Codes, Finite(x), Finite(y), y > 0
  PROVE  /\ x <= y => Div(x, y) <= One
         /\ - y <= x => Div(x, y) >= - One
<1>1. /\ x \in Int /\ y \in Int /\ One \in Codes /\ One \in Int /\ - One \in Codes /\ - y \in Int
  BY FiniteFacts
<1>2. y # 0
  BY <1>1
<1>3. /\ Div(x, y) \in Codes /\ Number(x) * Unity \in Int
      /\ Number(y) \in Nat \ {0} /\ Near(Div(x, y), Number(x) * Unity, Number(y))
  BY <1>2, DivFinite
<1>4. Div(x, y) \in Int /\ Unity \in Nat \ {0} /\ Number(One) = Unity /\ Number(- One) = - Unity
      /\ Number(- y) = - Number(y) /\ Number(x) \in Int
  BY <1>1, <1>3, FiniteFacts, Landmarks, NumberFacts
<1>5. /\ x <= y => Number(x) <= Number(y)
      /\ - y <= x => Number(- y) <= Number(x)
  BY <1>1, NumberClimbs
<1>6. x <= y => Number(x) * Unity <= Number(One) * Number(y)
  <2>1. Number(x) <= Number(y) => Number(x) * Unity <= Number(y) * Unity
    BY <1>3, <1>4, Products
  <2> QED BY <1>3, <1>4, <1>5, <2>1
<1>7. - y <= x => Number(- One) * Number(y) <= Number(x) * Unity
  <2>1. - Number(y) <= Number(x) => (- Number(y)) * Unity <= Number(x) * Unity
    <3>1. - Number(y) \in Int /\ Unity \in Nat
      BY <1>3, <1>4
    <3> QED BY <1>4, <3>1, Products
  <2>2. (- Number(y)) * Unity = (- Unity) * Number(y)
    BY <1>3, <1>4
  <2> QED BY <1>4, <1>5, <2>1, <2>2
<1> QED BY <1>1, <1>3, <1>4, <1>6, <1>7, NearAgainst

-----------------------------------------------------------------------------
(***************************************************************************)
(* ln and ln_1p: a number for every argument in their domain, and for ln   *)
(* no further than a quarter of Infinity unless it is infinite.            *)
(***************************************************************************)

\* A ratio with no exponent, in units of the least float.
LEMMA NearestWhole ==
  ASSUME NEW num \in Nat, NEW den \in Nat \ {0}
  PROVE  /\ NearestTo(num, den, 0) \in 0 .. Infinity /\ NearestTo(num, den, 0) \in Codes
         /\ num * Unity \in Nat /\ Rounds(NearestTo(num, den, 0), num * Unity, den)
<1>1. MinUnit \in Int /\ MinUnit = - Depth /\ Depth \in Nat /\ Unity \in Nat \ {0}
  BY FormatFacts, Landmarks
<1>2. 0 - MinUnit \in Int /\ 0 - MinUnit = Depth /\ Depth \in Int /\ Depth >= 0 /\ 0 \in Int
  BY <1>1
<1>3. Up(Depth) = Unity /\ Down(Depth) = 1
  BY <1>2, UpDown DEF Unity
<1>4. Rounds(NearestTo(num, den, 0), num * Up(0 - MinUnit), den * Down(0 - MinUnit))
  BY <1>2, NearestRounds
<1>5. Rounds(NearestTo(num, den, 0), num * Unity, den)
  <2>1. den * 1 = den
    OBVIOUS
  <2> QED BY <1>2, <1>3, <1>4, <2>1
<1> QED BY <1>1, <1>2, <1>5, NearestIsCode

\* Where Far lies: a quarter of Infinity, inside the format.
LEMMA FarFacts ==
  /\ Far \in Codes /\ - Far \in Codes /\ Far \in Int /\ 0 < Far /\ Far < Infinity /\ Finite(Far) /\ Finite(- Far)
  /\ 4 * Number(Far) = Number(Infinity) /\ Number(- Far) = - Number(Far) /\ Number(Far) \in Nat
<1>1. /\ Precision \in Nat /\ Precision >= 3 /\ Depth \in Nat /\ Depth >= Precision /\ MinUnit = - Depth
      /\ Leading \in Nat /\ Leading >= 2 /\ Leading = 2 ^ (Precision - 1) /\ Binades \in Nat
  BY FormatFacts, FormatAssumption DEF Leading
<1>2. /\ Unity \in Nat \ {0} /\ TopExponent \in Nat /\ TopExponent >= 2 /\ TopExponent = Precision + Binades - Depth
      /\ Number(Infinity) = 2 ^ TopExponent * Unity
  BY Landmarks DEF TopExponent
<1> DEFINE u == TopExponent - 1 - Precision + Depth
           t == TopExponent - 2
<1>5. u \in Nat /\ MinUnit + u = TopExponent - 1 - Precision /\ (Precision - 1) + u = t + Depth /\ t \in Nat
      /\ Precision - 1 \in Nat /\ t + 1 \in Nat /\ (t + 1) + 1 = TopExponent
  BY <1>1, <1>2
<1>6. Far \in Nat /\ Value(Far) = Leading * 2 ^ u
  <2>1. Leading <= 2 * Leading /\ Leading >= Leading
    BY <1>1
  <2> HIDE DEF u
  <2> QED BY <1>1, <1>5, <2>1, ValueOfPattern DEF Far
<1>7. Value(Far) = 2 ^ t * Unity
  <2> HIDE DEF u, t
  <2>1. Leading * 2 ^ u = 2 ^ ((Precision - 1) + u)
    BY <1>1, <1>5, PowerSum
  <2> QED BY <1>1, <1>5, <1>6, <2>1, PowerSum DEF Unity
<1>8. 2 ^ TopExponent = 4 * 2 ^ t /\ 2 ^ t \in Nat \ {0}
  <2> HIDE DEF t
  <2>1. 2 ^ (t + 1) = 2 * 2 ^ t /\ 2 ^ ((t + 1) + 1) = 2 * 2 ^ (t + 1) /\ 2 ^ t \in Nat \ {0}
    BY <1>5, PowerStep, PowerIsPositive
  <2> QED BY <1>5, <2>1
<1> HIDE DEF u, t
<1>9. Number(Far) = Value(Far) /\ Far \in Int
  BY <1>6 DEF Number
<1>10. Number(Far) = 2 ^ t * Unity /\ Number(Far) \in Nat \ {0} /\ 4 * Number(Far) = Number(Infinity)
  <2> DEFINE p == 2 ^ t
  <2>1. p \in Nat \ {0} /\ Number(Far) = p * Unity /\ Number(Infinity) = (4 * p) * Unity
    BY <1>2, <1>7, <1>8, <1>9
  <2> HIDE DEF p
  <2>2. p * Unity \in Nat \ {0} /\ (4 * p) * Unity = 4 * (p * Unity)
    BY <1>2, <2>1
  <2> QED BY <2>1, <2>2 DEF p
<1>12. 0 < Far /\ Far < Infinity
  <2>1. Number(0) < Number(Far) /\ Number(Far) < Number(Infinity) /\ 0 \in Int /\ Infinity \in Int
    <3>1. Number(0) = 0 /\ Infinity \in Int
      BY Landmarks
    <3>2. Number(Far) < Number(Infinity)
      BY <1>10
    <3> QED BY <1>10, <3>1, <3>2
  <2> QED BY <1>9, <2>1, NumberClimbs
<1>13. Far \in Codes /\ Finite(Far)
  <2>1. Infinity \in Int /\ Infinity > 0 /\ Far # NaN
    BY <1>9, FiniteFacts
  <2> QED BY <1>9, <1>12, <2>1 DEF Codes, Finite
<1>14. - Far \in Codes /\ Finite(- Far)
  BY <1>13, FiniteFacts
<1>15. Number(- Far) = - Number(Far)
  BY <1>9, NumberFacts
<1> QED BY <1>9, <1>10, <1>12, <1>13, <1>14, <1>15

\* ln of a number from 0 up is a number, and no further than Far for a positive finite one.
LEMMA LnNumber ==
  ASSUME NEW x \in Codes, x >= 0
  PROVE  /\ Ln(x) \in Codes
         /\ Finite(x) /\ x > 0 => Finite(Ln(x)) /\ - Far <= Ln(x) /\ Ln(x) <= Far
         /\ x = 0 => Ln(x) = - Infinity
         /\ x = Infinity => Ln(x) = Infinity
         /\ x >= One => Ln(x) >= 0
         /\ x <= One => Ln(x) <= 0
<1>1. x \in 0 .. Infinity /\ Ln(x) = LnAt[x] /\ One \in 0 .. Infinity /\ x \in Int /\ One \in Int
  <2>1. x \in 0 .. Infinity /\ x # NaN /\ x \in Int /\ One \in Int /\ 0 < One /\ One < Infinity /\ Infinity \in Int
    BY CodesFacts, FiniteFacts DEF Finite
  <2> QED BY <2>1 DEF Ln, LessThan
<1>2. LnAt[x] \in Codes /\ (x >= One => LnAt[One] <= LnAt[x]) /\ (x <= One => LnAt[x] <= LnAt[One]) /\ LnAt[One] = 0
  BY <1>1, LnAssumption
<1>3. ASSUME Finite(x), x > 0 PROVE Finite(LnAt[x]) /\ - Far <= LnAt[x] /\ LnAt[x] <= Far
  <2>1. x \in 1 .. Infinity - 1
    BY <1>1, <1>3, FiniteFacts DEF Finite
  <2>2. - Far <= LnAt[x] /\ LnAt[x] <= Far
    BY <2>1, LnAssumption
  <2> DEFINE l == LnAt[x]
  <2>3. l \in Int /\ l # NaN /\ Far \in Int /\ Far < Infinity /\ Infinity \in Int
    BY <1>2, FarFacts, FiniteFacts
  <2> HIDE DEF l
  <2>4. - Far <= l /\ l <= Far => Finite(l)
    BY <2>3 DEF Finite
  <2> QED BY <2>2, <2>4 DEF l
<1>4. Infinity \in Nat /\ Infinity > 0 /\ (x = 0 => LnAt[x] = - Infinity) /\ (x = Infinity => LnAt[x] = Infinity)
  BY LnAssumption, FiniteFacts
<1> DEFINE l == LnAt[x]
<1> HIDE DEF l
<1>5. /\ Ln(x) = l /\ l \in Codes
      /\ Finite(x) /\ x > 0 => Finite(l) /\ - Far <= l /\ l <= Far
      /\ x = 0 => l = - Infinity
      /\ x = Infinity => l = Infinity
      /\ x >= One => l >= 0
      /\ x <= One => l <= 0
  BY <1>1, <1>2, <1>3, <1>4 DEF l
<1> QED BY <1>5

\* ln of a positive float is no higher than that of a greater one.
LEMMA LnClimbs ==
  ASSUME NEW s \in Codes, NEW x \in Codes, s > 0, s <= x
  PROVE  Ln(s) <= Ln(x)
<1>1. s \in 0 .. Infinity /\ x \in 0 .. Infinity /\ s # NaN /\ x # NaN /\ ~ LessThan(s, 0) /\ ~ LessThan(x, 0)
  BY CodesFacts DEF LessThan
<1> QED BY <1>1, LnAssumption DEF Ln

\* The binary digits of a float after the point.
Parts(x) == IF Unit(x) < 0 THEN - Unit(x) ELSE 0

\* A unit of a float is Gap units of the least one, and a whole number has 2^Parts of them.
LEMMA UnitFacts ==
  ASSUME NEW x \in Int
  PROVE  /\ Unit(x) \in Int /\ Count(x) \in Int /\ Magnitude(x) \in Nat
         /\ 2 ^ Parts(x) = Down(Unit(x)) /\ 2 ^ Parts(x) \in Nat \ {0} /\ 2 ^ Parts(x) <= Unity
         /\ Up(Unit(x)) \in Nat \ {0} /\ Gap(Abs(x)) \in Nat \ {0} /\ Parts(x) \in Nat
         /\ Unit(x) >= 0 => 2 ^ Parts(x) = 1
         /\ Unit(x) < 0 => Up(Unit(x)) = 1
         /\ Up(Unit(x)) * Unity = 2 ^ Parts(x) * Gap(Abs(x))
         /\ Number(x) \in Int /\ Number(x) = Count(x) * Gap(Abs(x))
         /\ Number(Abs(x)) \in Nat /\ Number(Abs(x)) = Magnitude(x) * Gap(Abs(x))
<1> DEFINE c == Count(x)
           o == Offset(Abs(x))
           q == 2 ^ Parts(x)
           u == Up(Unit(x))
<1>1. Abs(x) \in Nat
  BY AbsFacts
<1>2. /\ c \in Int /\ o \in Nat /\ Number(x) = c * 2 ^ o /\ Number(x) \in Int /\ Unit(x) = o + (- Depth) /\ Unit(x) \in Int
      /\ Depth \in Nat /\ - Depth \in Int /\ Gap(Abs(x)) = 2 ^ o /\ Magnitude(x) \in Nat
      /\ Number(Abs(x)) \in Nat /\ Number(Abs(x)) = Magnitude(x) * 2 ^ o
  <2>1. c \in Int /\ Number(x) = c * Gap(Abs(x)) /\ Number(x) \in Int
    BY <1>1, NumberFacts
  <2>2. o \in Nat /\ UnitOf(Abs(x)) = MinUnit + o /\ Gap(Abs(x)) = 2 ^ o /\ MinUnit = - Depth /\ Depth \in Nat
        /\ MagnitudeOf(Abs(x)) \in Nat /\ Value(Abs(x)) \in Nat
    BY <1>1, CodeFacts, FormatFacts DEF Gap
  <2>3. Number(Abs(x)) = Value(Abs(x))
    BY <1>1 DEF Number
  <2> QED BY <2>1, <2>2, <2>3 DEF Unit, Magnitude, Value
<1>3. /\ q = Down(Unit(x)) /\ q \in Nat \ {0} /\ u \in Nat \ {0} /\ Parts(x) \in Nat
      /\ (Unit(x) >= 0 => q = 1) /\ (Unit(x) < 0 => u = 1)
  <2>1. Up(Unit(x)) \in Nat \ {0} /\ Down(Unit(x)) \in Nat \ {0}
    BY <1>2, UpDown
  <2>2. CASE Unit(x) < 0
    <3>1. Parts(x) = - Unit(x) /\ Unit(x) <= 0
      BY <1>2, <2>2 DEF Parts
    <3> QED BY <1>2, <2>1, <3>1, UpDown
  <2>3. CASE ~ Unit(x) < 0
    <3>1. Parts(x) = 0 /\ Unit(x) >= 0
      BY <1>2, <2>3 DEF Parts
    <3> QED BY <1>2, <2>1, <3>1, UpDown, PowerZero
  <2> QED BY <2>2, <2>3
<1> DEFINE p == 2 ^ o
<1>4. p \in Nat \ {0} /\ Unity \in Nat \ {0}
  BY <1>2, PowerIsPositive, Landmarks
<1>5. u * Unity = q * p
  <2>1. Up(o + (- Depth)) * (Down(o) * Down(- Depth)) = Down(o + (- Depth)) * (Up(o) * Up(- Depth))
    <3>1. o \in Int
      BY <1>2
    <3> QED BY <1>2, <3>1, UpDownSum
  <2>2. Down(o) = 1 /\ Up(o) = p
    <3>1. o \in Int /\ o >= 0
      BY <1>2
    <3> QED BY <3>1, UpDown
  <2>3. Up(- Depth) = 1 /\ Down(- Depth) = Unity
    <3>1. - Depth <= 0 /\ - (- Depth) = Depth
      BY <1>2
    <3> QED BY <1>2, <3>1, UpDown DEF Unity
  <2> HIDE DEF p, o
  <2>4. u * (1 * Unity) = q * (p * 1)
    <3>1. Up(Unit(x)) * (1 * Unity) = Down(Unit(x)) * (p * 1)
      BY <1>2, <2>1, <2>2, <2>3
    <3> QED BY <1>3, <3>1
  <2> HIDE DEF u, q
  <2> QED BY <1>3, <1>4, <2>4
<1>6. q <= Unity
  <2>1. CASE Unit(x) <= 0
    <3>1. q = 2 ^ (- Unit(x)) /\ - Unit(x) \in Nat /\ - Unit(x) <= Depth
      BY <1>2, <1>3, <2>1, UpDown
    <3>2. 2 ^ (- Unit(x)) <= 2 ^ Depth
      BY <1>2, <3>1, PowerUpTo
    <3> QED BY <3>1, <3>2 DEF Unity
  <2>2. CASE ~ Unit(x) <= 0
    <3>1. Unit(x) >= 0
      BY <1>2, <2>2
    <3> QED BY <1>2, <1>3, <1>4, <3>1, UpDown
  <2> QED BY <2>1, <2>2
<1> QED BY <1>2, <1>3, <1>4, <1>5, <1>6

\* ln_1p of a number from -1 up is a number on the side of 0 its argument is on.
LEMMA Ln1pNumber ==
  ASSUME NEW x \in Codes, - One <= x
  PROVE  /\ Ln1p(x) \in Codes
         /\ x = - One => Ln1p(x) = - Infinity
         /\ - One < x /\ Finite(x) => Finite(Ln1p(x))
         /\ x >= 0 => Ln1p(x) >= 0
         /\ x < 0 => Ln1p(x) <= -1
         /\ x <= 0 => Ln1p(x) <= 0
<1>1. x \in - One .. Infinity /\ Ln1p(x) = Ln1pAt[x] /\ x \in Int /\ One \in Int /\ Infinity \in Int
  <2>1. x \in - One .. Infinity /\ x # NaN /\ x \in Int /\ One \in Int /\ Infinity \in Int
    BY FiniteFacts DEF Codes
  <2> QED BY <2>1 DEF Ln1p, LessThan
<1>2. Ln1pAt[x] \in Codes /\ Ln1pAt[x] \in Int
  BY <1>1, Ln1pAssumption, FiniteFacts
<1>3. - One < x /\ Finite(x) => x \in - One + 1 .. Infinity - 1
  BY <1>1 DEF Finite
<1>4. (IF x < 0 THEN Ln1pAt[x] < 0 ELSE Ln1pAt[x] >= 0) /\ (x = 0 => Ln1pAt[x] = 0)
  BY <1>1, Ln1pAssumption
<1> QED BY <1>1, <1>2, <1>3, <1>4, Ln1pAssumption

-----------------------------------------------------------------------------
(***************************************************************************)
(* exp, sinh, the helpers the closed forms share, and expm1.               *)
(***************************************************************************)

\* exp of a number is a number that is not negative, and no more than 1 from 0 down.
LEMMA ExpNumber ==
  ASSUME NEW v \in Codes
  PROVE  /\ Exp(v) \in 0 .. Infinity /\ Exp(v) \in Codes
         /\ v <= 0 => Exp(v) <= One
         /\ v = Infinity => Exp(v) = Infinity
         /\ v = - Infinity => Exp(v) = 0
<1>1. v # NaN /\ 0 \in Codes /\ Infinity \in Int
  BY FiniteFacts
<1>2. ExpAt[v] \in 0 .. Infinity /\ (v <= 0 => ExpAt[v] <= ExpAt[0])
  BY <1>1, ExpAssumption
<1>3. ExpAt[v] \in Codes
  BY <1>1, <1>2, FiniteFacts DEF Codes
<1> QED BY <1>1, <1>2, <1>3, ExpAssumption DEF Exp

\* A product taken in two halves, around a division or not, meets no 0 * inf.
LEMMA HalvesMeet ==
  ASSUME NEW s \in Codes, Finite(s), s > 0, NEW h \in Codes, h >= 0
  PROVE  /\ Mul(Mul(s, h), h) \in Codes /\ Mul(Mul(s, h), h) >= 0
         /\ \A y \in Codes : y > 0 /\ (y = Infinity => h = 0) =>
              Mul(Div(Mul(s, h), y), h) \in Codes /\ Mul(Div(Mul(s, h), y), h) >= 0
<1> DEFINE p == Mul(s, h)
<1>1. /\ s \in Int /\ h \in Int /\ Infinity \in Int /\ Infinity > 0 /\ - Infinity < 0 /\ - Infinity \in Int
      /\ (~ Finite(h) => h = Infinity \/ h = - Infinity) /\ (Finite(h) => h # Infinity /\ h # - Infinity)
      /\ Finite(0)
  BY FiniteFacts
<1>2. p \in Codes /\ p >= 0
  BY <1>1, MulNumber
<1>3. h = 0 => p = 0
  BY MulZero
<1>4. ~ Finite(h) => p = Infinity
  <2>1. ~ Finite(h) => p = Infinity \/ p = - Infinity
    BY <1>1, MulNumber
  <2> HIDE DEF p
  <2> QED BY <1>1, <1>2, <2>1
<1> HIDE DEF p
<1>5. Mul(p, h) \in Codes /\ Mul(p, h) >= 0
  <2>1. /\ p = 0 => Finite(h)
        /\ h = 0 => Finite(p)
    BY <1>1, <1>3, <1>4
  <2> QED BY <1>1, <1>2, <2>1, MulNumber
<1>6. ASSUME NEW y \in Codes, y > 0, y = Infinity => h = 0
      PROVE  Mul(Div(p, y), h) \in Codes /\ Mul(Div(p, y), h) >= 0
  <2> DEFINE d == Div(p, y)
  <2>1. /\ y \in Int /\ p \in Int /\ (~ Finite(y) => y = Infinity \/ y = - Infinity) /\ y # 0
        /\ (~ Finite(p) => p = Infinity \/ p = - Infinity)
    <3>1. y \in Int
      BY FiniteFacts
    <3> QED BY <1>2, <1>6, <3>1, FiniteFacts
  <2>2. Finite(p) \/ Finite(y)
    BY <1>1, <1>3, <1>6, <2>1
  <2>3. /\ d \in Codes /\ d >= 0
        /\ p <= 0 => d <= 0
        /\ p = Infinity => d = Infinity
    BY <1>2, <1>6, <2>1, <2>2, DivNumber
  <2>4. d \in Int
    BY <2>3, FiniteFacts
  <2> HIDE DEF d
  <2>5. /\ d = 0 => Finite(h)
        /\ h = 0 => Finite(d)
    <3>1. h = 0 => d = 0
      BY <1>1, <1>3, <2>3, <2>4
    <3>2. ~ Finite(h) => d = Infinity
      BY <1>4, <2>3
    <3> QED BY <1>1, <3>1, <3>2
  <2>6. Mul(d, h) \in Codes /\ Mul(d, h) >= 0
    BY <1>1, <2>3, <2>5, MulNumber
  <2> QED BY <2>6 DEF d
<1> QED BY <1>5, <1>6 DEF p

\* Half of a float keeps its sign and moves towards 0.
LEMMA HalfFacts ==
  ASSUME NEW t \in Codes
  PROVE  /\ Half(t) \in Codes
         /\ t >= 0 => Half(t) >= 0 /\ Half(t) <= t
         /\ t <= 0 => Half(t) <= 0 /\ t <= Half(t)
         /\ t = - Infinity => Half(t) = - Infinity
         /\ Finite(t) => Near(Half(t), Number(t), 2)
<1>1. /\ t \in Int /\ Two \in Codes /\ Finite(Two) /\ Two > 0 /\ Two # 0 /\ Two \in Int
      /\ (~ Finite(t) => t = Infinity \/ t = - Infinity)
  <2>1. 0 < One /\ One < Two /\ One \in Int /\ Two \in Int
    BY FiniteFacts
  <2> QED BY <2>1, FiniteFacts
<1>2. /\ Half(t) \in Codes
      /\ t >= 0 => Half(t) >= 0
      /\ t <= 0 => Half(t) <= 0
      /\ t = Infinity => Half(t) = Infinity
      /\ t = - Infinity => Half(t) = - Infinity
  BY <1>1, DivNumber DEF Half
<1>3. Half(t) \in Int
  BY <1>2, FiniteFacts
<1>4. CASE Finite(t)
  <2>1. Near(Half(t), Number(t) * Unity, Number(Two)) /\ Number(t) * Unity \in Int /\ Number(Two) \in Nat \ {0}
    BY <1>1, <1>4, DivFinite DEF Half
  <2>2. Number(t) \in Int /\ Number(Two) = 2 * Unity /\ Unity \in Nat \ {0} /\ 2 \in Nat \ {0}
        /\ (t >= 0 => Number(t) >= 0) /\ (t <= 0 => Number(t) <= 0)
    <3>1. 2 \in Nat \ {0}
      OBVIOUS
    <3> QED BY <1>1, <3>1, NumberFacts, Landmarks
  <2>3. (Number(t) * Unity) * 2 = Number(t) * Number(Two)
    BY <2>2
  <2>4. Near(Half(t), Number(t), 2)
    BY <1>3, <2>1, <2>2, <2>3, NearRescaled
  <2>5. /\ t >= 0 => Number(t) <= Number(t) * 2
        /\ t <= 0 => Number(t) * 2 <= Number(t)
    BY <2>2
  <2>6. /\ t >= 0 => Half(t) <= t
        /\ t <= 0 => t <= Half(t)
    BY <1>3, <2>2, <2>4, <2>5, NearAgainst
  <2> QED BY <1>2, <2>4, <2>6
<1>5. CASE ~ Finite(t)
  BY <1>1, <1>2, <1>3, <1>5
<1> QED BY <1>4, <1>5

\* scale_exp answers a number that is not negative, by its halves.
LEMMA ScaleExpFacts ==
  ASSUME NEW s \in Codes, Finite(s), s > 0, NEW t \in Codes
  PROVE  ScaleExp(s, t) \in Codes /\ ScaleExp(s, t) >= 0
<1> DEFINE h == Exp(Half(t))
<1>1. Half(t) \in Codes
  BY HalfFacts
<1>2. h \in Codes /\ h \in 0 .. Infinity
  <2> DEFINE v == Half(t)
  <2> HIDE DEF v
  <2>1. v \in Codes
    BY <1>1 DEF v
  <2>2. Exp(v) \in 0 .. Infinity /\ Exp(v) \in Codes
    BY <2>1, ExpNumber
  <2> QED BY <2>2 DEF v
<1>3. h >= 0
  BY <1>2, FiniteFacts
<1>4. ScaleExp(s, t) = Mul(Mul(s, h), h)
  BY DEF ScaleExp
<1> HIDE DEF h
<1> QED BY <1>2, <1>3, <1>4, HalvesMeet

\* A whole number below or above a float is a float, and at least 1 from 1 up.
LEMMA FloorFacts ==
  ASSUME NEW x \in Codes
  PROVE  /\ Floor(x) \in Codes /\ Ceil(x) \in Codes
         /\ x >= One => Floor(x) >= One
<1>1. ASSUME NEW y \in Codes
      PROVE  Floor(y) \in Codes /\ (y >= One => Floor(y) >= One)
  <2>1. CASE ~ Finite(y) \/ Unit(y) >= 0
    BY <2>1 DEF Floor
  <2>2. CASE Finite(y) /\ ~ Unit(y) >= 0
    <3> DEFINE q == 2 ^ (- Unit(y))
               c == Count(y)
               w == c \div q
    <3>1. /\ y \in Int /\ One \in Int /\ One \in Codes /\ 0 < One
      BY FiniteFacts
    <3>2. /\ c \in Int /\ q \in Nat \ {0} /\ Unity = q * Gap(Abs(y)) /\ Gap(Abs(y)) \in Nat \ {0}
          /\ Number(y) = c * Gap(Abs(y)) /\ Unity \in Nat \ {0}
      <4>1. /\ Unit(y) \in Int /\ Count(y) \in Int /\ 2 ^ Parts(y) \in Nat \ {0}
            /\ Gap(Abs(y)) \in Nat \ {0} /\ (Unit(y) < 0 => Up(Unit(y)) = 1)
            /\ Up(Unit(y)) * Unity = 2 ^ Parts(y) * Gap(Abs(y))
            /\ Number(y) = Count(y) * Gap(Abs(y))
        BY <3>1, UnitFacts
      <4>2. Unit(y) < 0 /\ Parts(y) = - Unit(y)
        BY <2>2, <4>1 DEF Parts
      <4>3. Unity \in Nat \ {0} /\ 1 * Unity = Unity
        BY Landmarks
      <4> QED BY <4>1, <4>2, <4>3
    <3>3. Floor(y) = Round(w, 1, 0)
      BY <2>2 DEF Floor
    <3> HIDE DEF q, c
    <3>4. w \in Int /\ (q <= c => 1 <= w)
      <4>1. c \div q \in Int /\ c % q \in 0 .. q - 1 /\ c = q * (c \div q) + (c % q)
        BY <3>2, Quotient
      <4> HIDE DEF w
      <4>2. w \in Int /\ c < q * w + q
        <5>1. w \in Int /\ c % q < q /\ c % q \in Int /\ c = q * w + (c % q)
          BY <3>2, <4>1 DEF w
        <5>2. q * w \in Int /\ q \in Int
          BY <3>2, <5>1
        <5> QED BY <5>1, <5>2
      <4>3. ASSUME q <= c, w <= 0 PROVE FALSE
        <5>1. q * w <= q * 0
          BY <3>2, <4>2, <4>3, Products
        <5>2. q * w <= 0 /\ q * w \in Int
          BY <3>2, <4>2, <5>1
        <5> QED BY <3>2, <4>2, <4>3, <5>2
      <4> QED BY <4>2, <4>3
    <3> HIDE DEF w
    <3>5. /\ w * Up(0 - MinUnit) \in Int /\ 1 * Down(0 - MinUnit) \in Nat \ {0}
          /\ Round(w, 1, 0) \in Int
          /\ Near(Round(w, 1, 0), w * Up(0 - MinUnit), 1 * Down(0 - MinUnit))
      <4>1. 1 \in Nat \ {0} /\ 0 \in Int
        OBVIOUS
      <4> QED BY <3>4, <4>1, RoundIsNear
    <3>6. Up(0 - MinUnit) = Unity /\ Down(0 - MinUnit) = 1
      <4>1. 0 - MinUnit = Depth /\ Depth \in Int /\ Depth >= 0
        BY FormatFacts
      <4> QED BY <4>1, UpDown DEF Unity
    <3>7. /\ w * Unity \in Int /\ Round(w, 1, 0) \in Int /\ Near(Round(w, 1, 0), w * Unity, 1) /\ 1 \in Nat \ {0}
      <4>1. 1 * 1 = 1 /\ 1 \in Nat \ {0}
        OBVIOUS
      <4> QED BY <3>5, <3>6, <4>1
    <3>8. Round(w, 1, 0) \in Codes
      BY <3>7, NearIsCode
    <3>9. ASSUME y >= One PROVE Round(w, 1, 0) >= One
      <4>1. Unity <= Number(y)
        <5>1. Number(One) <= Number(y) /\ Number(One) = Unity
          BY <3>1, <3>9, NumberClimbs, Landmarks
        <5> QED BY <5>1
      <4>2. q <= c
        <5>1. q * Gap(Abs(y)) <= c * Gap(Abs(y))
          BY <3>2, <4>1
        <5>2. q \in Int
          BY <3>2
        <5> QED BY <3>2, <5>1, <5>2, Cancels
      <4>3. 1 * Unity <= w * Unity
        BY <3>2, <3>4, <4>2, Products
      <4>4. Number(One) * 1 <= w * Unity
        <5>1. Number(One) = Unity /\ Unity * 1 = 1 * Unity
          BY <3>2, Landmarks
        <5> QED BY <4>3, <5>1
      <4>5. One <= Round(w, 1, 0)
        BY <3>1, <3>7, <4>4, NearAgainst
      <4> QED BY <3>1, <3>7, <4>5
    <3> QED BY <3>3, <3>8, <3>9
  <2> QED BY <2>1, <2>2
<1>2. - x \in Codes /\ Neg(x) = - x
  BY FiniteFacts
<1>3. Floor(- x) \in Codes
  BY <1>1, <1>2
<1>4. Ceil(x) \in Codes
  <2> DEFINE f == Floor(- x)
  <2>1. f \in Codes /\ Ceil(x) = Neg(f)
    BY <1>2, <1>3 DEF Ceil
  <2> HIDE DEF f
  <2>2. Neg(f) = - f /\ - f \in Codes
    BY <2>1, FiniteFacts
  <2> QED BY <2>1, <2>2
<1> QED BY <1>1, <1>4

\* Where the closed forms read it, sinh is finite and not positive.
LEMMA SinhFacts ==
  ASSUME NEW t \in Codes, t <= 0, - DirectComplement <= t
  PROVE  /\ Half(t) \in Codes /\ Half(t) <= 0 /\ Finite(Half(t))
         /\ Sinh(Half(t)) \in Codes /\ Finite(Sinh(Half(t))) /\ Sinh(Half(t)) <= 0
<1> DEFINE h == Half(t)
<1>1. h \in Codes /\ h \in Int /\ h <= 0 /\ t <= h /\ h # NaN
  BY HalfFacts, FiniteFacts
<1> HIDE DEF h
<1>2. Abs(h) <= DirectComplement /\ Finite(h)
  <2>1. t \in Int /\ DirectComplement \in Int /\ DirectComplement < Infinity /\ Infinity \in Int /\ One \in Int
    BY FiniteFacts, CrossoverAssumption
  <2> QED BY <1>1, <2>1 DEF Abs, Finite
<1>3. Sinh(h) = SinhAt[h]
  BY <1>1 DEF Sinh
<1>4. SinhAt[h] \in Codes /\ SinhAt[h] <= 0 /\ Finite(SinhAt[h])
  BY <1>1, <1>2, SinhAssumption, CrossoverAssumption
<1> QED BY <1>1, <1>2, <1>3, <1>4 DEF h

\* Twice a number of [0, 1] is finite.
LEMMA TwiceFinite ==
  ASSUME NEW e \in Codes, e >= 0, e <= One
  PROVE  Mul(Two, e) \in Codes /\ Mul(Two, e) >= 0 /\ Finite(Mul(Two, e))
<1>1. /\ e \in Int /\ Two \in Codes /\ Finite(Two) /\ Two \in Int /\ One \in Int /\ 0 < One /\ One < Two /\ Two < Infinity
      /\ Infinity \in Int /\ One < Infinity
  BY FiniteFacts DEF Finite
<1>2. Finite(e)
  BY <1>1, FiniteFacts DEF Finite
<1> DEFINE r == Mul(Two, e)
<1>3. r \in Codes /\ r >= 0 /\ Near(r, Number(Two) * Number(e), Unity) /\ Number(Two) * Number(e) \in Int /\ r \in Int
  <2>1. r \in Codes /\ r >= 0
    BY <1>1, <1>2, MulNumber
  <2>2. Near(r, Number(Two) * Number(e), Unity) /\ Number(Two) * Number(e) \in Int
    BY <1>1, <1>2, MulFinite
  <2> HIDE DEF r
  <2> QED BY <2>1, <2>2, FiniteFacts
<1> HIDE DEF r
<1>4. Number(Two) * Number(e) <= Number(Two) * Unity /\ Unity \in Nat \ {0}
  <2>1. Number(e) <= Unity /\ Number(e) \in Int /\ Number(e) >= 0 /\ Unity \in Nat \ {0} /\ Number(Two) = 2 * Unity
    <3>1. Number(e) <= Number(One) /\ Number(e) \in Int /\ Number(e) >= 0
      BY <1>1, NumberClimbs, NumberFacts
    <3> QED BY <3>1, Landmarks
  <2> DEFINE n == Number(e)
             u == Unity
  <2>2. n \in Nat /\ u \in Nat /\ n <= u /\ 2 * u \in Nat
    BY <2>1
  <2> HIDE DEF n, u
  <2>3. (2 * u) * n <= (2 * u) * u
    BY <2>2
  <2> QED BY <2>1, <2>3 DEF n, u
<1>5. r <= Two
  BY <1>1, <1>3, <1>4, NearAgainst
<1>6. Finite(r)
  BY <1>1, <1>3, <1>5, FiniteFacts DEF Finite
<1> QED BY <1>3, <1>6 DEF r

\* Where expm1 is called, from its crossover up to 0, it answers a number that is not positive.
LEMMA Expm1Facts ==
  ASSUME NEW t \in Codes, t <= 0, - DirectComplement <= t
  PROVE  Expm1(t) \in Codes /\ Expm1(t) <= 0
<1> DEFINE e == Exp(Half(t))
           z == Sinh(Half(t))
           y == Mul(Two, e)
<1>1. z \in Codes /\ Finite(z) /\ z <= 0
  BY SinhFacts
<1>2. e \in Codes /\ e >= 0 /\ e <= One
  <2> DEFINE h == Half(t)
  <2>1. h \in Codes /\ h <= 0
    BY SinhFacts
  <2> HIDE DEF h
  <2>2. Exp(h) \in 0 .. Infinity /\ Exp(h) \in Codes /\ Exp(h) <= One
    BY <2>1, ExpNumber
  <2>3. Exp(h) >= 0
    BY <2>2, FiniteFacts
  <2> QED BY <2>2, <2>3 DEF h
<1> HIDE DEF e, z
<1>3. y \in Codes /\ y >= 0 /\ Finite(y)
  BY <1>2, TwiceFinite
<1> HIDE DEF y
<1>4. Mul(y, z) \in Codes /\ Mul(y, z) <= 0
  BY <1>1, <1>3, MulNumber
<1> QED BY <1>4 DEF Expm1, e, z, y

\* Where the log of it is called, just below 0, the sum of its terms meets no inf - inf.
LEMMA LnAbsExpm1Facts ==
  ASSUME NEW t \in Codes, t <= 0, - DirectComplement <= t
  PROVE  LnAbsExpm1(t) \in Codes
<1> DEFINE h == Half(t)
           z == Sinh(h)
           a == Abs(z)
           b == Add(LN_2, h)
<1>1. h \in Codes /\ h <= 0 /\ Finite(h) /\ z \in Codes /\ Finite(z) /\ z <= 0
  BY SinhFacts
<1> HIDE DEF h, z
<1>2. a \in Codes /\ a >= 0 /\ Finite(a)
  <2>1. z \in Int /\ - z \in Codes /\ Finite(- z)
    BY <1>1, FiniteFacts
  <2>2. z = 0 => a = z
    BY <2>1 DEF Abs
  <2>3. z < 0 => a = - z
    BY <2>1 DEF Abs
  <2> QED BY <1>1, <2>1, <2>2, <2>3
<1> HIDE DEF a
<1>3. Ln(a) \in Codes /\ Ln(a) # Infinity
  <2>1. Ln(a) \in Codes /\ (a > 0 => Finite(Ln(a))) /\ (a = 0 => Ln(a) = - Infinity)
    BY <1>2, LnNumber
  <2>2. a \in Int /\ Infinity # - Infinity
    BY <1>2, FiniteFacts
  <2> DEFINE l == Ln(a)
  <2> HIDE DEF l
  <2>3. l \in Codes /\ (a > 0 => Finite(l)) /\ (a = 0 => l = - Infinity)
    BY <2>1 DEF l
  <2> QED BY <1>2, <2>2, <2>3, FiniteFacts DEF l
<1>4. LN_2 \in Codes /\ Finite(LN_2) /\ LN_2 >= 0
  <2>1. Two \in Codes /\ Finite(Two) /\ Two > 0 /\ Two >= 0 /\ Two >= One
    BY FiniteFacts
  <2> QED BY <2>1, LnNumber DEF LN_2
<1>5. b \in Codes /\ b # Infinity
  <2> DEFINE l == LN_2
  <2>1. b \in Codes /\ Near(b, Number(l) + Number(h), 1)
    BY <1>1, <1>4, AddFinite
  <2> HIDE DEF b, l
  <2>2. l \in Codes /\ Finite(l) /\ l \in Int /\ h \in Int /\ b \in Int /\ Infinity \in Int
    BY <1>1, <1>4, <2>1, FiniteFacts DEF l
  <2>3. Number(l) \in Int /\ Number(h) \in Int /\ Number(h) <= 0
    BY <1>1, <2>2, NumberFacts
  <2>4. Number(l) + Number(h) <= Number(l) * 1 /\ Number(l) + Number(h) \in Int /\ 1 \in Nat \ {0}
    BY <2>3
  <2>5. b <= l
    BY <2>1, <2>2, <2>4, NearAgainst
  <2> QED BY <2>1, <2>2, <2>5 DEF Finite
<1> DEFINE l == Ln(a)
<1>6. LnAbsExpm1(t) = Add(b, l)
  BY DEF LnAbsExpm1, b, l, a, z, h
<1>7. l \in Codes /\ l # Infinity
  BY <1>3
<1> HIDE DEF b, l
<1>8. Infinity # - Infinity
  BY FiniteFacts
<1> QED BY <1>5, <1>6, <1>7, AddNumber

-----------------------------------------------------------------------------
(***************************************************************************)
(* Facts about neighbouring floats that a form's branches rest on.         *)
(***************************************************************************)

\* A positive float is no more than twice the one before it.
LEMMA Doubles ==
  ASSUME NEW c \in Nat, c >= 1
  PROVE  Value(c) \in Nat /\ Gap(c) \in Nat \ {0} /\ Value(c + 1) = Value(c) + Gap(c) /\ Gap(c) <= Value(c)
<1> DEFINE m == MagnitudeOf(c)
           g == Gap(c)
<1>1. m \in Nat /\ g \in Nat \ {0} /\ Value(c) = m * g /\ Value(c) \in Nat
  BY CodeFacts, FormatFacts DEF Value
<1>2. m >= 1
  <2>1. /\ c = Offset(c) * Leading + m /\ Offset(c) \in Nat /\ (Offset(c) # 0 => m >= Leading)
        /\ Leading \in Nat /\ Leading >= 2
    BY CodeFacts, FormatFacts
  <2>2. CASE Offset(c) = 0
    <3>1. Offset(c) * Leading = 0
      BY <2>1, <2>2
    <3> HIDE DEF m
    <3> QED BY <1>1, <2>1, <3>1
  <2>3. CASE Offset(c) # 0
    <3> HIDE DEF m
    <3> QED BY <1>1, <2>1, <2>3
  <2> QED BY <2>2, <2>3
<1>3. Value(c + 1) = Value(c) + g
  BY ValueStep
<1> HIDE DEF m, g
<1>4. 1 * g <= m * g
  BY <1>1, <1>2, Products
<1>5. g <= Value(c)
  BY <1>1, <1>4
<1> QED BY <1>1, <1>3, <1>5 DEF g

\* A difference is no higher when less is taken from more ...
LEMMA SubClimbs ==
  ASSUME NEW x \in Codes, NEW y \in Codes, NEW z \in Codes, NEW w \in Codes,
         Finite(x), Finite(y), Finite(z), Finite(w), x <= z, w <= y
  PROVE  Sub(x, y) <= Sub(z, w)
<1>1. /\ Sub(x, y) \in Int /\ Near(Sub(x, y), Number(x) - Number(y), 1) /\ Number(x) - Number(y) \in Int
      /\ Sub(z, w) \in Int /\ Near(Sub(z, w), Number(z) - Number(w), 1) /\ Number(z) - Number(w) \in Int
  <2>1. Sub(x, y) \in Codes /\ Sub(z, w) \in Codes
    BY SubFinite
  <2> QED BY <2>1, SubFinite, FiniteFacts
<1>2. Number(x) \in Int /\ Number(y) \in Int /\ Number(z) \in Int /\ Number(w) \in Int
      /\ Number(x) <= Number(z) /\ Number(w) <= Number(y)
  BY FiniteFacts, NumberFacts, NumberClimbs
<1>3. (Number(x) - Number(y)) * 1 <= (Number(z) - Number(w)) * 1 /\ 1 \in Nat \ {0}
  BY <1>2
<1> QED BY <1>1, <1>3, NearClimbs

\* ... and stays between its operands when both are positive.
LEMMA SubBetween ==
  ASSUME NEW x \in Codes, NEW y \in Codes, Finite(x), Finite(y), x >= 0, y >= 0
  PROVE  Sub(x, y) \in Codes /\ - y <= Sub(x, y) /\ Sub(x, y) <= x /\ Finite(Sub(x, y))
<1> DEFINE r == Sub(x, y)
<1>1. r \in Codes /\ r \in Int /\ Near(r, Number(x) - Number(y), 1) /\ Number(x) - Number(y) \in Int
  <2>1. r \in Codes
    BY SubFinite
  <2> QED BY <2>1, SubFinite, FiniteFacts
<1>2. /\ x \in Int /\ y \in Int /\ - y \in Codes /\ Number(x) \in Int /\ Number(y) \in Int
      /\ Number(x) >= 0 /\ Number(y) >= 0 /\ Number(- y) = - Number(y)
  <2>1. x \in Int /\ y \in Int /\ - y \in Codes
    BY FiniteFacts
  <2>2. \A i \in Int : Number(i) \in Int /\ (i >= 0 => Number(i) >= 0) /\ Number(- i) = - Number(i)
    BY NumberFacts
  <2> QED BY <2>1, <2>2
<1> HIDE DEF r
<1>3. Number(- y) * 1 <= Number(x) - Number(y) /\ Number(x) - Number(y) <= Number(x) * 1 /\ 1 \in Nat \ {0}
  BY <1>2
<1>4. - y <= r /\ r <= x
  BY <1>1, <1>2, <1>3, NearAgainst
<1>5. Finite(r)
  <2>1. - Infinity < y /\ y < Infinity /\ - Infinity < x /\ x < Infinity
    BY DEF Finite
  <2>2. r # NaN /\ Infinity \in Int /\ - Infinity \in Int
    BY <1>1, FiniteFacts
  <2> QED BY <1>1, <1>2, <1>4, <2>1, <2>2 DEF Finite
<1> QED BY <1>1, <1>4, <1>5 DEF r

\* Adding what is not negative does not move a float down.
LEMMA AddAbove ==
  ASSUME NEW x \in Codes, NEW y \in Codes, Finite(x), y >= 0
  PROVE  Add(x, y) \in Codes /\ x <= Add(x, y)
<1> DEFINE r == Add(x, y)
<1>1. x \in Int /\ y \in Int /\ y # - Infinity /\ x # Infinity /\ x # - Infinity /\ Infinity \in Int /\ x <= Infinity
  <2>1. x \in Int /\ y \in Int /\ - Infinity < 0 /\ - Infinity \in Int /\ Infinity \in Int /\ x # Infinity /\ x # - Infinity
    BY FiniteFacts
  <2>2. x <= Infinity
    BY <2>1 DEF Codes
  <2>3. y # - Infinity
    BY <2>1
  <2> QED BY <2>1, <2>2, <2>3
<1>2. r \in Codes /\ r \in Int /\ (y = Infinity => r = Infinity)
  <2>1. r \in Codes /\ (y = Infinity => r = Infinity)
    BY <1>1, AddNumber
  <2> QED BY <2>1, FiniteFacts
<1>3. CASE y = Infinity
  BY <1>1, <1>2, <1>3
<1>4. CASE y # Infinity
  <2>1. Finite(y)
    BY <1>1, <1>4, FiniteFacts
  <2>2. Near(r, Number(x) + Number(y), 1)
    BY <2>1, AddFinite
  <2>3. Number(x) \in Int /\ Number(y) \in Int /\ Number(y) >= 0
    BY <1>1, NumberFacts
  <2> HIDE DEF r
  <2>4. Number(x) * 1 <= Number(x) + Number(y) /\ Number(x) + Number(y) \in Int /\ 1 \in Nat \ {0}
    BY <2>3
  <2>5. x <= r
    BY <1>2, <2>2, <2>4, NearAgainst
  <2> QED BY <1>2, <2>5 DEF r
<1> QED BY <1>3, <1>4

\* The logs of two positive numbers are a finite distance apart.
LEMMA LnDifference ==
  ASSUME NEW x \in Codes, NEW y \in Codes, Finite(x), x > 0, Finite(y), y > 0
  PROVE  Sub(Ln(x), Ln(y)) \in Codes /\ Finite(Sub(Ln(x), Ln(y)))
<1> DEFINE u == Ln(x)
           v == Ln(y)
           r == Sub(u, v)
<1>1. /\ u \in Codes /\ Finite(u) /\ - Far <= u /\ u <= Far
      /\ v \in Codes /\ Finite(v) /\ - Far <= v /\ v <= Far
  <2>1. x >= 0 /\ y >= 0
    BY FiniteFacts
  <2> QED BY <2>1, LnNumber
<1> HIDE DEF u, v
<1>2. r \in Codes /\ r \in Int /\ Near(r, Number(u) - Number(v), 1) /\ Number(u) - Number(v) \in Int
  <2>1. r \in Codes
    BY <1>1, SubFinite
  <2> QED BY <1>1, <2>1, SubFinite, FiniteFacts
<1> HIDE DEF r
<1>3. /\ u \in Int /\ v \in Int /\ Number(u) \in Int /\ Number(v) \in Int /\ Far \in Int /\ Number(Far) \in Nat
      /\ - Number(Far) <= Number(u) /\ Number(u) <= Number(Far) /\ - Number(Far) <= Number(v) /\ Number(v) <= Number(Far)
  <2>1. u \in Int /\ v \in Int /\ Far \in Int /\ - Far \in Int /\ Number(- Far) = - Number(Far) /\ Number(Far) \in Nat
    BY <1>1, FarFacts, FiniteFacts
  <2>2. Number(- Far) <= Number(u) /\ Number(u) <= Number(Far) /\ Number(- Far) <= Number(v) /\ Number(v) <= Number(Far)
    BY <1>1, <2>1, NumberClimbs
  <2> QED BY <2>1, <2>2, NumberFacts
<1> DEFINE c == Infinity - 1
<1>4. c \in Nat /\ c >= 1 /\ c + 1 = Infinity /\ Infinity \in Int
  BY FormatFacts
<1> HIDE DEF c
<1>5. Number(c) = Value(c) /\ Number(Infinity) = Value(c) + Gap(c) /\ Gap(c) <= Value(c) /\ Value(c) \in Nat /\ Gap(c) \in Nat
  <2>1. Value(c) \in Nat /\ Gap(c) \in Nat \ {0} /\ Value(Infinity) = Value(c) + Gap(c) /\ Gap(c) <= Value(c)
    BY <1>4, Doubles
  <2>2. Number(Infinity) = Value(Infinity) /\ Number(c) = Value(c)
    BY <1>4 DEF Number
  <2> QED BY <2>1, <2>2
<1>6. 2 * Number(Far) <= Number(c)
  BY <1>3, <1>5, FarFacts
<1>7. c \in Codes /\ - c \in Codes /\ Number(- c) = - Number(c)
  <2>1. c \in Codes
    BY <1>4 DEF Codes
  <2> QED BY <1>4, <2>1, FiniteFacts, NumberFacts
<1>8. r <= c /\ - c <= r
  <2>1. /\ Number(u) - Number(v) <= Number(c) * 1 /\ Number(- c) * 1 <= Number(u) - Number(v)
        /\ 1 \in Nat \ {0}
    BY <1>3, <1>5, <1>6, <1>7
  <2> QED BY <1>2, <1>7, <2>1, NearAgainst
<1>9. Finite(r)
  <2>1. r # Infinity /\ r # - Infinity
    BY <1>2, <1>4, <1>8
  <2> QED BY <1>2, <2>1, FiniteFacts
<1> QED BY <1>2, <1>9 DEF r, u, v

\* The float of one half and the one below One, by their values.
LEMMA HalfAndBelowOne ==
  /\ NearestTo(1, 2, 0) \in Codes
  /\ \E c \in Nat : c + 1 <= NearestTo(1, 2, 0) /\ c \in Codes /\ Unity <= 4 * Value(c)
  /\ One - 1 \in Nat /\ One - 1 \in Codes /\ Value(One - 1) \in Nat
  /\ \E g \in Nat : Value(One - 1) = Unity - g /\ g * (2 * Leading) = Unity
<1>1. /\ Precision \in Nat /\ Precision >= 3 /\ Depth \in Nat /\ Depth >= Precision /\ MinUnit \in Int /\ MinUnit = - Depth
      /\ Leading \in Nat /\ Leading >= 2 /\ 2 * Leading = 2 ^ Precision
      /\ Unity \in Nat \ {0} /\ One \in Int /\ Infinity \in Int /\ One < Infinity /\ 1 < One
  <2>1. One < Infinity
    BY FiniteFacts DEF Finite
  <2> QED BY <2>1, FormatFacts, Landmarks, FiniteFacts
<1> DEFINE u == Depth - Precision
<1>2. u \in Nat /\ 2 ^ u \in Nat \ {0} /\ Unity = (2 * Leading) * 2 ^ u
  <2>1. u \in Nat /\ Unity = 2 ^ (Precision + u)
    BY <1>1 DEF Unity
  <2> HIDE DEF u
  <2>2. 2 ^ (Precision + u) = 2 ^ Precision * 2 ^ u
    BY <1>1, <2>1, PowerSum
  <2> QED BY <1>1, <2>1, <2>2, PowerIsPositive
<1>3. One = Pattern(Leading, MinUnit + (u + 1))
  BY <1>1 DEF One
<1>4. MinUnit + u = - Precision
  BY <1>1
<1> HIDE DEF u
<1> DEFINE p == 2 ^ u
<1>5. p \in Nat \ {0} /\ Unity = (2 * Leading) * p
  BY <1>2
<1> DEFINE h == Pattern(Leading, MinUnit + u)
<1>6. h \in Nat /\ h = u * Leading + Leading /\ u * Leading \in Nat /\ Value(h) = Leading * p
  <2>1. Leading <= 2 * Leading /\ Leading >= Leading
    BY <1>1
  <2> QED BY <1>1, <1>2, <2>1, ValueOfPattern
<1>7. One = (u + 1) * Leading + Leading
  <2>1. Leading <= 2 * Leading /\ Leading >= Leading /\ u + 1 \in Nat
    BY <1>1, <1>2
  <2> QED BY <1>1, <1>3, <2>1, ValueOfPattern
<1> DEFINE k == 2 * Leading - 1
           b == Pattern(k, MinUnit + u)
<1>8. b \in Nat /\ b = u * Leading + k /\ Value(b) = k * p
  <2>1. k \in Nat /\ k <= 2 * Leading /\ k >= Leading
    BY <1>1
  <2> HIDE DEF k
  <2> QED BY <1>1, <1>2, <2>1, ValueOfPattern
<1> HIDE DEF p, h, b
<1>9. (u + 1) * Leading = u * Leading + Leading
  BY <1>1, <1>2
<1>10. b = One - 1
  BY <1>1, <1>6, <1>7, <1>8, <1>9
<1>11. h <= Infinity - 1 /\ h \in Codes /\ h >= 2
  <2>1. h <= One
    BY <1>1, <1>6, <1>7, <1>9
  <2>2. h \in Int /\ - Infinity <= h /\ h <= Infinity /\ h >= 2 /\ h <= Infinity - 1
    BY <1>1, <1>6, <2>1
  <2> QED BY <2>2 DEF Codes
<1>12. 2 * Value(h) = Unity /\ Value(h) \in Nat
  BY <1>1, <1>5, <1>6
<1> DEFINE n == NearestTo(1, 2, 0)
<1>13. n \in Codes /\ n \in Int /\ h <= n
  <2>1. 1 \in Nat /\ 2 \in Nat \ {0}
    OBVIOUS
  <2>2. n \in Codes /\ 1 * Unity \in Nat /\ Rounds(n, 1 * Unity, 2)
    BY <2>1, NearestWhole
  <2>3. n \in Int
    BY <2>2, FiniteFacts
  <2>4. Value(h) * 2 <= 1 * Unity
    BY <1>1, <1>12
  <2>5. h \in 0 .. Infinity
    BY <1>1, <1>6, <1>11
  <2> HIDE DEF n
  <2>6. h <= n
    BY <2>1, <2>2, <2>4, <2>5, RoundsAgainst
  <2> QED BY <2>2, <2>3, <2>6
<1> HIDE DEF n
<1>14. \E c \in Nat : c + 1 <= n /\ c \in Codes /\ Unity <= 4 * Value(c)
  <2> DEFINE c == h - 1
  <2>1. c \in Nat /\ c >= 1 /\ c + 1 = h
    BY <1>6, <1>11
  <2> HIDE DEF c
  <2>2. c \in Codes
    BY <1>1, <1>11, <2>1 DEF Codes
  <2>3. Value(c) \in Nat /\ Gap(c) \in Nat \ {0} /\ Value(h) = Value(c) + Gap(c) /\ Gap(c) <= Value(c)
    BY <2>1, Doubles
  <2>4. Unity <= 4 * Value(c)
    BY <1>1, <1>12, <2>3
  <2>5. c + 1 <= n
    BY <1>13, <2>1
  <2> QED BY <2>1, <2>2, <2>4, <2>5
<1>15. One - 1 \in Codes
  BY <1>1 DEF Codes
<1>16. Value(One - 1) = Unity - p /\ p * (2 * Leading) = Unity /\ Value(One - 1) \in Nat
  <2>1. Value(One - 1) = k * p
    BY <1>8, <1>10
  <2>2. k * p = (2 * Leading) * p - p /\ k \in Nat
    BY <1>1, <1>5
  <2>3. k * p \in Nat
    BY <1>5, <2>2
  <2>4. p * (2 * Leading) = (2 * Leading) * p
    BY <1>1, <1>5
  <2> HIDE DEF k
  <2> QED BY <1>5, <2>1, <2>2, <2>3, <2>4
<1>17. One - 1 \in Nat
  BY <1>1
<1>18. p \in Nat
  BY <1>5
<1> QED BY <1>13, <1>14, <1>15, <1>16, <1>17, <1>18 DEF n

\* Half of the scale and more: the relative excess stays above -1, whatever the roundings do.
LEMMA ExcessAboveMinusOne ==
  ASSUME NEW x \in Codes, NEW s \in Codes, Finite(x), Finite(s), x > 0, s > 0, NearestTo(1, 2, 0) <= Div(x, s)
  PROVE  - One < Div(Sub(x, s), s)
<1>1. /\ x \in Int /\ s \in Int /\ x >= 0 /\ s >= 0 /\ s # 0 /\ One \in Int /\ 1 < One /\ Infinity \in Int
      /\ Unity \in Nat \ {0} /\ Leading \in Nat /\ Leading >= 4 /\ s < Infinity
  <2>1. Leading >= 4
    <3>1. 2 * Leading = 2 ^ Precision /\ Leading \in Nat /\ Precision \in Nat /\ Precision >= 3
      BY FormatFacts
    <3>2. 2 * 2 ^ 2 <= 2 ^ Precision /\ 2 ^ Precision \in Nat
      <4>1. 2 \in Nat /\ 2 < Precision
        BY <3>1
      <4> QED BY <3>1, <4>1, PowerBelow, PowerIsPositive
    <3>3. 2 ^ 2 = 4
      <4>1. 0 \in Nat /\ 1 \in Nat /\ 0 + 1 = 1 /\ 1 + 1 = 2
        OBVIOUS
      <4>2. 2 ^ 1 = 2 * 2 ^ 0 /\ 2 ^ 2 = 2 * 2 ^ 1
        BY <4>1, PowerStep
      <4> QED BY <4>2, PowerZero
    <3> HIDE DEF Leading
    <3> QED BY <3>1, <3>2, <3>3
  <2>2. x \in Int /\ s \in Int /\ One \in Int /\ 1 < One /\ Infinity \in Int /\ s < Infinity
    BY FiniteFacts DEF Finite
  <2> QED BY <2>1, <2>2, FormatFacts, Landmarks
<1>2. PICK c \in Nat : c + 1 <= NearestTo(1, 2, 0) /\ c \in Codes /\ Unity <= 4 * Value(c)
  BY HalfAndBelowOne
<1>3. NearestTo(1, 2, 0) \in Int
  BY HalfAndBelowOne, FiniteFacts
<1> DEFINE N == Number(s)
           X == Number(x)
<1>4. N \in Nat \ {0} /\ X \in Nat \ {0} /\ X * Unity \in Int /\ Near(Div(x, s), X * Unity, N) /\ Div(x, s) \in Int
  <2>1. Div(x, s) \in Codes /\ N \in Nat \ {0} /\ X * Unity \in Int /\ Near(Div(x, s), X * Unity, N)
    BY <1>1, DivFinite
  <2>2. X \in Int /\ X > 0
    BY <1>1, NumberFacts
  <2>3. X \in Nat \ {0}
    <3> HIDE DEF X
    <3> QED BY <2>2
  <2>4. Div(x, s) \in Int
    BY <2>1, FiniteFacts
  <2> HIDE DEF X, N
  <2> QED BY <2>1, <2>3, <2>4
<1>5. N < 4 * X
  <2> SUFFICES ASSUME 4 * X <= N PROVE FALSE
    BY <1>4
  <2> HIDE DEF N, X
  <2> DEFINE v == Value(c)
  <2>1. v \in Nat /\ Number(c) = v /\ Unity <= 4 * v
    <3>1. Value(c) \in Nat
      BY CodeFacts
    <3> QED BY <1>2, <3>1 DEF Number
  <2> HIDE DEF v
  <2>2. (4 * X) * Unity <= N * Unity
    BY <1>1, <1>4, Products
  <2>3. N * Unity <= N * (4 * v)
    BY <1>1, <1>4, <2>1, Products
  <2>4. (4 * X) * Unity = 4 * (X * Unity) /\ N * (4 * v) = 4 * (v * N)
    BY <1>1, <1>4, <2>1
  <2>5. X * Unity <= v * N
    <3>1. X * Unity \in Int /\ v * N \in Int /\ N * Unity \in Int
      BY <1>1, <1>4, <2>1
    <3> DEFINE i == X * Unity
               j == v * N
               k == N * Unity
    <3>2. 4 * i <= k /\ k <= 4 * j /\ i \in Int /\ j \in Int /\ k \in Int
      BY <2>2, <2>3, <2>4, <3>1
    <3> HIDE DEF i, j, k
    <3>3. i <= j
      BY <3>2
    <3> QED BY <3>3 DEF i, j
  <2>6. Div(x, s) <= c
    BY <1>2, <1>4, <2>1, <2>5, NearAgainst
  <2> QED BY <1>2, <1>3, <1>4, <2>6
<1> DEFINE b == s - 1
           G == Gap(b)
           M == MagnitudeOf(b)
<1>6. /\ b \in Nat /\ b + 1 = s /\ b \in Codes /\ - b \in Codes /\ - b \in Int
  <2>1. b \in Nat /\ b + 1 = s /\ b \in Codes
    BY <1>1 DEF Codes
  <2> QED BY <2>1, FiniteFacts
<1> HIDE DEF b
<1>7. /\ G \in Nat \ {0} /\ M \in Nat /\ M <= 2 * Leading - 1 /\ Value(b) = M * G
      /\ (Offset(b) # 0 => M >= Leading) /\ (Offset(b) = 0 => G = 1)
  <2>1. Offset(b) = 0 => G = 1
    BY PowerZero DEF Gap
  <2> QED BY <1>1, <1>6, <2>1, CodeFacts DEF Value
<1>8. N = M * G + G
  <2>1. Value(b + 1) = Value(b) + G
    BY <1>6, ValueStep
  <2>2. N = Value(s)
    BY <1>1 DEF Number
  <2> QED BY <1>6, <1>7, <2>1, <2>2
<1> HIDE DEF N, X, G, M
<1>9. M * G \in Nat /\ Number(- b) = - (M * G)
  <2>1. Number(b) = M * G
    BY <1>6, <1>7 DEF Number
  <2>2. Number(- b) = - Number(b)
    BY <1>6, NumberFacts
  <2> QED BY <1>7, <2>1, <2>2
<1>10. G <= X
  <2>1. CASE Offset(b) = 0
    BY <1>4, <1>7, <2>1
  <2>2. CASE Offset(b) # 0
    <3>1. 4 * G <= M * G
      <4>1. 4 <= M /\ 4 \in Int
        BY <1>1, <1>7, <2>2
      <4> QED BY <1>7, <4>1, Products
    <3> QED BY <1>4, <1>5, <1>7, <1>8, <1>9, <3>1
  <2> QED BY <2>1, <2>2
<1> DEFINE y == Sub(x, s)
<1>11. y \in Codes /\ y \in Int /\ Finite(y) /\ Near(y, X - N, 1) /\ X - N \in Int
  <2>1. y \in Codes /\ Finite(y)
    BY <1>1, SubBetween
  <2>2. Near(y, X - N, 1) /\ X - N \in Int
    BY SubFinite DEF X, N
  <2> QED BY <2>1, <2>2, FiniteFacts
<1> HIDE DEF y
<1>12. - b <= y
  <2>1. Number(- b) * 1 <= X - N /\ 1 \in Nat \ {0}
    BY <1>4, <1>7, <1>8, <1>9, <1>10
  <2> QED BY <1>6, <1>11, <2>1, NearAgainst
<1> DEFINE Y == Number(y)
<1>13. Y \in Int /\ - (M * G) <= Y
  BY <1>6, <1>9, <1>11, <1>12, NumberFacts, NumberClimbs
<1> DEFINE r == Div(y, s)
<1>14. r \in Int /\ Y * Unity \in Int /\ Near(r, Y * Unity, N)
  <2>1. r \in Codes /\ Y * Unity \in Int /\ Near(r, Y * Unity, N)
    BY <1>1, <1>11, DivFinite DEF N
  <2> QED BY <2>1, FiniteFacts
<1> HIDE DEF Y, r
<1>15. PICK g \in Nat : Value(One - 1) = Unity - g /\ g * (2 * Leading) = Unity
  BY HalfAndBelowOne
<1> DEFINE o == One - 1
<1>16. o \in Nat /\ o \in Codes /\ - o \in Codes /\ - o \in Int /\ Number(- o) = - (Unity - g) /\ - One < - o
  <2>1. o \in Nat /\ o \in Codes
    BY HalfAndBelowOne
  <2>2. Number(o) = Unity - g
    <3>1. ~ o < 0
      BY <2>1
    <3> QED BY <1>15, <3>1 DEF Number
  <2>3. Number(- o) = - Number(o) /\ - o \in Codes /\ - o \in Int
    BY <2>1, NumberFacts, FiniteFacts
  <2>4. - One < - o
    BY <1>1
  <2> HIDE DEF o
  <2> QED BY <2>1, <2>2, <2>3, <2>4
<1> HIDE DEF o
<1>17. Number(- o) * N <= Y * Unity
  <2>1. (- (M * G)) * Unity <= Y * Unity
    <3>1. - (M * G) \in Int
      BY <1>9
    <3> QED BY <1>1, <1>9, <1>13, <3>1, Products
  <2>2. N <= (2 * Leading) * G
    <3>1. (M + 1) * G <= (2 * Leading) * G
      <4>1. M + 1 <= 2 * Leading /\ M + 1 \in Int /\ 2 * Leading \in Int /\ G \in Nat /\ G \in Int
        BY <1>1, <1>7
      <4> QED BY <4>1, Products
    <3>2. (M + 1) * G = M * G + G
      BY <1>7
    <3> QED BY <1>8, <3>1, <3>2
  <2>3. g * N <= g * ((2 * Leading) * G)
    <3>1. (2 * Leading) * G \in Int
      BY <1>1, <1>7
    <3> QED BY <1>4, <2>2, <3>1, Products
  <2>4. g * ((2 * Leading) * G) = (g * (2 * Leading)) * G
    BY <1>1, <1>7
  <2>5. g * N <= Unity * G
    BY <1>15, <2>3, <2>4
  <2>6. Number(- o) * N = g * N - Unity * N
    BY <1>1, <1>4, <1>15, <1>16
  <2>7. Unity * N = (M * G) * Unity + Unity * G
    BY <1>1, <1>7, <1>8, <1>9
  <2>8. (- (M * G)) * Unity = - ((M * G) * Unity)
    BY <1>1, <1>9
  <2>9. /\ g * N \in Int /\ Unity * G \in Int /\ Unity * N \in Int /\ (M * G) * Unity \in Int /\ Y * Unity \in Int
    BY <1>1, <1>4, <1>7, <1>9, <1>13
  <2> DEFINE i1 == g * N
             i2 == Unity * G
             i3 == Unity * N
             i4 == (M * G) * Unity
             i5 == Y * Unity
             i6 == Number(- o) * N
  <2>10. i1 <= i2 /\ i6 = i1 - i3 /\ i3 = i4 + i2 /\ - i4 <= i5 /\ i1 \in Int /\ i2 \in Int /\ i3 \in Int /\ i4 \in Int /\ i5 \in Int
    BY <2>1, <2>5, <2>6, <2>7, <2>8, <2>9
  <2> HIDE DEF i1, i2, i3, i4, i5, i6
  <2>11. i6 <= i5
    BY <2>10
  <2> QED BY <2>11 DEF i5, i6
<1>18. - o <= r
  BY <1>4, <1>14, <1>16, <1>17, NearAgainst
<1>19. - One < r
  BY <1>1, <1>14, <1>16, <1>18
<1> QED BY <1>19 DEF r, y

-----------------------------------------------------------------------------
(***************************************************************************)
(* Bernoulli and Uniform.                                                  *)
(***************************************************************************)

\* Bernoulli: every method answers a number, for every probability.
LEMMA BernoulliNumbers ==
  ASSUME NEW p \in Codes, Probability(p), NEW x \in Codes
  PROVE  /\ BernoulliPmf(p, x) \in Codes /\ BernoulliLnPmf(p, x) \in Codes
         /\ BernoulliCdf(p, x) \in Codes /\ BernoulliLnCdf(p, x) \in Codes
         /\ BernoulliSf(p, x) \in Codes /\ BernoulliLnSf(p, x) \in Codes
         /\ BernoulliPpf(p, x) \in Codes /\ BernoulliIsf(p, x) \in Codes
<1>1. p >= 0 /\ p <= One /\ Finite(p) /\ p \in Int /\ One \in Int
  BY FiniteFacts DEF Probability, InUnit
<1>2. Sub(One, p) \in Codes
  BY <1>1, FiniteFacts, SubFinite
<1>3. Ln1p(Neg(p)) \in Codes
  <2>1. Neg(p) \in Codes /\ - One <= Neg(p)
    BY <1>1, FiniteFacts
  <2> QED BY <2>1, Ln1pNumber
<1>4. Ln(p) \in Codes
  BY <1>1, LnNumber
<1>5. 0 \in Codes /\ One \in Codes /\ - Infinity \in Codes
  BY FiniteFacts
<1>6. BernoulliPmf(p, x) \in Codes /\ BernoulliLnPmf(p, x) \in Codes
  BY <1>2, <1>3, <1>4, <1>5 DEF BernoulliPmf, BernoulliLnPmf, Mass
<1>7. /\ BernoulliCdf(p, x) \in Codes /\ BernoulliLnCdf(p, x) \in Codes
      /\ BernoulliSf(p, x) \in Codes /\ BernoulliLnSf(p, x) \in Codes
  BY <1>2, <1>3, <1>4, <1>5 DEF BernoulliCdf, BernoulliLnCdf, BernoulliSf, BernoulliLnSf, Steps
<1>8. BernoulliPpf(p, x) \in Codes /\ BernoulliIsf(p, x) \in Codes
  BY <1>5 DEF BernoulliPpf, BernoulliIsf, AsFloat
<1> QED BY <1>6, <1>7, <1>8

\* Accepted bounds have a finite positive range, and shares of it are between 0 and 1.
LEMMA UniformBounds ==
  ASSUME NEW min \in Codes, NEW max \in Codes, UniformAccepts(min, max)
  PROVE  /\ Finite(min) /\ Finite(max) /\ min < max /\ min \in Int /\ max \in Int
         /\ UniformRange(min, max) \in Codes /\ Finite(UniformRange(min, max)) /\ UniformRange(min, max) >= 1
         /\ \A x \in Codes : min <= x /\ x <= max =>
              /\ Below(min, max, x) \in Codes /\ 0 <= Below(min, max, x) /\ Below(min, max, x) <= One
              /\ Above(min, max, x) \in Codes /\ 0 <= Above(min, max, x) /\ Above(min, max, x) <= One
<1> DEFINE R == UniformRange(min, max)
<1>1. /\ Finite(min) /\ Finite(max) /\ min < max /\ min \in Int /\ max \in Int
      /\ R \in Codes /\ R \in Int /\ Finite(R) /\ R >= 1 /\ R = Sub(max, min)
  <2>1. Finite(min) /\ Finite(max) /\ min < max /\ Finite(R) /\ R = Sub(max, min) /\ max > min
    BY DEF UniformAccepts, UniformRange
  <2>2. max # Infinity /\ min # - Infinity /\ max # - Infinity /\ min \in Int /\ max \in Int
    BY <2>1, FiniteFacts
  <2>3. R \in Codes /\ R >= 1
    <3> HIDE DEF R
    <3>1. Sub(max, min) \in Codes /\ Sub(max, min) >= 1
      BY <2>1, <2>2, SubNumber
    <3> QED BY <2>1, <3>1
  <2> QED BY <2>1, <2>2, <2>3, FiniteFacts
<1>2. R > 0 /\ R # 0
  BY <1>1
<1>3. ASSUME NEW d \in Codes, Finite(d), 0 <= d, d <= R
      PROVE  Div(d, R) \in Codes /\ 0 <= Div(d, R) /\ Div(d, R) <= One
  <2> HIDE DEF R
  <2>1. d \in Int /\ d >= 0
    BY <1>3, FiniteFacts
  <2>2. Div(d, R) \in Codes /\ Div(d, R) >= 0 /\ Div(d, R) <= One
    BY <1>1, <1>2, <1>3, <2>1, DivNumber, DivWithinOne
  <2> QED BY <2>2
<1>4. ASSUME NEW x \in Codes, NEW y \in Codes, min <= x, x <= y, y <= max
      PROVE  LET d == Sub(y, x) IN d \in Codes /\ Finite(d) /\ 0 <= d /\ d <= R
  <2> DEFINE d == Sub(y, x)
  <2>1. x \in Int /\ y \in Int /\ Infinity \in Int /\ - Infinity \in Int /\ y >= x
    BY <1>4, FiniteFacts
  <2>2. Finite(x) /\ Finite(y)
    <3>1. - Infinity < min /\ max < Infinity
      BY <1>1 DEF Finite
    <3>2. - Infinity < x /\ x < Infinity /\ - Infinity < y /\ y < Infinity /\ x # NaN /\ y # NaN
      <4>1. x # NaN /\ y # NaN
        BY FiniteFacts
      <4> QED BY <1>1, <1>4, <2>1, <3>1, <4>1
    <3> QED BY <3>2 DEF Finite
  <2>3. d \in Codes
    BY <2>2, SubFinite
  <2>4. d >= 0
    <3>1. ~ (y = Infinity /\ x = Infinity) /\ ~ (y = - Infinity /\ x = - Infinity)
      BY <2>2, FiniteFacts
    <3> QED BY <2>1, <3>1, SubNumber
  <2>5. d <= R
    <3>1. d <= Sub(max, min)
      BY <1>1, <1>4, <2>2, SubClimbs
    <3> QED BY <1>1, <3>1
  <2>6. Finite(d)
    <3>1. R < Infinity
      BY <1>1 DEF Finite
    <3> HIDE DEF d, R
    <3>2. d \in Int /\ d # NaN /\ Infinity \in Int /\ - Infinity < 0 /\ - Infinity \in Int
      BY <2>3, FiniteFacts
    <3> QED BY <1>1, <2>4, <2>5, <3>1, <3>2 DEF Finite
  <2> QED BY <2>3, <2>4, <2>5, <2>6
<1>5. ASSUME NEW x \in Codes, min <= x, x <= max
      PROVE  /\ Below(min, max, x) \in Codes /\ 0 <= Below(min, max, x) /\ Below(min, max, x) <= One
             /\ Above(min, max, x) \in Codes /\ 0 <= Above(min, max, x) /\ Above(min, max, x) <= One
  <2>1. min <= min /\ max <= max
    BY <1>1
  <2> DEFINE d == Sub(x, min)
             e == Sub(max, x)
  <2>2. d \in Codes /\ Finite(d) /\ 0 <= d /\ d <= R
    BY <1>4, <1>5, <2>1
  <2>3. e \in Codes /\ Finite(e) /\ 0 <= e /\ e <= R
    BY <1>4, <1>5, <2>1
  <2> HIDE DEF d, e
  <2>4. Div(d, R) \in Codes /\ 0 <= Div(d, R) /\ Div(d, R) <= One
    BY <1>3, <2>2
  <2>5. Div(e, R) \in Codes /\ 0 <= Div(e, R) /\ Div(e, R) <= One
    BY <1>3, <2>3
  <2> QED BY <2>4, <2>5 DEF d, e, Below, Above
<1> QED BY <1>1, <1>5

\* Uniform: every method answers a number, for all bounds the check accepts.
LEMMA UniformNumbers ==
  ASSUME NEW min \in Codes, NEW max \in Codes, UniformAccepts(min, max), NEW x \in Codes
  PROVE  /\ UniformPdf(min, max, x) \in Codes /\ UniformLnPdf(min, max, x) \in Codes
         /\ UniformCdf(min, max, x) \in Codes /\ UniformLnCdf(min, max, x) \in Codes
         /\ UniformSf(min, max, x) \in Codes /\ UniformLnSf(min, max, x) \in Codes
         /\ InUnit(x) => UniformPpf(min, max, x) \in Codes /\ UniformIsf(min, max, x) \in Codes
<1> DEFINE R == UniformRange(min, max)
<1>1. 0 \in Codes /\ One \in Codes /\ Finite(One) /\ - Infinity \in Codes /\ x \in Int
  BY FiniteFacts
<1>2. /\ Finite(min) /\ Finite(max) /\ min < max /\ min \in Int /\ max \in Int
      /\ R \in Codes /\ R \in Int /\ Finite(R) /\ R >= 1 /\ R >= 0 /\ R # 0
  <2>1. /\ Finite(min) /\ Finite(max) /\ min < max /\ min \in Int /\ max \in Int
        /\ R \in Codes /\ Finite(R) /\ R >= 1
    BY UniformBounds
  <2> HIDE DEF R
  <2>2. R \in Int
    BY <2>1, FiniteFacts
  <2> QED BY <2>1, <2>2
<1> HIDE DEF R
<1>3. UniformPdf(min, max, x) \in Codes
  <2>1. Div(One, R) \in Codes
    BY <1>1, <1>2, DivNumber
  <2> QED BY <1>1, <2>1 DEF UniformPdf, Density, R
<1>4. UniformLnPdf(min, max, x) \in Codes
  <2>1. Ln(R) \in Codes
    BY <1>2, LnNumber
  <2>2. Neg(Ln(R)) \in Codes
    <3> DEFINE l == Ln(R)
    <3>1. l \in Codes
      BY <2>1
    <3> HIDE DEF l
    <3>2. Neg(l) \in Codes
      BY <3>1, FiniteFacts
    <3> QED BY <3>2 DEF l
  <2> QED BY <1>1, <2>2 DEF UniformLnPdf, Density, R
<1>8. /\ UniformCdf(min, max, x) \in Codes /\ UniformLnCdf(min, max, x) \in Codes
      /\ UniformSf(min, max, x) \in Codes /\ UniformLnSf(min, max, x) \in Codes
  <2>1. CASE x < min
    BY <1>1, <1>3, <1>4, <2>1 DEF UniformCdf, UniformSf, UniformLnCdf, UniformLnSf, Regions
  <2>2. CASE x >= max
    <3>1. ~ x < min
      BY <1>1, <1>2, <2>2
    <3> QED BY <1>1, <2>2, <3>1 DEF UniformCdf, UniformSf, UniformLnCdf, UniformLnSf, Regions
  <2>3. CASE min <= x /\ x < max
    <3> DEFINE d == Below(min, max, x)
               e == Above(min, max, x)
    <3>1. d \in Codes /\ 0 <= d /\ d <= One /\ e \in Codes /\ 0 <= e /\ e <= One
      <4>1. min <= x /\ x <= max
        BY <1>1, <1>2, <2>3
      <4> QED BY <4>1, UniformBounds
    <3> HIDE DEF d, e
    <3>2. d \in Int /\ e \in Int /\ One \in Int /\ d >= 0 /\ e >= 0
      BY <3>1, FiniteFacts
    <3>3. Ln(d) \in Codes /\ Ln(e) \in Codes
      BY <3>1, <3>2, LnNumber
    <3>4. Ln1p(Neg(d)) \in Codes /\ Ln1p(Neg(e)) \in Codes
      <4>1. Neg(d) \in Codes /\ Neg(e) \in Codes /\ - One <= Neg(d) /\ - One <= Neg(e)
        BY <3>1, <3>2, FiniteFacts
      <4> QED BY <4>1, Ln1pNumber
    <3>5. ~ x < min /\ ~ x >= max
      BY <1>1, <1>2, <2>3
    <3>6. UniformCdf(min, max, x) = d /\ UniformSf(min, max, x) = e
      BY <3>5 DEF UniformCdf, UniformSf, Regions, d, e
    <3>7. UniformLnCdf(min, max, x) \in {Ln1p(Neg(e)), Ln(d)} /\ UniformLnSf(min, max, x) \in {Ln1p(Neg(d)), Ln(e)}
      BY <3>5 DEF UniformLnCdf, UniformLnSf, Regions, d, e
    <3> QED BY <3>1, <3>3, <3>4, <3>6, <3>7
  <2> QED BY <1>1, <1>2, <2>1, <2>2, <2>3
<1>9. ASSUME NEW at_zero \in Codes, NEW at_one \in Codes, Finite(at_zero), Finite(at_one), NEW step \in Codes, Finite(step),
             InUnit(x)
      PROVE  FromNearestBound(at_zero, at_one, step, x) \in Codes
  <2> DEFINE i == Mul(x, step)
             c == Sub(One, x)
             j == Mul(c, step)
  <2>1. Finite(x) /\ Finite(c) /\ c \in Codes
    <3>1. x >= 0 /\ x <= One /\ One \in Int /\ One >= 0
      BY <1>1, <1>9, FiniteFacts DEF InUnit
    <3>2. Finite(x)
      <4>1. One < Infinity /\ - Infinity < 0 /\ x # NaN /\ Infinity \in Int /\ - Infinity \in Int
        BY FiniteFacts DEF Finite
      <4> QED BY <1>1, <3>1, <4>1 DEF Finite
    <3> QED BY <1>1, <3>1, <3>2, SubBetween
  <2> HIDE DEF c
  <2>2. i \in Codes /\ j \in Codes
    BY <1>9, <2>1, MulFinite
  <2> HIDE DEF i, j
  <2>3. at_zero # Infinity /\ at_zero # - Infinity /\ at_one # Infinity /\ at_one # - Infinity
    BY <1>9, FiniteFacts
  <2>4. Add(at_zero, i) \in Codes /\ Sub(at_one, j) \in Codes
    BY <1>9, <2>2, <2>3, AddNumber, SubNumber
  <2> QED BY <2>4 DEF FromNearestBound, i, j, c
<1>10. InUnit(x) => UniformPpf(min, max, x) \in Codes /\ UniformIsf(min, max, x) \in Codes
  <2>1. Neg(R) \in Codes /\ Finite(Neg(R))
    BY <1>2, FiniteFacts
  <2> QED BY <1>2, <1>9, <2>1 DEF UniformPpf, UniformIsf, R
<1> QED BY <1>3, <1>4, <1>8, <1>10

\* A draw of Uniform is in [min, max), though scaling a variate below 1 may round up to max.
LEMMA UniformDrawInside ==
  ASSUME NEW min \in Codes, NEW max \in Codes, UniformAccepts(min, max), NEW u \in Codes, 0 <= u, u <= One
  PROVE  UniformDraw(min, max, u) \in Codes /\ min <= UniformDraw(min, max, u) /\ UniformDraw(min, max, u) < max
<1> DEFINE R == UniformRange(min, max)
           i == Mul(R, u)
           x == Add(min, i)
<1>1. Finite(min) /\ Finite(max) /\ min < max /\ min \in Int /\ max \in Int /\ R \in Codes /\ Finite(R) /\ R >= 1
  BY UniformBounds
<1> HIDE DEF R
<1>2. R \in Int /\ u \in Int /\ Infinity \in Int /\ - Infinity \in Int /\ max <= Infinity /\ - Infinity <= min
  BY <1>1, FiniteFacts DEF Codes
<1>3. i \in Codes /\ i >= 0
  <2>1. R >= 0 /\ u >= 0 /\ R # 0
    BY <1>1, <1>2
  <2> QED BY <1>1, <2>1, MulNumber
<1> HIDE DEF i
<1>4. x \in Codes /\ min <= x
  BY <1>1, <1>3, AddAbove
<1>5. x \in Int
  BY <1>4, FiniteFacts
<1>6. UniformDraw(min, max, u) = IF x < max THEN x ELSE max - 1
  BY DEF UniformDraw, x, i, R
<1> HIDE DEF x
<1>7. max - 1 \in Codes /\ min <= max - 1 /\ max - 1 < max
  BY <1>1, <1>2 DEF Codes
<1> QED BY <1>1, <1>4, <1>5, <1>6, <1>7

\* Uniform's mean is inside its bounds, though they may be whole binades apart.
LEMMA MidpointInside ==
  ASSUME NEW min \in Codes, NEW max \in Codes, UniformAccepts(min, max)
  PROVE  Midpoint(min, max) \in Codes /\ min <= Midpoint(min, max) /\ Midpoint(min, max) <= max
<1> DEFINE R == UniformRange(min, max)
           h == Half(R)
           x == Add(min, h)
           M == Number(max)
           N == Number(min)
<1>1. /\ Finite(min) /\ Finite(max) /\ min < max /\ min \in Int /\ max \in Int
      /\ R \in Codes /\ Finite(R) /\ R >= 1 /\ R = Sub(max, min)
  BY UniformBounds DEF UniformRange
<1>2. Near(R, M - N, 1) /\ M - N \in Int
  <2>1. Near(Sub(max, min), M - N, 1) /\ M - N \in Int
    BY <1>1, SubFinite
  <2> QED BY <1>1, <2>1
<1> HIDE DEF R
<1>3. R \in Int /\ Infinity \in Int /\ - Infinity < 0 /\ R <= Infinity /\ R >= 0
  BY <1>1, FiniteFacts DEF Codes
<1>4. h \in Codes /\ h >= 0 /\ h <= R /\ Near(h, Number(R), 2)
  BY <1>1, <1>3, HalfFacts
<1>5. h \in Int
  BY <1>4, FiniteFacts
<1>6. M \in Int /\ N \in Int /\ N < M
  BY <1>1, NumberFacts, NumberClimbs
<1> HIDE DEF h, M, N
<1>7. Number(h) <= M - N
  <2>1. CASE R = 1
    <3>1. Number(h) <= Number(R) /\ Number(h) \in Int /\ Number(R) = 1
      BY <1>3, <1>4, <1>5, <2>1, NumberFacts, NumberClimbs, Landmarks
    <3> QED BY <1>6, <3>1
  <2>2. CASE R # 1
    <3> DEFINE c == R - 1
    <3>1. c \in Nat /\ c >= 1 /\ c + 1 = R
      BY <1>1, <1>3, <2>2
    <3>2. c \in Codes
      BY <1>3, <3>1 DEF Codes
    <3> HIDE DEF c
    <3>3. Number(c) = Value(c) /\ Number(R) = Value(c) + Gap(c) /\ Gap(c) <= Value(c) /\ Value(c) \in Nat /\ Gap(c) \in Nat
      <4>1. Value(c) \in Nat /\ Gap(c) \in Nat \ {0} /\ Value(R) = Value(c) + Gap(c) /\ Gap(c) <= Value(c)
        BY <3>1, Doubles
      <4>2. Number(R) = Value(R) /\ Number(c) = Value(c)
        BY <1>3, <3>1 DEF Number
      <4> QED BY <4>1, <4>2
    <3>4. Number(R) <= Number(c) * 2 /\ Number(R) \in Int
      BY <3>3
    <3>5. h <= c
      BY <1>4, <1>5, <3>2, <3>4, NearAgainst
    <3>6. Number(h) <= Number(c) /\ Number(h) \in Int
      BY <1>5, <3>1, <3>5, NumberFacts, NumberClimbs
    <3>7. Number(c) <= M - N
      <4> SUFFICES ASSUME M - N < Number(c) PROVE FALSE
        BY <1>2, <3>3
      <4>1. M - N <= Number(c) * 1 /\ 1 \in Nat \ {0}
        BY <1>2, <3>3
      <4>2. R <= c
        BY <1>2, <1>3, <3>2, <4>1, NearAgainst
      <4> QED BY <1>3, <3>1, <4>2
    <3> QED BY <1>2, <3>3, <3>6, <3>7
  <2> QED BY <2>1, <2>2
<1>8. x \in Codes /\ min <= x
  BY <1>1, <1>4, AddAbove
<1>9. x <= max
  <2>1. Finite(h)
    <3>1. R # Infinity
      BY <1>1, FiniteFacts
    <3>2. h # Infinity /\ h # - Infinity
      BY <1>3, <1>4, <1>5, <3>1
    <3> QED BY <1>4, <3>2, FiniteFacts
  <2>2. Near(x, N + Number(h), 1) /\ x \in Int
    BY <1>1, <1>4, <1>8, <2>1, AddFinite, FiniteFacts DEF N
  <2>3. Number(h) \in Int
    BY <1>5, NumberFacts
  <2>4. N + Number(h) <= M * 1 /\ N + Number(h) \in Int /\ 1 \in Nat \ {0}
    BY <1>6, <1>7, <2>3
  <2> HIDE DEF x
  <2> QED BY <2>2, <2>4, NearAgainst DEF M
<1> QED BY <1>8, <1>9 DEF Midpoint, x, h, R

-----------------------------------------------------------------------------
(***************************************************************************)
(* Geometric.                                                              *)
(***************************************************************************)
\* The log of a failure is a negative number, finite unless every trial succeeds.
LEMMA LnFailureNumber ==
  ASSUME NEW p \in Codes, PositiveProbability(p)
  PROVE  /\ ln_failure(p) \in Codes /\ ln_failure(p) <= -1 /\ (p # One => Finite(ln_failure(p)))
         /\ Finite(p) /\ p > 0 /\ p <= One /\ p \in Int
<1>1. Finite(p) /\ 0 < p /\ p <= One /\ p \in Int /\ One \in Int
  BY FiniteFacts DEF PositiveProbability
<1>2. Neg(p) \in Codes /\ - One <= Neg(p) /\ Neg(p) < 0 /\ Finite(Neg(p)) /\ (p # One => - One < Neg(p))
  BY <1>1, FiniteFacts
<1>3. /\ Ln1p(Neg(p)) \in Codes /\ Ln1p(Neg(p)) <= -1
      /\ p # One => Finite(Ln1p(Neg(p)))
  BY <1>2, Ln1pNumber
<1> QED BY <1>1, <1>3 DEF ln_failure

\* The support point a tail's log points at is a number.
LEMMA SupportPointNumber ==
  ASSUME NEW t \in Codes, NEW l \in Codes, Finite(l), l <= -1
  PROVE  SmallestSupportPoint(t, l) \in Codes
<1>1. l # 0 /\ Finite(One) /\ One \in Codes
  BY FiniteFacts
<1> DEFINE d == Div(t, l)
           c == Ceil(d)
<1>2. d \in Codes
  BY <1>1, DivNumber
<1> HIDE DEF d
<1>3. c \in Codes
  BY <1>2, FloorFacts
<1> HIDE DEF c
<1>4. Sub(c, One) \in Codes
  BY <1>1, <1>3, FiniteFacts, SubNumber
<1> QED BY <1>1, <1>3, <1>4 DEF SmallestSupportPoint, AtLeastOne, c, d

\* Geometric: every method answers a number, for every probability, the degenerate one too.
LEMMA GeometricNumbers ==
  ASSUME NEW p \in Codes, PositiveProbability(p), NEW x \in Codes
  PROVE  /\ GeometricPmf(p, x) \in Codes /\ GeometricLnPmf(p, x) \in Codes
         /\ GeometricCdf(p, x) \in Codes /\ GeometricLnCdf(p, x) \in Codes
         /\ GeometricSf(p, x) \in Codes /\ GeometricLnSf(p, x) \in Codes
         /\ InUnit(x) => GeometricPpf(p, x) \in Codes /\ GeometricIsf(p, x) \in Codes
<1> DEFINE l == ln_failure(p)
<1>1. /\ l \in Codes /\ l <= -1 /\ (p # One => Finite(l))
      /\ Finite(p) /\ p > 0 /\ p <= One /\ p \in Int
  BY LnFailureNumber
<1> HIDE DEF l
<1>2. /\ 0 \in Codes /\ One \in Codes /\ Finite(One) /\ - Infinity \in Codes /\ x \in Int /\ l \in Int /\ One \in Int /\ One > 0
      /\ - Infinity < 0 /\ l # 0 /\ l <= 0 /\ p >= 0 /\ p # 0 /\ Infinity \in Int
  <2>1. l \in Int
    BY <1>1, FiniteFacts
  <2> QED BY <1>1, <2>1, FiniteFacts
<1>3. Finite(Ln(p)) /\ Ln(p) \in Codes
  BY <1>1, <1>2, LnNumber
<1> DEFINE m == Mul(Before(x), l)
<1>4. ASSUME GeometricOnSupport(x), x # One
      PROVE  m \in Codes /\ m <= 0
  <2>1. x > One
    BY <1>2, <1>4 DEF GeometricOnSupport
  <2> DEFINE b == Before(x)
  <2>2. b \in Codes /\ b >= 1
    <3>1. One # Infinity /\ One # - Infinity
      BY <1>2, FiniteFacts
    <3> QED BY <1>2, <2>1, <3>1, SubNumber DEF Before
  <2> HIDE DEF b
  <2>3. b \in Int
    BY <2>2, FiniteFacts
  <2>4. b >= 0 /\ b # 0
    BY <2>2, <2>3
  <2>5. Mul(b, l) \in Codes /\ Mul(b, l) <= 0
    BY <1>1, <1>2, <2>2, <2>4, MulNumber
  <2> QED BY <2>5 DEF b
<1>5. GeometricPmf(p, x) \in Codes
  <2>1. CASE GeometricOnSupport(x) /\ x # One
    <3> DEFINE e == Exp(m)
    <3>1. e \in Codes
      BY <1>4, <2>1, ExpNumber
    <3> HIDE DEF e
    <3>2. Mul(p, e) \in Codes
      BY <1>1, <1>2, <3>1, MulNumber
    <3>3. GeometricPmf(p, x) = Mul(p, e)
      BY <2>1 DEF GeometricPmf, e, m, l
    <3> QED BY <3>2, <3>3
  <2>2. CASE ~ (GeometricOnSupport(x) /\ x # One)
    BY <1>2, <2>2 DEF GeometricPmf
  <2> QED BY <2>1, <2>2
<1>6. GeometricLnPmf(p, x) \in Codes
  <2>1. CASE GeometricOnSupport(x) /\ x # One
    <3>1. m \in Codes
      BY <1>4, <2>1
    <3>2. GeometricLnPmf(p, x) = Add(m, Ln(p))
      BY <2>1 DEF GeometricLnPmf, m, l
    <3> DEFINE q == Ln(p)
    <3>3. Finite(q) /\ q \in Codes /\ q # Infinity /\ q # - Infinity
      BY <1>3, FiniteFacts
    <3> HIDE DEF m, q
    <3>4. Add(m, q) \in Codes
      BY <3>1, <3>3, AddNumber
    <3> QED BY <3>2, <3>4 DEF q
  <2>2. CASE ~ (GeometricOnSupport(x) /\ x # One)
    BY <1>2, <1>3, <2>2 DEF GeometricLnPmf
  <2> QED BY <2>1, <2>2
<1> DEFINE s == GeometricLnSf(p, x)
<1>7. s \in Codes /\ s <= 0
  <2>1. CASE x < One
    BY <1>2, <2>1 DEF GeometricLnSf, Sides
  <2>2. CASE ~ x < One
    <3> DEFINE f == Floor(x)
    <3>1. f \in Codes /\ f >= One
      BY <1>2, <2>2, FloorFacts
    <3> HIDE DEF f
    <3>2. f \in Int
      BY <3>1, FiniteFacts
    <3>3. f >= 0 /\ f # 0
      BY <1>2, <3>1, <3>2
    <3>4. Mul(f, l) \in Codes /\ Mul(f, l) <= 0
      BY <1>1, <1>2, <3>1, <3>3, MulNumber
    <3>5. s = Mul(f, l)
      BY <2>2 DEF GeometricLnSf, Sides, f, l
    <3> HIDE DEF s
    <3> QED BY <3>4, <3>5
  <2> QED BY <2>1, <2>2
<1> HIDE DEF s, m
<1>8. s \in Int /\ Exp(s) \in Codes /\ Exp(s) <= One /\ Exp(s) \in Int
  <2>1. Exp(s) \in Codes /\ Exp(s) <= One
    BY <1>7, ExpNumber
  <2> QED BY <1>7, <2>1, FiniteFacts
<1>9. GeometricSf(p, x) \in Codes
  BY <1>2, <1>8 DEF GeometricSf, Sides, s
<1>10. GeometricCdf(p, x) \in Codes
  <2>1. CASE s <= CDF_DIRECT_COMPLEMENT_MAX
    <3> DEFINE e == Exp(s)
    <3>1. e \in Codes
      BY <1>8
    <3> HIDE DEF e
    <3>2. Sub(One, e) \in Codes
      BY <1>2, <3>1, FiniteFacts, SubNumber
    <3> QED BY <1>2, <2>1, <3>2 DEF GeometricCdf, Sides, s, e
  <2>2. CASE ~ s <= CDF_DIRECT_COMPLEMENT_MAX
    <3>3. - DirectComplement <= s
      BY <1>2, <1>8, <2>2, CrossoverAssumption DEF CDF_DIRECT_COMPLEMENT_MAX
    <3> DEFINE e == Expm1(s)
    <3>4. e \in Codes
      BY <1>7, <3>3, Expm1Facts
    <3> HIDE DEF e
    <3>5. Neg(e) \in Codes
      BY <3>4, FiniteFacts
    <3> QED BY <1>2, <2>2, <3>5 DEF GeometricCdf, Sides, s, e
  <2> QED BY <2>1, <2>2
<1>11. GeometricLnCdf(p, x) \in Codes
  <2>1. CASE s <= LN_CDF_LN_1P_MAX
    <3> DEFINE e == Exp(s)
    <3>1. e \in Codes /\ e <= One /\ e \in Int
      BY <1>8
    <3> HIDE DEF e
    <3>2. Neg(e) \in Codes /\ - One <= Neg(e)
      BY <1>2, <3>1, FiniteFacts
    <3>3. Ln1p(Neg(e)) \in Codes
      BY <3>2, Ln1pNumber
    <3> QED BY <1>2, <2>1, <3>3 DEF GeometricLnCdf, Sides, s, e
  <2>2. CASE ~ s <= LN_CDF_LN_1P_MAX
    <3>1. - DirectComplement <= s
      BY <1>2, <1>8, <2>2, CrossoverAssumption DEF LN_CDF_LN_1P_MAX
    <3>2. LnAbsExpm1(s) \in Codes
      BY <1>7, <3>1, LnAbsExpm1Facts
    <3> QED BY <1>2, <2>2, <3>2 DEF GeometricLnCdf, Sides, s
  <2> QED BY <2>1, <2>2
<1>12. InUnit(x) => GeometricPpf(p, x) \in Codes /\ GeometricIsf(p, x) \in Codes
  <2>1. CASE p = One
    BY <1>2, <2>1 DEF GeometricPpf, GeometricIsf
  <2>2. CASE p # One
    <3> SUFFICES ASSUME InUnit(x) PROVE GeometricPpf(p, x) \in Codes /\ GeometricIsf(p, x) \in Codes
      OBVIOUS
    <3>1. x >= 0 /\ Neg(x) \in Codes /\ - One <= Neg(x)
      BY <1>2, FiniteFacts DEF InUnit
    <3>2. Ln(x) \in Codes /\ Ln1p(Neg(x)) \in Codes
      BY <3>1, LnNumber, Ln1pNumber
    <3>3. SmallestSupportPoint(Ln(x), l) \in Codes /\ SmallestSupportPoint(Ln1p(Neg(x)), l) \in Codes
      BY <1>1, <2>2, <3>2, SupportPointNumber
    <3> QED BY <2>2, <3>3 DEF GeometricPpf, GeometricIsf, l
  <2> QED BY <2>1, <2>2
<1> QED BY <1>5, <1>6, <1>7, <1>9, <1>10, <1>11, <1>12 DEF s

\* A draw of Geometric is a count from 1, up to the cap.
LEMMA GeometricDrawCounts ==
  ASSUME NEW p \in Codes, PositiveProbability(p), NEW u \in Codes, 0 < u, u <= One
  PROVE  GeometricDraw(p, u) \in Codes /\ One <= GeometricDraw(p, u) /\ GeometricDraw(p, u) <= MaxCount
<1> DEFINE l == ln_failure(p)
           t == Ln(u)
           d == Div(t, l)
           k == Ceil(d)
<1>1. l \in Codes /\ l <= -1
  BY LnFailureNumber
<1>2. t \in Codes /\ Finite(t)
  <2>1. u \in Int /\ One < Infinity /\ One \in Int /\ Infinity \in Int
    BY FiniteFacts DEF Finite
  <2>2. u > 0 /\ u >= 0 /\ u # Infinity /\ u # - Infinity
    <3>1. - Infinity < 0
      BY FiniteFacts
    <3> QED BY <2>1, <3>1
  <2>3. Finite(u)
    BY <2>2, FiniteFacts
  <2> QED BY <2>2, <2>3, LnNumber
<1>3. d \in Codes
  <2>1. l # 0
    BY <1>1
  <2> HIDE DEF l, t
  <2> QED BY <1>1, <1>2, <2>1, DivNumber
<1> HIDE DEF d
<1>4. k \in Codes /\ k \in Int /\ k # NaN
  <2>1. k \in Codes
    BY <1>3, FloorFacts
  <2> HIDE DEF k
  <2> QED BY <2>1, FiniteFacts
<1>5. MaxCount \in Int /\ One <= MaxCount /\ One \in Int /\ One # NaN /\ One \in Codes /\ MaxCount \in Codes
  <2>1. One \in Int /\ Infinity \in Int /\ - Infinity < 0 /\ 0 < One /\ - Infinity \in Int /\ One \in Codes /\ One # NaN
    BY FiniteFacts
  <2>2. MaxCount \in Int /\ One <= MaxCount /\ MaxCount <= Infinity - 1
    BY <2>1, CountAssumption
  <2>3. MaxCount \in Codes
    BY <2>1, <2>2 DEF Codes
  <2> QED BY <2>1, <2>2, <2>3
<1>6. GeometricDraw(p, u) = IF k > MaxCount THEN MaxCount ELSE IF k < One THEN One ELSE k
  BY <1>4, <1>5 DEF GeometricDraw, AtLeastOne, LessThan, k, d, t, l
<1> HIDE DEF k
<1> QED BY <1>4, <1>5, <1>6

-----------------------------------------------------------------------------
(***************************************************************************)
(* Exponential and Pareto.                                                 *)
(***************************************************************************)

\* Exponential: on its support every method answers a number; the exponent is never positive.
LEMMA ExponentialNumbers ==
  ASSUME NEW r \in Codes, Positive(r), NEW x \in Codes
  PROVE  /\ x >= 0 =>
              /\ ExponentialPdf(r, x) \in Codes /\ ExponentialLnPdf(r, x) \in Codes
              /\ ExponentialCdf(r, x) \in Codes /\ ExponentialLnCdf(r, x) \in Codes
              /\ ExponentialSf(r, x) \in Codes /\ ExponentialLnSf(r, x) \in Codes
              /\ Mul(Neg(r), x) \in Codes /\ Mul(Neg(r), x) <= 0
              /\ x = Infinity => Mul(Neg(r), x) = - Infinity /\ ExponentialLnPdf(r, x) = - Infinity
         /\ InUnit(x) =>
              /\ ExponentialPpf(r, x) \in Codes /\ ExponentialPpf(r, x) >= 0
              /\ ExponentialIsf(r, x) \in Codes /\ ExponentialIsf(r, x) >= 0
<1>1. /\ Finite(r) /\ r > 0 /\ r # 0 /\ r >= 0 /\ r \in Int /\ x \in Int /\ Neg(r) \in Codes /\ Finite(Neg(r)) /\ Neg(r) <= 0
      /\ Neg(r) # 0 /\ One \in Codes /\ Finite(One) /\ One \in Int /\ Infinity \in Int /\ Infinity > 0
  <2>1. Finite(r) /\ r > 0 /\ r \in Int /\ Neg(r) = - r
    BY FiniteFacts DEF Positive
  <2> QED BY <2>1, FiniteFacts
<1>2. ASSUME x >= 0
      PROVE  /\ ExponentialPdf(r, x) \in Codes /\ ExponentialLnPdf(r, x) \in Codes
             /\ ExponentialCdf(r, x) \in Codes /\ ExponentialLnCdf(r, x) \in Codes
             /\ ExponentialSf(r, x) \in Codes /\ ExponentialLnSf(r, x) \in Codes
             /\ Mul(Neg(r), x) \in Codes /\ Mul(Neg(r), x) <= 0
             /\ x = Infinity => Mul(Neg(r), x) = - Infinity /\ ExponentialLnPdf(r, x) = - Infinity
  <2> DEFINE m == Mul(Neg(r), x)
             t == Mul(r, x)
  <2>1. m \in Codes /\ m <= 0 /\ (x = Infinity => m = - Infinity)
    <3>1. m \in Codes /\ m <= 0 /\ (~ Finite(x) => m = Infinity \/ m = - Infinity)
      BY <1>1, <1>2, MulNumber
    <3>2. x = Infinity => ~ Finite(x)
      BY FiniteFacts
    <3> HIDE DEF m
    <3> QED BY <1>1, <3>1, <3>2
  <2>2. t \in Codes /\ t >= 0 /\ (x = Infinity => t = Infinity)
    <3>1. t \in Codes /\ t >= 0 /\ (~ Finite(x) => t = Infinity \/ t = - Infinity)
      BY <1>1, <1>2, MulNumber
    <3>2. (x = Infinity => ~ Finite(x)) /\ - Infinity < 0
      BY FiniteFacts
    <3> HIDE DEF t
    <3> QED BY <1>1, <3>1, <3>2
  <2> HIDE DEF m, t
  <2>3. t \in Int /\ Neg(t) \in Codes /\ Neg(t) = - t /\ Neg(t) <= 0 /\ t # NaN /\ One # NaN
    <3>1. t \in Int /\ Neg(t) \in Codes /\ Neg(t) = - t /\ t # NaN /\ One # NaN
      BY <1>1, <2>2, FiniteFacts
    <3> QED BY <2>2, <3>1
  <2>4. ExponentialPdf(r, x) \in Codes
    <3> DEFINE g == Half(m)
               h == Exp(g)
    <3>1. g \in Codes
      BY <2>1, HalfFacts
    <3> HIDE DEF g
    <3>2. h \in 0 .. Infinity /\ h \in Codes
      BY <3>1, ExpNumber
    <3> HIDE DEF h
    <3>3. h >= 0
      BY <1>1, <3>2
    <3>4. Mul(Mul(r, h), h) \in Codes
      BY <1>1, <3>2, <3>3, HalvesMeet
    <3> QED BY <3>4 DEF ExponentialPdf, h, g, m
  <2>5. Ln(r) \in Codes /\ Ln(r) # Infinity /\ Ln(r) # - Infinity
    <3> DEFINE l == Ln(r)
    <3>1. l \in Codes /\ Finite(l)
      BY <1>1, LnNumber
    <3> HIDE DEF l
    <3>2. l # Infinity /\ l # - Infinity
      BY <3>1, FiniteFacts
    <3> QED BY <3>1, <3>2 DEF l
  <2>6. ExponentialLnPdf(r, x) \in Codes /\ (x = Infinity => ExponentialLnPdf(r, x) = - Infinity)
    BY <2>2, <2>5, SubNumber DEF ExponentialLnPdf, t
  <2> DEFINE e == Exp(Neg(t))
  <2>7. e \in Codes /\ e <= One /\ e \in Int
    <3>1. e \in Codes /\ e <= One
      BY <2>3, ExpNumber
    <3> QED BY <3>1, FiniteFacts
  <2> HIDE DEF e
  <2> DEFINE d == Expm1(Neg(t))
  <2>8. LessThan(t, CDF_SINH_MAX) => d \in Codes /\ d <= 0
    <3> SUFFICES ASSUME LessThan(t, CDF_SINH_MAX) PROVE d \in Codes /\ d <= 0
      OBVIOUS
    <3>1. t < One
      BY DEF LessThan, CDF_SINH_MAX
    <3>2. - DirectComplement <= Neg(t)
      BY <1>1, <2>3, <3>1, CrossoverAssumption
    <3> QED BY <2>3, <3>2, Expm1Facts
  <2> HIDE DEF d
  <2>9. ExponentialCdf(r, x) \in Codes
    <3>1. CASE LessThan(t, CDF_SINH_MAX)
      <4>1. Neg(d) \in Codes
        <5>1. d \in Codes
          BY <2>8, <3>1
        <5> QED BY <5>1, FiniteFacts
      <4> QED BY <3>1, <4>1 DEF ExponentialCdf, t, d
    <3>2. CASE ~ LessThan(t, CDF_SINH_MAX)
      <4>1. Sub(One, e) \in Codes
        BY <1>1, <2>7, FiniteFacts, SubNumber
      <4> QED BY <3>2, <4>1 DEF ExponentialCdf, t, e
    <3> QED BY <3>1, <3>2
  <2>10. ExponentialLnCdf(r, x) \in Codes
    <3>1. CASE LessThan(t, CDF_SINH_MAX)
      <4>1. Neg(d) \in Codes /\ Neg(d) >= 0
        <5>1. d \in Codes /\ d <= 0
          BY <2>8, <3>1
        <5>2. d \in Int /\ Neg(d) = - d /\ Neg(d) \in Codes
          BY <5>1, FiniteFacts
        <5> QED BY <5>1, <5>2
      <4>2. Ln(Neg(d)) \in Codes
        BY <4>1, LnNumber
      <4> QED BY <3>1, <4>2 DEF ExponentialLnCdf, t, d
    <3>2. CASE ~ LessThan(t, CDF_SINH_MAX)
      <4>1. Neg(e) \in Codes /\ - One <= Neg(e)
        BY <1>1, <2>7, FiniteFacts
      <4>2. Ln1p(Neg(e)) \in Codes
        BY <4>1, Ln1pNumber
      <4> QED BY <3>2, <4>2 DEF ExponentialLnCdf, t, e
    <3> QED BY <3>1, <3>2
  <2>11. ExponentialSf(r, x) \in Codes /\ ExponentialLnSf(r, x) \in Codes
    <3>1. Exp(m) \in Codes
      BY <2>1, ExpNumber
    <3> QED BY <2>1, <3>1 DEF ExponentialSf, ExponentialLnSf, m
  <2> QED BY <2>1, <2>4, <2>6, <2>9, <2>10, <2>11 DEF m
<1>3. ASSUME NEW l \in Codes, l <= 0
      PROVE  Div(Neg(l), r) \in Codes /\ Div(Neg(l), r) >= 0
  <2> DEFINE n == Neg(l)
  <2>1. n \in Codes /\ n >= 0
    <3>1. l \in Int /\ Neg(l) = - l /\ Neg(l) \in Codes
      BY FiniteFacts
    <3> QED BY <1>3, <3>1
  <2> HIDE DEF n
  <2>2. Div(n, r) \in Codes /\ Div(n, r) >= 0
    BY <1>1, <2>1, DivNumber
  <2> QED BY <2>2 DEF n
<1>4. ASSUME InUnit(x)
      PROVE  /\ ExponentialPpf(r, x) \in Codes /\ ExponentialPpf(r, x) >= 0
             /\ ExponentialIsf(r, x) \in Codes /\ ExponentialIsf(r, x) >= 0
  <2>1. x >= 0 /\ x <= One
    BY <1>1, <1>4 DEF InUnit
  <2>2. Neg(x) \in Codes /\ - One <= Neg(x) /\ Neg(x) <= 0
    BY <1>1, <2>1, FiniteFacts
  <2>3. Ln1p(Neg(x)) \in Codes /\ Ln1p(Neg(x)) <= 0
    BY <2>2, Ln1pNumber
  <2>4. Ln(x) \in Codes /\ Ln(x) <= 0
    BY <2>1, LnNumber
  <2> QED BY <1>3, <2>3, <2>4 DEF ExponentialPpf, ExponentialIsf
<1> QED BY <1>2, <1>4

\* The log of x / scale is a number that is not negative, infinite where x is.
LEMMA ParetoLogRatioNumber ==
  ASSUME NEW s \in Codes, Positive(s), NEW x \in Codes, s <= x
  PROVE  /\ ParetoLogRatio(s, x) \in Codes /\ ParetoLogRatio(s, x) >= 0
         /\ x = Infinity => ParetoLogRatio(s, x) = Infinity
<1> DEFINE y == Sub(x, s)
           q == Div(y, s)
<1>1. /\ Finite(s) /\ s > 0 /\ s # 0 /\ s >= 0 /\ s \in Int /\ x \in Int /\ x >= s /\ x > 0 /\ x >= 0 /\ Infinity \in Int /\ Infinity > 0
      /\ s # Infinity /\ s # - Infinity /\ - Infinity < 0 /\ - Infinity \in Int /\ x # - Infinity
  <2>1. /\ Finite(s) /\ s > 0 /\ s \in Int /\ x \in Int /\ Infinity \in Int /\ Infinity > 0 /\ - Infinity < 0 /\ - Infinity \in Int
        /\ s # Infinity /\ s # - Infinity
    BY FiniteFacts DEF Positive
  <2> QED BY <2>1
<1>2. y \in Codes /\ y >= 0 /\ (x = Infinity => y = Infinity)
  BY <1>1, SubNumber
<1> HIDE DEF y
<1>3. q \in Codes /\ q >= 0 /\ (y = Infinity => q = Infinity)
  BY <1>1, <1>2, DivNumber
<1> HIDE DEF q
<1>4. ~ Finite(q) => q = Infinity
  <2>1. q \in Int
    BY <1>3, FiniteFacts
  <2> QED BY <1>1, <1>3, <2>1, FiniteFacts
<1> DEFINE u == Ln(x)
           v == Ln(s)
<1>5. v \in Codes /\ Finite(v) /\ v # Infinity /\ v # - Infinity
  <2>1. v \in Codes /\ Finite(v)
    BY <1>1, LnNumber
  <2> HIDE DEF v
  <2> QED BY <2>1, FiniteFacts
<1>6. u \in Codes /\ (x = Infinity => u = Infinity)
  BY <1>1, LnNumber
<1>7. CASE Finite(q)
  <2>1. ParetoLogRatio(s, x) = Ln1p(q)
    BY <1>7 DEF ParetoLogRatio, q, y
  <2>2. x # Infinity
    BY <1>2, <1>3, <1>7, FiniteFacts
  <2>3. - One <= q
    <3>1. One \in Int /\ 0 < One /\ q \in Int
      BY <1>3, FiniteFacts
    <3> QED BY <1>3, <3>1
  <2> QED BY <1>3, <2>1, <2>2, <2>3, Ln1pNumber
<1>8. CASE ~ Finite(q)
  <2>1. ParetoLogRatio(s, x) = Sub(u, v)
    BY <1>8 DEF ParetoLogRatio, q, y
  <2>2. CASE x = Infinity
    <3>1. Sub(u, v) \in Codes /\ Sub(u, v) = Infinity
      <4> HIDE DEF u, v
      <4> QED BY <1>5, <1>6, <2>2, SubNumber
    <3> QED BY <1>1, <2>1, <3>1
  <2>3. CASE x # Infinity
    <3>1. Finite(x)
      BY <1>1, <2>3, FiniteFacts
    <3>3. v <= u
      BY <1>1, LnClimbs
    <3>4. Finite(u)
      BY <1>1, <3>1, LnNumber
    <3>5. Sub(u, v) \in Codes /\ Sub(u, v) >= 0
      <4> HIDE DEF u, v
      <4>1. u # Infinity /\ u # - Infinity /\ u \in Int /\ v \in Int
        BY <1>5, <1>6, <3>4, FiniteFacts
      <4>2. u >= v
        BY <3>3, <4>1
      <4> QED BY <1>5, <1>6, <4>1, <4>2, SubNumber
    <3> QED BY <2>1, <2>3, <3>5
  <2> QED BY <2>2, <2>3
<1> QED BY <1>7, <1>8

\* Pareto: every method answers a number, below its scale too.
LEMMA ParetoNumbers ==
  ASSUME NEW s \in Codes, Positive(s), NEW r \in Codes, Positive(r), NEW x \in Codes
  PROVE  /\ ParetoPdf(s, r, x) \in Codes /\ ParetoLnPdf(s, r, x) \in Codes
         /\ ParetoCdf(s, r, x) \in Codes /\ ParetoLnCdf(s, r, x) \in Codes
         /\ ParetoSf(s, r, x) \in Codes /\ ParetoLnSf(s, r, x) \in Codes
         /\ InUnit(x) => ParetoPpf(s, r, x) \in Codes /\ ParetoIsf(s, r, x) \in Codes
<1>1. /\ Finite(s) /\ s > 0 /\ s \in Int /\ x \in Int /\ 0 \in Codes /\ One \in Codes /\ - Infinity \in Codes
      /\ Finite(r) /\ r > 0
  BY FiniteFacts DEF Positive
<1>2. /\ ParetoPdf(s, r, x) \in Codes /\ ParetoLnPdf(s, r, x) \in Codes
      /\ ParetoCdf(s, r, x) \in Codes /\ ParetoLnCdf(s, r, x) \in Codes
      /\ ParetoSf(s, r, x) \in Codes /\ ParetoLnSf(s, r, x) \in Codes
  <2>1. CASE x < s
    BY <1>1, <2>1 DEF ParetoPdf, ParetoLnPdf, ParetoCdf, ParetoLnCdf, ParetoSf, ParetoLnSf, Sides
  <2>2. CASE ~ x < s
    <3> DEFINE l == ParetoLogRatio(s, x)
    <3>1. l \in Codes /\ l >= 0 /\ (x = Infinity => l = Infinity)
      <4>1. s <= x
        BY <1>1, <2>2
      <4> QED BY <4>1, ParetoLogRatioNumber
    <3> HIDE DEF l
    <3>2. /\ ExponentialLnPdf(r, l) \in Codes /\ ExponentialCdf(r, l) \in Codes /\ ExponentialLnCdf(r, l) \in Codes
          /\ ExponentialSf(r, l) \in Codes /\ ExponentialLnSf(r, l) \in Codes
          /\ Mul(Neg(r), l) \in Codes
          /\ x = Infinity => Mul(Neg(r), l) = - Infinity /\ ExponentialLnPdf(r, l) = - Infinity
      BY <3>1, ExponentialNumbers
    <3>3. /\ ParetoCdf(s, r, x) \in Codes /\ ParetoLnCdf(s, r, x) \in Codes
          /\ ParetoSf(s, r, x) \in Codes /\ ParetoLnSf(s, r, x) \in Codes
      BY <2>2, <3>2 DEF ParetoCdf, ParetoLnCdf, ParetoSf, ParetoLnSf, Sides, l
    <3>4. ParetoLnPdf(s, r, x) \in Codes
      <4> DEFINE e == ExponentialLnPdf(r, l)
                 u == Ln(x)
      <4>1. e \in Codes /\ (x = Infinity => e = - Infinity)
        BY <3>2
      <4>2. u \in Codes /\ (Finite(x) => Finite(u)) /\ (x = Infinity => u = Infinity)
        <5>1. x >= 0 /\ x > 0
          BY <1>1, <2>2
        <5> QED BY <5>1, LnNumber
      <4> HIDE DEF e, u
      <4>3. Sub(e, u) \in Codes
        <5>1. x = Infinity \/ Finite(x)
          <6>1. - Infinity < 0 /\ - Infinity \in Int
            BY FiniteFacts
          <6>2. x # - Infinity
            BY <1>1, <2>2, <6>1
          <6> QED BY <6>2, FiniteFacts
        <5>2. CASE x = Infinity
          <6>1. Infinity # - Infinity
            <7>1. Infinity \in Int /\ - Infinity \in Int /\ Infinity > 0 /\ - Infinity < 0
              BY FiniteFacts
            <7> QED BY <7>1
          <6> QED BY <4>1, <4>2, <5>2, <6>1, SubNumber
        <5>3. CASE Finite(x)
          <6>1. u # Infinity /\ u # - Infinity
            BY <4>2, <5>3, FiniteFacts
          <6> QED BY <4>1, <4>2, <6>1, SubNumber
        <5> QED BY <5>1, <5>2, <5>3
      <4> QED BY <2>2, <4>3 DEF ParetoLnPdf, Sides, e, u, l
    <3>5. ParetoPdf(s, r, x) \in Codes
      <4> DEFINE m == Mul(Neg(r), l)
                 g == Half(m)
                 h == Exp(g)
      <4>1. g \in Codes /\ (x = Infinity => g = - Infinity)
        BY <3>2, HalfFacts
      <4> HIDE DEF g
      <4>2. h \in 0 .. Infinity /\ h \in Codes /\ (x = Infinity => h = 0)
        BY <4>1, ExpNumber
      <4> HIDE DEF h
      <4>3. h >= 0 /\ x > 0
        BY <1>1, <2>2, <4>2, FiniteFacts
      <4>4. Mul(Div(Mul(r, h), x), h) \in Codes
        BY <1>1, <4>2, <4>3, HalvesMeet
      <4> QED BY <2>2, <4>4 DEF ParetoPdf, Sides, h, g, m, l
    <3> QED BY <3>3, <3>4, <3>5
  <2> QED BY <2>1, <2>2
<1>3. InUnit(x) => ParetoPpf(s, r, x) \in Codes /\ ParetoIsf(s, r, x) \in Codes
  <2> SUFFICES ASSUME InUnit(x) PROVE ParetoPpf(s, r, x) \in Codes /\ ParetoIsf(s, r, x) \in Codes
    OBVIOUS
  <2>1. ExponentialPpf(r, x) \in Codes /\ ExponentialIsf(r, x) \in Codes
    BY ExponentialNumbers
  <2> QED BY <1>1, <2>1, ScaleExpFacts DEF ParetoPpf, ParetoIsf
<1> QED BY <1>2, <1>3

-----------------------------------------------------------------------------
(***************************************************************************)
(* Weibull.                                                                *)
(***************************************************************************)

\* The log of x / scale is a number, finite between 0 and infinity.
LEMMA WeibullLogRatioNumber ==
  ASSUME NEW s \in Codes, Positive(s), NEW x \in Codes, 0 <= x
  PROVE  /\ WeibullLogRatio(s, x) \in Codes
         /\ Finite(x) /\ x # 0 => Finite(WeibullLogRatio(s, x))
         /\ x = Infinity => WeibullLogRatio(s, x) = Infinity
<1> DEFINE q == Div(x, s)
           y == Sub(x, s)
           e == Div(y, s)
           u == Ln(x)
           v == Ln(s)
           half == NearestTo(1, 2, 0)
<1>1. /\ Finite(s) /\ s > 0 /\ s # 0 /\ s >= 0 /\ s \in Int /\ x \in Int /\ x >= 0 /\ Infinity \in Int /\ Infinity > 0
      /\ s # Infinity /\ s # - Infinity /\ - Infinity < 0 /\ - Infinity \in Int /\ x # - Infinity /\ One \in Int /\ Two \in Int
      /\ Two < Infinity /\ One < Two /\ 0 < One
  <2>1. /\ Finite(s) /\ s > 0 /\ s \in Int /\ x \in Int /\ Infinity \in Int /\ Infinity > 0 /\ - Infinity < 0 /\ - Infinity \in Int
        /\ s # Infinity /\ s # - Infinity /\ One \in Int /\ Two \in Int /\ Two < Infinity /\ One < Two /\ 0 < One
    BY FiniteFacts DEF Positive
  <2> QED BY <2>1
<1>2. q \in Codes /\ q >= 0 /\ (x = Infinity => q = Infinity) /\ (x <= 0 => q <= 0)
  BY <1>1, DivNumber
<1>3. v \in Codes /\ Finite(v) /\ v # Infinity /\ v # - Infinity
  <2>1. v \in Codes /\ Finite(v)
    BY <1>1, LnNumber
  <2> HIDE DEF v
  <2> QED BY <2>1, FiniteFacts
<1>4. u \in Codes /\ (x = Infinity => u = Infinity)
  BY <1>1, LnNumber
<1>5. half \in Codes /\ half \in Int /\ half >= 1
  <2>1. half \in Codes
    BY HalfAndBelowOne
  <2>2. PICK c \in Nat : c + 1 <= half /\ c \in Codes /\ Unity <= 4 * Value(c)
    BY HalfAndBelowOne
  <2> HIDE DEF half
  <2>3. half \in Int
    BY <2>1, FiniteFacts
  <2> QED BY <2>1, <2>2, <2>3
<1>6. q \in Int
  <2> HIDE DEF q
  <2> QED BY <1>2, FiniteFacts
<1> DEFINE Near1 == half <= q /\ q <= Two
<1>7. CASE Near1
  <2>1. WeibullLogRatio(s, x) = Ln1p(e)
    BY <1>7 DEF WeibullLogRatio, e, y, q, half, Near1
  <2>2. x # Infinity /\ x # 0
    <3> HIDE DEF q, half
    <3> QED BY <1>1, <1>2, <1>5, <1>6, <1>7
  <2>3. Finite(x) /\ x > 0
    BY <1>1, <2>2, FiniteFacts
  <2>4. - One < e
    BY <1>1, <1>7, <2>3, ExcessAboveMinusOne
  <2>5. y \in Codes /\ Finite(y) /\ y <= x /\ y \in Int
    <3>1. y \in Codes /\ Finite(y) /\ y <= x
      BY <1>1, <2>3, SubBetween
    <3> HIDE DEF y
    <3> QED BY <3>1, FiniteFacts
  <2>6. e \in Codes /\ e <= q
    <3> HIDE DEF y
    <3>1. /\ e \in Codes /\ Number(y) * Unity \in Int /\ Number(s) \in Nat \ {0} /\ Near(e, Number(y) * Unity, Number(s))
          /\ Number(x) * Unity \in Int /\ Near(q, Number(x) * Unity, Number(s))
      BY <1>1, <2>3, <2>5, DivFinite
    <3>2. e \in Int
      <4> HIDE DEF e
      <4> QED BY <3>1, FiniteFacts
    <3> HIDE DEF e, q
    <3>3. (Number(y) * Unity) * Number(s) <= (Number(x) * Unity) * Number(s)
      <4>1. Number(y) \in Int /\ Number(x) \in Int /\ Number(y) <= Number(x)
        BY <1>1, <2>5, NumberFacts, NumberClimbs
      <4>2. Number(y) * Unity <= Number(x) * Unity
        BY <4>1, Landmarks, Products
      <4> QED BY <3>1, <4>2, Cancels
    <3> QED BY <1>6, <3>1, <3>2, <3>3, NearClimbs
  <2>7. e \in Int /\ e # Infinity /\ e # - Infinity
    <3> HIDE DEF e, q
    <3>1. e \in Int
      BY <2>6, FiniteFacts
    <3>2. One < Infinity
      BY <1>1
    <3> QED BY <1>1, <1>6, <1>7, <2>4, <2>6, <3>1, <3>2
  <2> HIDE DEF e
  <2>8. Finite(e) /\ - One <= e
    BY <1>1, <2>4, <2>6, <2>7, FiniteFacts
  <2>9. Ln1p(e) \in Codes /\ Finite(Ln1p(e))
    BY <2>4, <2>6, <2>8, Ln1pNumber
  <2> QED BY <2>1, <2>2, <2>9
<1>8. CASE ~ Near1 /\ IsNormal(q)
  <2>1. WeibullLogRatio(s, x) = Ln(q)
    BY <1>8 DEF WeibullLogRatio, q, half, Near1
  <2>2. Finite(q) /\ q > 0
    <3> HIDE DEF q
    <3>1. Finite(q) /\ Abs(q) >= Leading
      BY <1>8 DEF IsNormal, MinNormal
    <3>2. Leading \in Nat /\ Leading >= 2
      BY FormatFacts
    <3>3. Abs(q) = q
      BY <1>2, <1>6, AbsFacts
    <3> QED BY <1>6, <3>1, <3>2, <3>3
  <2>3. x # Infinity
    <3> HIDE DEF q
    <3> QED BY <1>2, <2>2, FiniteFacts
  <2>4. Ln(q) \in Codes /\ Finite(Ln(q))
    <3> HIDE DEF q
    <3> QED BY <1>2, <2>2, LnNumber
  <2> QED BY <2>1, <2>3, <2>4
<1>9. CASE ~ Near1 /\ ~ IsNormal(q)
  <2>1. WeibullLogRatio(s, x) = Sub(u, v)
    BY <1>9 DEF WeibullLogRatio, q, half, u, v, Near1
  <2>2. Sub(u, v) \in Codes /\ (x = Infinity => Sub(u, v) = Infinity)
    <3> HIDE DEF u, v
    <3> QED BY <1>3, <1>4, SubNumber
  <2>3. Finite(x) /\ x # 0 => Finite(Sub(u, v))
    <3> SUFFICES ASSUME Finite(x), x # 0 PROVE Finite(Sub(u, v))
      OBVIOUS
    <3>1. x > 0
      BY <1>1
    <3> QED BY <1>1, <3>1, LnDifference
  <2> QED BY <2>1, <2>2, <2>3
<1> QED BY <1>7, <1>8, <1>9

\* Weibull's density and its log are numbers wherever the power of x / scale is finite.
LEMMA WeibullDensityNumber ==
  ASSUME NEW r \in Codes, Positive(r), NEW s \in Codes, Positive(s), NEW x \in Codes, 0 <= x, x # 0,
         Power(r, s, x) # Infinity
  PROVE  /\ WeibullOnSupport(r, s, x) \in Codes
         /\ Sub(Add(Sub(Ln(r), Ln(s)), Mul(Sub(r, One), WeibullLogRatio(s, x))), Power(r, s, x)) \in Codes
<1> DEFINE l == WeibullLogRatio(s, x)
           t == Power(r, s, x)
           o == Sub(r, One)
           m == Mul(o, l)
<1>1. /\ Finite(s) /\ s > 0 /\ Finite(r) /\ r > 0 /\ r # 0 /\ r >= 0 /\ r \in Int /\ Infinity \in Int /\ Infinity > 0
      /\ One \in Codes /\ Finite(One) /\ One >= 0 /\ - Infinity \in Int /\ - Infinity < 0 /\ x \in Int /\ Infinity \in Codes
  <2>1. /\ Finite(s) /\ s > 0 /\ Finite(r) /\ r > 0 /\ r \in Int /\ Infinity \in Int /\ Infinity > 0 /\ Infinity \in Codes
        /\ One \in Codes /\ Finite(One) /\ One \in Int /\ 0 < One /\ - Infinity \in Int /\ - Infinity < 0 /\ x \in Int
    BY FiniteFacts DEF Positive
  <2> QED BY <2>1
<1>2. l \in Codes /\ (Finite(x) => Finite(l)) /\ (x = Infinity => l = Infinity)
  BY WeibullLogRatioNumber
<1>3. t = Exp(Mul(r, l))
  BY DEF Power, LnPower, t, l
<1> HIDE DEF l
<1>4. Finite(x)
  <2> SUFFICES ASSUME ~ Finite(x) PROVE FALSE
    OBVIOUS
  <2>1. x = Infinity
    BY <1>1, FiniteFacts
  <2>2. l = Infinity
    BY <1>2, <2>1
  <2> DEFINE z == Mul(r, Infinity)
  <2>3. z = Infinity
    <3>1. ~ Finite(Infinity)
      BY <1>1, FiniteFacts
    <3>2. Infinity # 0 /\ Infinity >= 0
      BY <1>1
    <3>3. z >= 0 /\ (z = Infinity \/ z = - Infinity)
      BY <1>1, <3>1, <3>2, MulNumber
    <3> HIDE DEF z
    <3> QED BY <1>1, <3>3
  <2>4. Exp(Infinity) = Infinity
    BY <1>1, ExpNumber
  <2> QED BY <1>3, <2>2, <2>3, <2>4
<1>5. Finite(l)
  BY <1>2, <1>4
<1>6. t \in Codes /\ t # Infinity /\ t # - Infinity
  <2>1. Mul(r, l) \in Codes
    BY <1>1, <1>2, <1>5, MulNumber
  <2>2. t \in 0 .. Infinity /\ t \in Codes
    BY <1>3, <2>1, ExpNumber
  <2>3. t # Infinity
    OBVIOUS
  <2> HIDE DEF t
  <2> QED BY <1>1, <2>2, <2>3
<1>7. o \in Codes /\ Finite(o)
  BY <1>1, SubBetween
<1> HIDE DEF o, t
<1>8. m \in Codes
  BY <1>2, <1>5, <1>7, MulNumber
<1> HIDE DEF m
<1>9. WeibullOnSupport(r, s, x) \in Codes
  <2> DEFINE d == Sub(m, t)
             g == Half(d)
             h == Exp(g)
  <2>1. d \in Codes
    BY <1>6, <1>8, SubNumber
  <2> HIDE DEF d
  <2>2. g \in Codes
    BY <2>1, HalfFacts
  <2> HIDE DEF g
  <2>3. h \in 0 .. Infinity /\ h \in Codes
    BY <2>2, ExpNumber
  <2> HIDE DEF h
  <2>4. h >= 0 /\ s # Infinity
    BY <1>1, <2>3, FiniteFacts
  <2>5. Mul(Div(Mul(r, h), s), h) \in Codes
    BY <1>1, <2>3, <2>4, HalvesMeet
  <2> QED BY <2>5 DEF WeibullOnSupport, h, g, d, m, o, l, t
<1>10. Sub(Add(Sub(Ln(r), Ln(s)), m), t) \in Codes
  <2> DEFINE c == Sub(Ln(r), Ln(s))
             k == Add(c, m)
  <2>1. c \in Codes /\ Finite(c)
    BY <1>1, LnDifference
  <2> HIDE DEF c
  <2>2. c # Infinity /\ c # - Infinity
    BY <2>1, FiniteFacts
  <2>3. k \in Codes
    BY <1>8, <2>1, <2>2, AddNumber
  <2> HIDE DEF k
  <2>4. Sub(k, t) \in Codes
    BY <1>6, <2>3, SubNumber
  <2> QED BY <2>4 DEF k, c
<1> QED BY <1>9, <1>10 DEF m, o, l, t

\* Weibull: every method answers a number.
LEMMA WeibullNumbers ==
  ASSUME NEW r \in Codes, Positive(r), NEW s \in Codes, Positive(s), NEW x \in Codes
  PROVE  /\ WeibullPdf(r, s, x) \in Codes /\ WeibullLnPdf(r, s, x) \in Codes
         /\ WeibullCdf(r, s, x) \in Codes /\ WeibullLnCdf(r, s, x) \in Codes
         /\ WeibullSf(r, s, x) \in Codes /\ WeibullLnSf(r, s, x) \in Codes
         /\ InUnit(x) => WeibullPpf(r, s, x) \in Codes /\ WeibullIsf(r, s, x) \in Codes
<1>1. /\ Finite(s) /\ s > 0 /\ s \in Int /\ x \in Int /\ 0 \in Codes /\ One \in Codes /\ - Infinity \in Codes /\ Infinity \in Codes
      /\ Finite(r) /\ r > 0 /\ r \in Int /\ r # 0 /\ s # 0 /\ Infinity \in Int /\ Infinity > 0 /\ 0 < One /\ One \in Int
  <2>1. /\ Finite(s) /\ s > 0 /\ s \in Int /\ x \in Int /\ 0 \in Codes /\ One \in Codes /\ - Infinity \in Codes /\ Infinity \in Codes
        /\ Finite(r) /\ r > 0 /\ r \in Int /\ Infinity \in Int /\ Infinity > 0 /\ 0 < One /\ One \in Int
    BY FiniteFacts DEF Positive
  <2> QED BY <2>1
<1>2. Positive(One)
  BY <1>1, FiniteFacts DEF Positive
<1>3. /\ WeibullPdf(r, s, x) \in Codes /\ WeibullLnPdf(r, s, x) \in Codes
      /\ WeibullCdf(r, s, x) \in Codes /\ WeibullLnCdf(r, s, x) \in Codes
      /\ WeibullSf(r, s, x) \in Codes /\ WeibullLnSf(r, s, x) \in Codes
  <2>1. CASE x < 0
    BY <1>1, <2>1 DEF WeibullPdf, WeibullLnPdf, WeibullCdf, WeibullLnCdf, WeibullSf, WeibullLnSf, Sides
  <2>2. CASE ~ x < 0
    <3>1. 0 <= x
      BY <1>1, <2>2
    <3> DEFINE l == WeibullLogRatio(s, x)
               m == LnPower(r, s, x)
               t == Power(r, s, x)
    <3>2. m \in Codes
      <4>1. l \in Codes
        BY <3>1, WeibullLogRatioNumber
      <4> HIDE DEF l
      <4>2. Mul(r, l) \in Codes
        BY <1>1, <4>1, MulNumber
      <4> QED BY <4>2 DEF LnPower, l
    <3>3. t = Exp(m)
      BY DEF Power
    <3> HIDE DEF m, t
    <3>4. t \in Codes /\ t >= 0
      <4>1. t \in 0 .. Infinity /\ t \in Codes
        BY <3>2, <3>3, ExpNumber
      <4> QED BY <1>1, <4>1
    <3>5. /\ ExponentialCdf(One, t) \in Codes /\ ExponentialLnCdf(One, t) \in Codes
          /\ ExponentialSf(One, t) \in Codes /\ ExponentialLnSf(One, t) \in Codes
      BY <1>1, <1>2, <3>4, ExponentialNumbers
    <3>6. /\ WeibullCdf(r, s, x) \in Codes /\ WeibullLnCdf(r, s, x) \in Codes
          /\ WeibullSf(r, s, x) \in Codes /\ WeibullLnSf(r, s, x) \in Codes
      BY <2>2, <3>2, <3>3, <3>5 DEF WeibullCdf, WeibullLnCdf, WeibullSf, WeibullLnSf, Sides, m, t
    <3>7. WeibullPdf(r, s, x) \in Codes /\ WeibullLnPdf(r, s, x) \in Codes
      <4>1. CASE x = 0
        <5> DEFINE p == PdfAtOrigin(r, s)
        <5>1. p \in Codes /\ p >= 0
          <6>1. Div(One, s) \in Codes /\ Div(One, s) >= 0
            BY <1>1, DivNumber
          <6>2. Infinity >= 0 /\ 0 >= 0
            BY <1>1
          <6> QED BY <1>1, <6>1, <6>2 DEF PdfAtOrigin
        <5> HIDE DEF p
        <5>2. LnPdfAtOrigin(r, s) \in Codes
          <6> DEFINE v == Ln(s)
          <6>1. v \in Codes
            BY <1>1, LnNumber
          <6> HIDE DEF v
          <6>2. Neg(v) \in Codes
            BY <6>1, FiniteFacts
          <6>3. Ln(p) \in Codes
            BY <5>1, LnNumber
          <6> QED BY <6>2, <6>3 DEF LnPdfAtOrigin, p, v
        <5> QED BY <2>2, <4>1, <5>1, <5>2 DEF WeibullPdf, WeibullLnPdf, Sides, p
      <4>2. CASE x # 0 /\ t = Infinity
        BY <1>1, <2>2, <4>2 DEF WeibullPdf, WeibullLnPdf, Sides, t
      <4>3. CASE x # 0 /\ t # Infinity
        <5>1. /\ WeibullOnSupport(r, s, x) \in Codes
              /\ Sub(Add(Sub(Ln(r), Ln(s)), Mul(Sub(r, One), WeibullLogRatio(s, x))), Power(r, s, x)) \in Codes
          BY <3>1, <4>3, WeibullDensityNumber DEF t
        <5> QED BY <2>2, <4>3, <5>1 DEF WeibullPdf, WeibullLnPdf, Sides, t
      <4> QED BY <4>1, <4>2, <4>3
    <3> QED BY <3>6, <3>7
  <2> QED BY <2>1, <2>2
<1>4. InUnit(x) => WeibullPpf(r, s, x) \in Codes /\ WeibullIsf(r, s, x) \in Codes
  <2> SUFFICES ASSUME InUnit(x) PROVE WeibullPpf(r, s, x) \in Codes /\ WeibullIsf(r, s, x) \in Codes
    OBVIOUS
  <2>1. /\ ExponentialPpf(One, x) \in Codes /\ ExponentialPpf(One, x) >= 0
        /\ ExponentialIsf(One, x) \in Codes /\ ExponentialIsf(One, x) >= 0
    BY <1>1, <1>2, ExponentialNumbers
  <2>2. ASSUME NEW t \in Codes, t >= 0
        PROVE  ScaleExp(s, Div(Ln(t), r)) \in Codes
    <3> DEFINE l == Ln(t)
               d == Div(l, r)
    <3>1. l \in Codes
      BY <2>2, LnNumber
    <3> HIDE DEF l
    <3>2. d \in Codes
      BY <1>1, <3>1, DivNumber
    <3> HIDE DEF d
    <3>3. ScaleExp(s, d) \in Codes
      BY <1>1, <3>2, ScaleExpFacts
    <3> QED BY <3>3 DEF d, l
  <2> QED BY <2>1, <2>2 DEF WeibullPpf, WeibullIsf
<1> QED BY <1>3, <1>4

-----------------------------------------------------------------------------
(***************************************************************************)
(* The invariant: parameters that were accepted keep every answer a        *)
(* number and every draw inside.                                           *)
(***************************************************************************)

\* What can be called, and the phases of a distribution that was accepted.
MethodNames == {"pdf", "ln_pdf"} \cup Tails \cup Inverses
Ready == {"ready", "answered", "returned", "drawn"}

(***************************************************************************)
(* Inductive: what was answered is a number or null because the            *)
(* parameters were accepted and the point was a number itself.             *)
(***************************************************************************)
NumberInvariant ==
  /\ dist \in Dists /\ first \in Codes /\ second \in Codes
  /\ phase \in Ready => Accepts(dist, first, second)
  /\ AnswersAreNumbers
  /\ DrawsStayInside

\* Parameters, points and quantiles are numbers, and null is none.
LEMMA Inputs ==
  /\ Parameters \subseteq Codes /\ Points \subseteq Codes /\ Quantiles \subseteq Codes
  /\ NULL \notin Codes
BY InputsAssumption, FiniteFacts DEF Codes

\* Every method of an accepted distribution answers a number or null, at every point.
LEMMA AnswerNumber ==
  ASSUME dist \in Dists, first \in Codes, second \in Codes, Accepts(dist, first, second),
         NEW m \in MethodNames, NEW x \in Codes
  PROVE  Answer(m, x) \in Codes \cup {NULL}
<1> USE DEF MethodNames, Tails, Inverses, Dists
<1> SUFFICES ASSUME ~ (m \in Inverses /\ ~ InUnit(x)) PROVE Answer(m, x) \in Codes
  BY DEF Answer
<1>1. m \in Inverses => InUnit(x)
  OBVIOUS
<1>2. CASE dist = "uniform"
  <2>1. UniformAccepts(first, second)
    BY <1>2 DEF Accepts
  <2>2. UniformAnswer(m, x) \in Codes
    BY <1>1, <2>1, UniformNumbers DEF UniformAnswer
  <2> QED BY <1>2, <2>2 DEF Answer
<1>3. CASE dist = "bernoulli"
  <2>1. Probability(first)
    BY <1>3 DEF Accepts
  <2>2. BernoulliAnswer(m, x) \in Codes
    BY <2>1, BernoulliNumbers DEF BernoulliAnswer
  <2> QED BY <1>3, <2>2 DEF Answer
<1>4. CASE dist = "geometric"
  <2>1. PositiveProbability(first)
    BY <1>4 DEF Accepts
  <2>2. GeometricAnswer(m, x) \in Codes
    BY <1>1, <2>1, GeometricNumbers DEF GeometricAnswer
  <2> QED BY <1>4, <2>2 DEF Answer
<1>5. CASE dist = "exponential"
  <2>1. Positive(first)
    BY <1>5 DEF Accepts
  <2>2. ExponentialAnswer(m, x) \in Codes
    <3>1. 0 \in Codes /\ One \in Codes /\ - Infinity \in Codes /\ x \in Int
      BY FiniteFacts
    <3>2. CASE x < 0
      BY <1>1, <2>1, <3>1, <3>2, ExponentialNumbers DEF ExponentialAnswer, Sides
    <3>3. CASE ~ x < 0
      <4>1. x >= 0
        BY <3>1, <3>3
      <4> QED BY <1>1, <2>1, <3>1, <3>3, <4>1, ExponentialNumbers DEF ExponentialAnswer, Sides
    <3> QED BY <3>2, <3>3
  <2> QED BY <1>5, <2>2 DEF Answer
<1>6. CASE dist = "pareto"
  <2>1. Positive(first) /\ Positive(second)
    BY <1>6 DEF Accepts
  <2>2. ParetoAnswer(m, x) \in Codes
    BY <1>1, <2>1, ParetoNumbers DEF ParetoAnswer
  <2> QED BY <1>6, <2>2 DEF Answer
<1>7. CASE dist = "weibull"
  <2>1. Positive(first) /\ Positive(second)
    BY <1>7 DEF Accepts
  <2>2. WeibullAnswer(m, x) \in Codes
    BY <1>1, <2>1, WeibullNumbers DEF WeibullAnswer
  <2> QED BY <1>7, <2>2 DEF Answer
<1> QED BY <1>2, <1>3, <1>4, <1>5, <1>6, <1>7

\* A new distribution has answered nothing.
LEMMA InitNumbers == Init => NumberInvariant
<1> SUFFICES ASSUME Init PROVE NumberInvariant
  OBVIOUS
<1>1. dist \in Dists /\ first \in Codes /\ second \in Codes
  <2>1. One \in Codes
    BY FiniteFacts
  <2> QED BY <2>1, Inputs DEF Init
<1>2. phase \notin Ready
  BY DEF Init, Ready
<1>3. AnswersAreNumbers
  BY DEF Init, AnswersAreNumbers
<1>4. DrawsStayInside
  BY DEF Init, DrawsStayInside, Answered
<1> QED BY <1>1, <1>2, <1>3, <1>4 DEF NumberInvariant

\* Each action keeps the invariant: what was accepted stays accepted, and answers stay numbers.
LEMMA NextNumbers == NumberInvariant /\ [Next]_vars => NumberInvariant'
<1> SUFFICES ASSUME NumberInvariant, [Next]_vars PROVE NumberInvariant'
  OBVIOUS
<1>1. /\ dist \in Dists /\ first \in Codes /\ second \in Codes /\ (phase \in Ready => Accepts(dist, first, second))
      /\ answer \in Codes \cup {NULL} /\ back \in Codes \cup {NULL}
      /\ DrawsStayInside
  BY DEF NumberInvariant, AnswersAreNumbers, Codes
<1>2. CASE Validate
  <2>1. NumberInvariant'
    BY <1>1, <1>2 DEF Validate, NumberInvariant, AnswersAreNumbers, Codes, Ready, DrawsStayInside, Answered, Accepts
  <2> QED BY <2>1
<1>3. CASE CallBack
  <2>1. Opposite[method] \in MethodNames /\ method # "mean"
    BY <1>3 DEF CallBack, Opposite, MethodNames, Tails, Inverses
  <2>2. answer \in Codes /\ phase \in Ready
    BY <1>1, <1>3 DEF CallBack, Ready
  <2>3. Answer(Opposite[method], answer) \in Codes \cup {NULL}
    BY <1>1, <2>1, <2>2, AnswerNumber
  <2>4. back' \in Codes \cup {NULL} /\ phase' = "returned" /\ UNCHANGED <<dist, first, second, method, point, answer>>
    BY <1>3, <2>3 DEF CallBack
  <2>5. AnswersAreNumbers'
    BY <1>1, <2>4 DEF AnswersAreNumbers, Codes
  <2>6. DrawsStayInside'
    BY <2>1, <2>4 DEF DrawsStayInside, Answered
  <2>7. Accepts(dist, first, second)'
    BY <1>1, <2>2, <2>4 DEF Accepts
  <2> QED BY <1>1, <2>4, <2>5, <2>6, <2>7 DEF NumberInvariant
<1>4. CASE Mean
  <2>1. UniformAccepts(first, second)
    BY <1>1, <1>4 DEF Mean, Accepts, Ready
  <2>2. Midpoint(first, second) \in Codes /\ first <= Midpoint(first, second) /\ Midpoint(first, second) <= second
    BY <1>1, <2>1, MidpointInside
  <2>3. phase' = "answered" /\ answer' = Midpoint(first, second) /\ UNCHANGED <<dist, first, second, back>> /\ phase \in Ready
    BY <1>4 DEF Mean, Ready
  <2>4. AnswersAreNumbers'
    BY <1>1, <2>2, <2>3 DEF AnswersAreNumbers, Codes
  <2>5. DrawsStayInside'
    BY <2>2, <2>3 DEF DrawsStayInside
  <2>6. Accepts(dist, first, second)'
    BY <1>1, <2>3 DEF Accepts
  <2> QED BY <1>1, <2>3, <2>4, <2>5, <2>6 DEF NumberInvariant
<1>5. ASSUME NEW m \in MethodNames, NEW x \in Codes, Call(m, x)
      PROVE  NumberInvariant'
  <2>1. phase \in Ready /\ phase' = "answered" /\ method' = m /\ answer' = Answer(m, x) /\ UNCHANGED <<dist, first, second, back>>
    BY <1>5 DEF Call, Ready
  <2>2. Answer(m, x) \in Codes \cup {NULL}
    BY <1>1, <2>1, AnswerNumber
  <2>3. AnswersAreNumbers'
    BY <1>1, <2>1, <2>2 DEF AnswersAreNumbers, Codes
  <2>4. DrawsStayInside'
    <3>1. m # "mean"
      BY DEF MethodNames, Tails, Inverses
    <3> QED BY <2>1, <3>1 DEF DrawsStayInside, Answered
  <2>5. Accepts(dist, first, second)'
    BY <1>1, <2>1 DEF Accepts
  <2> QED BY <1>1, <2>1, <2>3, <2>4, <2>5 DEF NumberInvariant
<1>6. ASSUME NEW u \in Codes, DrawOne(u)
      PROVE  NumberInvariant'
  <2>1. /\ phase \in Ready /\ phase' = "drawn" /\ dist \in {"uniform", "geometric"} /\ 0 <= u /\ u <= One
        /\ (dist # "uniform" => u > 0)
        /\ answer' = IF dist = "uniform" THEN UniformDraw(first, second, u) ELSE GeometricDraw(first, u)
        /\ UNCHANGED <<dist, first, second, method, back>>
    BY <1>6 DEF DrawOne, Ready, InUnit
  <2>2. Accepts(dist, first, second)'
    BY <1>1, <2>1 DEF Accepts
  <2>3. CASE dist = "uniform"
    <3>1. UniformAccepts(first, second)
      BY <1>1, <2>1, <2>3 DEF Accepts
    <3>2. answer' \in Codes /\ first <= answer' /\ answer' < second
      BY <1>1, <2>1, <2>3, <3>1, UniformDrawInside
    <3>3. AnswersAreNumbers'
      BY <1>1, <2>1, <3>2 DEF AnswersAreNumbers, Codes
    <3>4. DrawsStayInside'
      BY <2>1, <2>3, <3>2 DEF DrawsStayInside, Answered
    <3> QED BY <1>1, <2>1, <2>2, <3>3, <3>4 DEF NumberInvariant
  <2>4. CASE dist = "geometric"
    <3>1. PositiveProbability(first)
      BY <1>1, <2>1, <2>4 DEF Accepts
    <3>2. 0 < u
      BY <2>1, <2>4, FiniteFacts
    <3>3. answer' \in Codes /\ One <= answer' /\ answer' <= MaxCount
      BY <1>1, <2>1, <2>4, <3>1, <3>2, GeometricDrawCounts
    <3>4. AnswersAreNumbers'
      BY <1>1, <2>1, <3>3 DEF AnswersAreNumbers, Codes
    <3>5. DrawsStayInside'
      BY <2>1, <2>4, <3>3 DEF DrawsStayInside, Answered
    <3> QED BY <1>1, <2>1, <2>2, <3>4, <3>5 DEF NumberInvariant
  <2> QED BY <2>1, <2>3, <2>4
<1>7. CASE UNCHANGED vars
  <2>1. UNCHANGED <<dist, first, second, phase, method, answer, back>>
    BY <1>7 DEF vars
  <2>2. AnswersAreNumbers' /\ DrawsStayInside'
    BY <1>1, <2>1 DEF AnswersAreNumbers, Codes, DrawsStayInside, Answered
  <2>3. phase' \in Ready => Accepts(dist, first, second)'
    BY <1>1, <2>1 DEF Accepts
  <2> QED BY <1>1, <2>1, <2>2, <2>3 DEF NumberInvariant
<1>8. CASE Next
  <2>1. Validate \/ CallBack \/ Mean => NumberInvariant'
    BY <1>2, <1>3, <1>4
  <2>2. Finished => NumberInvariant'
    BY <1>7 DEF Finished
  <2>3. ASSUME NEW m \in {"pdf", "ln_pdf"} \cup Tails \cup Inverses,
               NEW x \in IF m \in Inverses THEN Quantiles ELSE Points, Call(m, x)
        PROVE  NumberInvariant'
    <3>1. x \in Codes /\ m \in MethodNames
      BY <2>3, Inputs DEF MethodNames
    <3> QED BY <1>5, <2>3, <3>1
  <2>4. ASSUME NEW u \in Quantiles, DrawOne(u)
        PROVE  NumberInvariant'
    <3>1. u \in Codes
      BY Inputs
    <3> QED BY <1>6, <2>4, <3>1
  <2> QED BY <1>8, <2>1, <2>2, <2>3, <2>4 DEF Next
<1> QED BY <1>7, <1>8

\* No branch of a closed form makes a NaN from valid parameters and a number (the derives of
\* Uniform, Bernoulli, Geometric, Exponential, Pareto and Weibull).
THEOREM AnswersStayNumbers == Spec => []AnswersAreNumbers
<1>1. NumberInvariant => AnswersAreNumbers
  BY DEF NumberInvariant
<1> QED BY <1>1, InitNumbers, NextNumbers, PTL DEF Spec

\* Uniform draws in [min, max) and Geometric counts from 1, whatever variate comes (Uniform::draw,
\* Geometric::draw), and Uniform's mean is inside its bounds.
THEOREM DrawsAreInside == Spec => []DrawsStayInside
<1>1. NumberInvariant => DrawsStayInside
  BY DEF NumberInvariant
<1> QED BY <1>1, InitNumbers, NextNumbers, PTL DEF Spec
=============================================================================
