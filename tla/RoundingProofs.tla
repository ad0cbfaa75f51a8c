--------------------------- MODULE RoundingProofs ---------------------------
(***************************************************************************)
(* Rounding in every float format: lemmas about TinyFloat's operators, on  *)
(* which the proofs about the inverses of the distributions rest.          *)
(*                                                                         *)
(* Rounding is monotone, lands on the grid of the format and leaves the    *)
(* grid alone, so a rounded result never crosses a value of the grid; it   *)
(* errs by half a spacing at most; and a multiple of a power of two stays  *)
(* one.                                                                    *)
(***************************************************************************)
EXTENDS TinyFloat, FiniteSetTheorems, FunctionTheorems, NaturalsInduction, WellFoundedInduction, TLAPS

\* A power of two counts the subsets of an interval: the library has no facts about ^.
LEMMA SubsetsOfInterval ==
  ASSUME NEW a \in Int, NEW b \in Int, NEW k \in Nat, b - a + 1 = k
  PROVE  IsFiniteSet(SUBSET (a .. b)) /\ Cardinality(SUBSET (a .. b)) = 2 ^ k
<1>1. /\ IsFiniteSet(a .. b)
      /\ Cardinality(a .. b) = IF a > b THEN 0 ELSE b - a + 1
  BY FS_Interval
<1>2. Cardinality(a .. b) = k
  BY <1>1
<1> QED BY <1>1, <1>2, FS_SUBSET

LEMMA PowerIsPositive ==
  ASSUME NEW k \in Nat
  PROVE  2 ^ k \in Nat \ {0}
<1>1. IsFiniteSet(SUBSET (1 .. k)) /\ Cardinality(SUBSET (1 .. k)) = 2 ^ k
  <2>1. k - 1 + 1 = k /\ 1 \in Int /\ k \in Int
    OBVIOUS
  <2> QED BY <2>1, SubsetsOfInterval
<1>2. {} \in SUBSET (1 .. k)
  OBVIOUS
<1>3. Cardinality(SUBSET (1 .. k)) # 0
  BY <1>1, <1>2, FS_EmptySet
<1> QED BY <1>1, <1>3, FS_CardinalityType

\* A subset of an interval is one of its lower part and one of its upper part.
LEMMA PowerSum ==
  ASSUME NEW j \in Nat, NEW k \in Nat
  PROVE  2 ^ (j + k) = 2 ^ j * 2 ^ k
<1> DEFINE A == 1 .. j
           B == j + 1 .. j + k
           C == 1 .. j + k
           f == [T \in SUBSET C |-> <<T \cap A, T \cap B>>]
<1>1. /\ IsFiniteSet(SUBSET A) /\ Cardinality(SUBSET A) = 2 ^ j
      /\ IsFiniteSet(SUBSET B) /\ Cardinality(SUBSET B) = 2 ^ k
      /\ IsFiniteSet(SUBSET C) /\ Cardinality(SUBSET C) = 2 ^ (j + k)
  <2>1. IsFiniteSet(SUBSET A) /\ Cardinality(SUBSET A) = 2 ^ j
    <3>1. 1 \in Int /\ j \in Int /\ j - 1 + 1 = j
      OBVIOUS
    <3> QED BY <3>1, SubsetsOfInterval
  <2>2. IsFiniteSet(SUBSET B) /\ Cardinality(SUBSET B) = 2 ^ k
    <3>1. j + 1 \in Int /\ j + k \in Int /\ (j + k) - (j + 1) + 1 = k
      OBVIOUS
    <3> QED BY <3>1, SubsetsOfInterval
  <2>3. IsFiniteSet(SUBSET C) /\ Cardinality(SUBSET C) = 2 ^ (j + k)
    <3>1. 1 \in Int /\ j + k \in Nat /\ j + k \in Int /\ (j + k) - 1 + 1 = j + k
      OBVIOUS
    <3> QED BY <3>1, SubsetsOfInterval
  <2> QED BY <2>1, <2>2, <2>3
<1>2. C = A \cup B /\ A \cap B = {}
  OBVIOUS
<1>3. f \in Bijection(SUBSET C, (SUBSET A) \X (SUBSET B))
  <2> HIDE DEF A, B, C
  <2>1. f \in [SUBSET C -> (SUBSET A) \X (SUBSET B)]
    OBVIOUS
  <2>2. \A S, T \in SUBSET C : f[S] = f[T] => S = T
    BY <1>2
  <2>3. \A t \in (SUBSET A) \X (SUBSET B) : \E S \in SUBSET C : f[S] = t
    <3> TAKE t \in (SUBSET A) \X (SUBSET B)
    <3>1. PICK X \in SUBSET A, Y \in SUBSET B : t = <<X, Y>>
      OBVIOUS
    <3>2. X \cup Y \in SUBSET C /\ (X \cup Y) \cap A = X /\ (X \cup Y) \cap B = Y
      BY <1>2
    <3> QED BY <3>1, <3>2
  <2> QED BY <2>1, <2>2, <2>3 DEF Bijection, Injection, Surjection, IsInjective
<1>4. Cardinality((SUBSET A) \X (SUBSET B)) = 2 ^ (j + k)
  <2> HIDE DEF A, B, C, f
  <2>1. ExistsBijection(SUBSET C, (SUBSET A) \X (SUBSET B))
    BY <1>3 DEF ExistsBijection
  <2> QED BY <1>1, <2>1, FS_Bijection
<1> QED
  <2> HIDE DEF A, B, C, f
  <2>1. Cardinality((SUBSET A) \X (SUBSET B)) = Cardinality(SUBSET A) * Cardinality(SUBSET B)
    BY <1>1, FS_Product
  <2> QED BY <1>1, <1>4, <2>1

LEMMA PowerStep ==
  ASSUME NEW k \in Nat
  PROVE  2 ^ (k + 1) = 2 * 2 ^ k
<1>1. 2 ^ (k + 1) = 2 ^ k * 2 ^ 1
  BY PowerSum
<1> QED BY <1>1, PowerIsPositive

\* A higher power is a multiple of a lower one, and at least twice it.
LEMMA PowerUpTo ==
  ASSUME NEW j \in Nat, NEW k \in Nat, j <= k
  PROVE  /\ k - j \in Nat /\ 2 ^ k = 2 ^ j * 2 ^ (k - j)
         /\ 2 ^ j <= 2 ^ k
<1>1. k - j \in Nat /\ j + (k - j) = k
  OBVIOUS
<1>2. 2 ^ k = 2 ^ j * 2 ^ (k - j)
  BY <1>1, PowerSum
<1>3. \A x, y \in Nat \ {0} : x <= x * y
  OBVIOUS
<1> QED BY <1>1, <1>2, <1>3, PowerIsPositive

LEMMA PowerBelow ==
  ASSUME NEW j \in Nat, NEW k \in Nat, j < k
  PROVE  2 * 2 ^ j <= 2 ^ k
BY PowerUpTo, PowerStep

\* Euclidean division, in the form the rounding lemmas cite.
LEMMA Quotient ==
  ASSUME NEW a \in Int, NEW b \in Nat \ {0}
  PROVE  /\ a \div b \in Int /\ a % b \in 0 .. b - 1
         /\ a = b * (a \div b) + (a % b)
OBVIOUS

\* Strictly smaller naturals, as a relation.
Earlier == {p \in Nat \X Nat : p[1] < p[2]}

\* The least-number principle, about a set.
LEMMA LeastNatural ==
  ASSUME NEW T \in SUBSET Nat, T # {}
  PROVE  \E x \in T : \A y \in T : x <= y
<1>1. IsWellFoundedOn(Earlier, Nat)
  BY NatLessThanWellFounded, Zenon DEF OpToRel, Earlier
<1>2. \E x \in T : \A y \in T : ~ (<<y, x>> \in Earlier)
  <2>. HIDE DEF Earlier
  <2>. QED BY <1>1, WFMin
<1>3. \A x, y \in T : ~ (<<y, x>> \in Earlier) => x <= y
  BY DEF Earlier
<1> QED BY <1>2, <1>3

\* What Spacing looks for: num / den is under the bound of the exponent e.
Fits(num, den, e) == num < den * 2 ^ (Precision + e)

\* The exponent of the format around num / den.
LEMMA SpacingFacts ==
  ASSUME NEW num \in Nat, NEW den \in Nat \ {0}
  PROVE  \E e \in 0 .. MaxExponent + 1 :
           /\ Spacing(num, den) = 2 ^ e
           /\ Fits(num, den, e) \/ e = MaxExponent + 1
           /\ e = 0 \/ ~ Fits(num, den, e - 1)
<1> DEFINE Chosen(e) == /\ Fits(num, den, e) \/ e = MaxExponent + 1
                        /\ e = 0 \/ ~ Fits(num, den, e - 1)
           Wide == {e \in 0 .. MaxExponent + 1 : Fits(num, den, e) \/ e = MaxExponent + 1}
<1>1. MaxExponent \in Nat
  BY FormatAssumption
<1>2. Wide \in SUBSET Nat /\ MaxExponent + 1 \in Wide
  BY <1>1
<1>3. PICK e \in Wide : \A d \in Wide : e <= d
  <2> HIDE DEF Wide
  <2> QED BY <1>2, LeastNatural
<1>4. e = 0 \/ e - 1 \in (0 .. MaxExponent + 1) \ Wide
  BY <1>1, <1>3
<1>5. e \in 0 .. MaxExponent + 1 /\ Chosen(e)
  BY <1>3, <1>4
<1>6. Spacing(num, den) = 2 ^ (CHOOSE d \in 0 .. MaxExponent + 1 : Chosen(d))
  BY DEF Spacing, Fits
<1>7. \E d \in 0 .. MaxExponent + 1 : d = (CHOOSE c \in 0 .. MaxExponent + 1 : Chosen(c)) /\ Chosen(d)
  <2> HIDE DEF Chosen
  <2> QED BY <1>5, Zenon
<1> QED BY <1>6, <1>7, Zenon

\* Multiplication by a natural number keeps an order.
LEMMA Products ==
  ASSUME NEW x \in Int, NEW y \in Int, NEW m \in Nat
  PROVE  /\ x <= y => m * x <= m * y /\ x * m <= y * m
         /\ m # 0 /\ m * x <= m * y => x <= y
         /\ m # 0 /\ x < y => m * x < m * y /\ m * x + m <= m * y
OBVIOUS

\* The count is the nearer of the two around the quotient, and the even one of a tie.
LEMMA CountFacts ==
  ASSUME NEW num \in Nat, NEW unit \in Nat \ {0}
  PROVE  /\ NearestCount[<<num, unit>>] \in Nat
         /\ \A c \in Nat : c * unit <= num => c <= NearestCount[<<num, unit>>]
         /\ \A c \in Nat : num <= c * unit => NearestCount[<<num, unit>>] <= c
         /\ \A c \in Nat : c % 2 = 0 /\ 2 * num <= 2 * c * unit + unit => NearestCount[<<num, unit>>] <= c
         /\ \A c \in Nat : c % 2 = 0 /\ 2 * c * unit <= 2 * num + unit => c <= NearestCount[<<num, unit>>]
         /\ 2 * NearestCount[<<num, unit>>] * unit - 2 * num \in - unit .. unit
<1> DEFINE below == num \div unit
           rest == num % unit
           count == NearestCount[<<num, unit>>]
<1>1. below \in Int /\ rest \in 0 .. unit - 1 /\ num = unit * below + rest
  BY Quotient
<1>2. below \in Nat
  <2>1. below <= -1 => unit * below <= unit * (-1)
    BY <1>1, Products
  <2> HIDE DEF below, rest
  <2> QED BY <1>1, <2>1
<1>3. count = IF 2 * rest - unit > 0 \/ (2 * rest - unit = 0 /\ below % 2 = 1) THEN below + 1 ELSE below
  BY DEF NearestCount
<1> HIDE DEF below, rest, count
<1>4. count \in Nat /\ count \in below .. below + 1
  BY <1>2, <1>3
<1>5. below * unit = unit * below /\ (below + 1) * unit = unit * below + unit
  BY <1>2
<1>6. ASSUME NEW c \in Nat, c * unit <= num PROVE c <= count
  <2>1. below + 1 <= c => (below + 1) * unit <= c * unit
    BY <1>2, Products
  <2> QED BY <1>1, <1>2, <1>4, <1>5, <1>6, <2>1
<1>7. ASSUME NEW c \in Nat, c % 2 = 0, 2 * num <= 2 * c * unit + unit PROVE count <= c
  <2>1. c + 1 <= below => (c + 1) * unit <= below * unit
    BY <1>2, Products
  <2>2. (c + 1) * unit = c * unit + unit /\ 2 * c * unit = 2 * (c * unit) /\ c * unit \in Int
    OBVIOUS
  <2>3. below <= c
    BY <1>1, <1>2, <1>5, <1>7, <2>1, <2>2
  <2>4. below = c => 2 * rest <= unit
    BY <1>1, <1>2, <1>5, <1>7, <2>2
  <2> QED BY <1>1, <1>2, <1>3, <1>4, <1>7, <2>3, <2>4
<1>8. ASSUME NEW c \in Nat, num <= c * unit PROVE count <= c
  <2>1. c + 1 <= below => (c + 1) * unit <= below * unit
    BY <1>2, Products
  <2>2. (c + 1) * unit = c * unit + unit /\ c * unit \in Int
    OBVIOUS
  <2>3. below <= c
    BY <1>1, <1>2, <1>5, <1>8, <2>1, <2>2
  <2>4. below = c => rest = 0
    BY <1>1, <1>2, <1>5, <1>8, <2>2
  <2> QED BY <1>1, <1>2, <1>3, <1>4, <2>3, <2>4
<1>9. 2 * count * unit - 2 * num \in - unit .. unit
  <2>1. CASE count = below
    <3>1. 2 * count * unit = 2 * (unit * below) /\ unit * below \in Int
      BY <1>2, <2>1
    <3>2. 2 * rest <= unit
      BY <1>1, <1>2, <1>3, <2>1
    <3> QED BY <1>1, <3>1, <3>2
  <2>2. CASE count = below + 1
    <3>1. 2 * count * unit = 2 * (unit * below) + 2 * unit /\ unit * below \in Int
      BY <1>2, <2>2
    <3>2. 2 * rest >= unit
      BY <1>1, <1>2, <1>3, <2>2
    <3> QED BY <1>1, <3>1, <3>2
  <2> QED BY <1>2, <1>4, <2>1, <2>2
<1>10. ASSUME NEW c \in Nat, c % 2 = 0, 2 * c * unit <= 2 * num + unit PROVE c <= count
  <2>1. below + 2 <= c => (below + 2) * unit <= c * unit
    BY <1>2, Products
  <2>2. /\ (below + 2) * unit = unit * below + 2 * unit /\ unit * below \in Int
        /\ 2 * c * unit = 2 * (c * unit) /\ c * unit \in Int
    BY <1>2
  <2>3. c <= below + 1
    BY <1>1, <1>2, <1>10, <2>1, <2>2
  <2>4. c = below + 1 => 2 * rest >= unit
    BY <1>1, <1>2, <1>5, <1>10, <2>2
  <2>5. c = below + 1 => below % 2 = 1
    BY <1>2, <1>10
  <2> QED BY <1>1, <1>2, <1>3, <1>4, <2>3, <2>4, <2>5
<1> QED BY <1>4, <1>6, <1>7, <1>8, <1>9, <1>10 DEF count

\* The constants of the format, as numbers.
LEMMA FormatFacts ==
  /\ Precision \in Nat \ {0} /\ FractionBits \in Nat /\ MaxExponent \in Nat
  /\ 2 ^ Precision \in Nat \ {0} /\ 2 ^ (Precision - 1) \in Nat \ {0}
  /\ 2 ^ Precision = 2 * 2 ^ (Precision - 1)
  /\ One \in Nat \ {0} /\ Infinity \in Nat \ {0}
<1>1. /\ Precision \in Nat \ {0} /\ FractionBits \in Nat /\ MaxExponent \in Nat
      /\ Precision - 1 \in Nat /\ Precision + MaxExponent \in Nat /\ (Precision - 1) + 1 = Precision
  BY FormatAssumption
<1>2. 2 ^ ((Precision - 1) + 1) = 2 * 2 ^ (Precision - 1)
  BY <1>1, PowerStep
<1> QED BY <1>1, <1>2, PowerIsPositive DEF One, Infinity

\* What rounding does: it counts the spacing around the ratio, between half the significands and all.
LEMMA NearestFacts ==
  ASSUME NEW num \in Nat, NEW den \in Nat \ {0}
  PROVE  \E e \in 0 .. MaxExponent + 1, c \in Nat :
           /\ Spacing(num, den) = 2 ^ e /\ c = NearestCount[<<num, den * 2 ^ e>>]
           /\ Nearest(num, den) = IF c * 2 ^ e < Infinity THEN c * 2 ^ e ELSE Infinity
           /\ e = MaxExponent + 1 \/ (num < den * (2 ^ Precision * 2 ^ e) /\ c <= 2 ^ Precision)
           /\ e = 0 \/ (den * (2 ^ (Precision - 1) * 2 ^ e) <= num /\ 2 ^ (Precision - 1) <= c)
<1>1. PICK e \in 0 .. MaxExponent + 1 : /\ Spacing(num, den) = 2 ^ e
                                        /\ Fits(num, den, e) \/ e = MaxExponent + 1
                                        /\ e = 0 \/ ~ Fits(num, den, e - 1)
  BY SpacingFacts
<1> DEFINE unit == 2 ^ e
           c == NearestCount[<<num, den * unit>>]
<1>2. e \in Nat /\ Precision \in Nat /\ Precision - 1 \in Nat
  BY <1>1, FormatFacts
<1>3. unit \in Nat \ {0} /\ den * unit \in Nat \ {0}
  BY <1>2, PowerIsPositive
<1>4. c \in Nat
  BY <1>3, CountFacts
<1>5. Nearest(num, den) = IF c * unit < Infinity THEN c * unit ELSE Infinity
  <2>1. Nearest(num, den) = Saturated[c * unit]
    BY <1>1 DEF Nearest
  <2>2. c * unit \in Nat
    BY <1>3, <1>4
  <2> HIDE DEF c, unit
  <2> QED BY <2>1, <2>2 DEF Saturated
<1>6. \A k \in Nat : k * (den * unit) = den * (k * unit)
  BY <1>3
<1>7. e = MaxExponent + 1 \/ (num < den * (2 ^ Precision * unit) /\ c <= 2 ^ Precision)
  <2>1. 2 ^ (Precision + e) = 2 ^ Precision * unit
    BY <1>2, PowerSum
  <2>2. CASE num < den * (2 ^ Precision * unit)
    <3>1. 2 ^ Precision \in Nat
      BY FormatFacts
    <3>2. num <= 2 ^ Precision * (den * unit)
      BY <1>3, <1>6, <2>2, <3>1
    <3>3. c <= 2 ^ Precision
      <4> HIDE DEF c, unit
      <4> QED BY <1>3, <3>1, <3>2, CountFacts DEF c
    <3> QED BY <2>2, <3>3
  <2> QED BY <1>1, <2>1, <2>2 DEF Fits
<1>8. e = 0 \/ (den * (2 ^ (Precision - 1) * unit) <= num /\ 2 ^ (Precision - 1) <= c)
  <2> SUFFICES ASSUME e # 0
               PROVE  den * (2 ^ (Precision - 1) * unit) <= num /\ 2 ^ (Precision - 1) <= c
    OBVIOUS
  <2>1. Precision + (e - 1) = (Precision - 1) + e
    BY <1>2
  <2>2. 2 ^ ((Precision - 1) + e) = 2 ^ (Precision - 1) * unit
    BY <1>2, PowerSum
  <2>3. 2 ^ (Precision - 1) \in Nat /\ den * (2 ^ (Precision - 1) * unit) \in Nat
    BY <1>3, FormatFacts
  <2>4. den * (2 ^ (Precision - 1) * unit) <= num
    BY <1>1, <2>1, <2>2, <2>3 DEF Fits
  <2>5. 2 ^ (Precision - 1) * (den * unit) <= num
    BY <1>6, <2>3, <2>4
  <2>6. 2 ^ (Precision - 1) <= c
    <3> HIDE DEF c, unit
    <3> QED BY <1>3, <2>3, <2>5, CountFacts DEF c
  <2> QED BY <2>4, <2>6
<1> QED BY <1>1, <1>4, <1>5, <1>7, <1>8

\* Over the same unit, a higher ratio never rounds to a lower count.
LEMMA CountClimbs ==
  ASSUME NEW num1 \in Nat, NEW num2 \in Nat, num1 <= num2, NEW unit \in Nat \ {0}
  PROVE  NearestCount[<<num1, unit>>] <= NearestCount[<<num2, unit>>]
<1> DEFINE Below(a) == a \div unit
           Rest(a) == a % unit
<1>1. \A a \in Nat : /\ Below(a) \in Int /\ Rest(a) \in 0 .. unit - 1
                     /\ a = unit * Below(a) + Rest(a)
  BY Quotient
<1>2. \A a \in Nat : NearestCount[<<a, unit>>] =
        IF 2 * Rest(a) - unit > 0 \/ (2 * Rest(a) - unit = 0 /\ Below(a) % 2 = 1) THEN Below(a) + 1 ELSE Below(a)
  BY DEF NearestCount
<1> HIDE DEF Below, Rest
<1>3. Below(num1) <= Below(num2)
  <2>1. Below(num2) < Below(num1) => unit * Below(num2) + unit <= unit * Below(num1)
    BY <1>1, Products
  <2> QED BY <1>1, <2>1
<1>4. CASE Below(num1) = Below(num2)
  <2>1. Rest(num1) <= Rest(num2)
    BY <1>1, <1>4
  <2> QED BY <1>1, <1>2, <1>4, <2>1
<1>5. CASE Below(num1) < Below(num2)
  <2>1. \A a \in Nat : NearestCount[<<a, unit>>] \in {Below(a), Below(a) + 1}
    BY <1>2
  <2> QED BY <1>1, <1>5, <2>1
<1>6. Below(num1) \in Int /\ Below(num2) \in Int
  BY <1>1
<1> QED BY <1>3, <1>4, <1>5, <1>6

\* The finite values again, the power of two above each exponent's included, and so Infinity.
Grid == {s * 2 ^ e : s \in 0 .. 2 ^ Precision, e \in 0 .. MaxExponent}

\* The grid runs from 0 to Infinity, both on it.
LEMMA GridIsNat ==
  ASSUME NEW f \in Grid
  PROVE  f \in Nat /\ f <= Infinity
<1>1. PICK s \in 0 .. 2 ^ Precision, e \in 0 .. MaxExponent : f = s * 2 ^ e
  BY DEF Grid
<1>2. 2 ^ e \in Nat \ {0} /\ 2 ^ e <= 2 ^ MaxExponent /\ 2 ^ MaxExponent \in Nat
  BY FormatFacts, PowerIsPositive, PowerUpTo
<1>3. s \in Nat /\ s <= 2 ^ Precision /\ 2 ^ Precision \in Nat
  BY FormatFacts
<1>4. s * 2 ^ e <= 2 ^ Precision * 2 ^ e /\ 2 ^ Precision * 2 ^ e <= 2 ^ Precision * 2 ^ MaxExponent
  BY <1>2, <1>3, Products
<1>5. Infinity = 2 ^ Precision * 2 ^ MaxExponent
  BY FormatFacts, PowerSum DEF Infinity
<1>6. s * 2 ^ e \in Nat /\ 2 ^ Precision * 2 ^ e \in Nat
  BY <1>2, <1>3
<1>7. Infinity \in Nat
  BY FormatFacts
<1> QED BY <1>1, <1>4, <1>5, <1>6, <1>7

LEMMA InfinityInGrid == Infinity \in Grid
<1>1. Infinity = 2 ^ Precision * 2 ^ MaxExponent
  BY FormatFacts, PowerSum DEF Infinity
<1>2. 2 ^ Precision \in 0 .. 2 ^ Precision /\ MaxExponent \in 0 .. MaxExponent
  BY FormatFacts
<1> QED BY <1>1, <1>2 DEF Grid

\* A value is a whole count of a spacing, or below every value that has that spacing.
LEMMA GridAtExponent ==
  ASSUME NEW f \in Grid, NEW e \in Nat
  PROVE  \/ \E k \in Nat : f = k * 2 ^ e
         \/ e # 0 /\ f < 2 ^ (Precision - 1) * 2 ^ e
<1>1. PICK s \in 0 .. 2 ^ Precision, d \in 0 .. MaxExponent : f = s * 2 ^ d
  BY DEF Grid
<1>2. s \in Nat /\ d \in Nat /\ 2 ^ d \in Nat \ {0} /\ 2 ^ e \in Nat \ {0}
  BY FormatFacts, PowerIsPositive
<1>3. CASE e <= d
  <2>1. d - e \in Nat /\ 2 ^ d = 2 ^ e * 2 ^ (d - e)
    BY <1>2, <1>3, PowerUpTo
  <2>2. 2 ^ (d - e) \in Nat
    BY <2>1, PowerIsPositive
  <2>3. f = (s * 2 ^ (d - e)) * 2 ^ e /\ s * 2 ^ (d - e) \in Nat
    BY <1>1, <1>2, <2>1, <2>2
  <2> QED BY <2>3
<1>4. CASE d < e
  <2> DEFINE half == 2 ^ (Precision - 1)
  <2>1. 2 * 2 ^ d <= 2 ^ e
    BY <1>2, <1>4, PowerBelow
  <2>2. half \in Nat /\ 2 ^ Precision = 2 * half /\ s <= 2 * half
    BY FormatFacts
  <2>3. half * (2 * 2 ^ d) <= half * 2 ^ e
    BY <1>2, <2>1, <2>2, Products
  <2>4. s * 2 ^ d <= (2 * half) * 2 ^ d
    BY <1>2, <2>2, Products
  <2>5. half * (2 * 2 ^ d) = (2 * half) * 2 ^ d
    BY <1>2, <2>2
  <2>6. f <= half * 2 ^ e /\ f \in Int /\ half * 2 ^ e \in Int
    BY <1>1, <1>2, <2>2, <2>3, <2>4, <2>5
  <2>7. e # 0
    BY <1>2, <1>4
  <2>8. CASE f = half * 2 ^ e
    BY <2>2, <2>8
  <2>9. CASE f < half * 2 ^ e
    BY <2>7, <2>9
  <2> QED BY <2>6, <2>8, <2>9
<1> QED BY <1>2, <1>3, <1>4

\* No rounding crosses a value of the format.
LEMMA NearestKeepsGrid ==
  ASSUME NEW num \in Nat, NEW den \in Nat \ {0}, NEW f \in Grid
  PROVE  /\ f * den <= num => f <= Nearest(num, den)
         /\ num <= f * den => Nearest(num, den) <= f
<1>1. PICK e \in 0 .. MaxExponent + 1, c \in Nat :
           /\ Spacing(num, den) = 2 ^ e /\ c = NearestCount[<<num, den * 2 ^ e>>]
           /\ Nearest(num, den) = IF c * 2 ^ e < Infinity THEN c * 2 ^ e ELSE Infinity
           /\ e = 0 \/ (den * (2 ^ (Precision - 1) * 2 ^ e) <= num /\ 2 ^ (Precision - 1) <= c)
  BY NearestFacts
<1>2. f \in Nat /\ f <= Infinity /\ Infinity \in Nat
  BY GridIsNat, FormatFacts
<1>3. e \in Nat /\ 2 ^ e \in Nat \ {0} /\ den * 2 ^ e \in Nat \ {0}
  BY <1>1, PowerIsPositive, FormatFacts
<1>4. c * 2 ^ e \in Nat
  BY <1>3
<1>5. ASSUME NEW k \in Nat, f = k * 2 ^ e
      PROVE  (f * den <= num => f <= Nearest(num, den)) /\ (num <= f * den => Nearest(num, den) <= f)
  <2>1. f * den = k * (den * 2 ^ e)
    BY <1>3, <1>5
  <2>2. (f * den <= num => k <= c) /\ (num <= f * den => c <= k)
    BY <1>1, <1>3, <2>1, CountFacts
  <2>3. (k <= c => k * 2 ^ e <= c * 2 ^ e) /\ (c <= k => c * 2 ^ e <= k * 2 ^ e)
    BY <1>3, Products
  <2> QED BY <1>1, <1>2, <1>4, <1>5, <2>2, <2>3
<1>6. ASSUME e # 0, f < 2 ^ (Precision - 1) * 2 ^ e
      PROVE  f <= Nearest(num, den) /\ ~ num <= f * den
  <2> DEFINE half == 2 ^ (Precision - 1)
  <2>1. half \in Nat
    BY FormatFacts
  <2>2. half * 2 ^ e <= c * 2 ^ e /\ half * 2 ^ e \in Nat
    BY <1>1, <1>3, <1>6, <2>1, Products
  <2>3. den * f < den * (half * 2 ^ e)
    BY <1>2, <1>6, <2>2, Products
  <2>4. den * f = f * den /\ den * f \in Nat /\ den * (half * 2 ^ e) \in Nat
    BY <1>2, <2>2
  <2>5. ~ num <= f * den
    BY <1>1, <1>6, <2>3, <2>4
  <2> QED BY <1>1, <1>2, <1>4, <1>6, <2>2, <2>5
<1> QED BY <1>3, <1>5, <1>6, GridAtExponent

\* What rounds is on the grid, and what is on the grid rounds to itself.
LEMMA NearestInGrid ==
  ASSUME NEW num \in Nat, NEW den \in Nat \ {0}
  PROVE  Nearest(num, den) \in Grid
<1>1. PICK e \in 0 .. MaxExponent + 1, c \in Nat :
           /\ Nearest(num, den) = IF c * 2 ^ e < Infinity THEN c * 2 ^ e ELSE Infinity
           /\ e = MaxExponent + 1 \/ (num < den * (2 ^ Precision * 2 ^ e) /\ c <= 2 ^ Precision)
           /\ e = 0 \/ (den * (2 ^ (Precision - 1) * 2 ^ e) <= num /\ 2 ^ (Precision - 1) <= c)
  BY NearestFacts, Zenon
<1>2. e \in Nat /\ MaxExponent \in Nat /\ 2 ^ e \in Nat \ {0}
  BY <1>1, PowerIsPositive, FormatFacts
<1>3. CASE e = MaxExponent + 1
  <2>1. 2 ^ e = 2 * 2 ^ MaxExponent /\ 2 ^ MaxExponent \in Nat
    BY <1>2, <1>3, PowerStep, PowerIsPositive
  <2>2. 2 ^ (Precision - 1) * 2 ^ e <= c * 2 ^ e
    BY <1>1, <1>2, <1>3, FormatFacts, Products
  <2>3. 2 ^ (Precision - 1) * 2 ^ e = Infinity
    <3>1. Infinity = 2 ^ Precision * 2 ^ MaxExponent
      BY FormatFacts, PowerSum DEF Infinity
    <3> QED BY <2>1, <3>1, FormatFacts
  <2>4. ~ c * 2 ^ e < Infinity
    BY <1>2, <2>2, <2>3, FormatFacts
  <2> QED BY <1>1, <2>4, InfinityInGrid
<1>4. CASE e # MaxExponent + 1
  <2>1. c \in 0 .. 2 ^ Precision /\ e \in 0 .. MaxExponent
    BY <1>1, <1>2, <1>4, FormatFacts
  <2>2. c * 2 ^ e \in Grid
    BY <2>1 DEF Grid
  <2> QED BY <1>1, <2>2, InfinityInGrid
<1> QED BY <1>3, <1>4

LEMMA NearestIsNat ==
  ASSUME NEW num \in Nat, NEW den \in Nat \ {0}
  PROVE  Nearest(num, den) \in Nat /\ Nearest(num, den) <= Infinity
BY NearestInGrid, GridIsNat

LEMMA NearestFixesGrid ==
  ASSUME NEW f \in Grid, NEW den \in Nat \ {0}
  PROVE  Nearest(f * den, den) = f
<1>1. f \in Nat /\ f * den \in Nat
  BY GridIsNat
<1>2. f * den <= f * den
  BY <1>1
<1>3. f <= Nearest(f * den, den) /\ Nearest(f * den, den) <= f
  BY <1>1, <1>2, NearestKeepsGrid
<1>4. Nearest(f * den, den) \in Nat
  BY <1>1, NearestIsNat
<1> QED BY <1>1, <1>3, <1>4

\* A larger ratio never rounds to less.
LEMMA NearestClimbs ==
  ASSUME NEW num1 \in Nat, NEW num2 \in Nat, num1 <= num2, NEW den \in Nat \ {0}
  PROVE  Nearest(num1, den) <= Nearest(num2, den)
<1> DEFINE Rounds(num, e, c) ==
             /\ c = NearestCount[<<num, den * 2 ^ e>>]
             /\ Nearest(num, den) = IF c * 2 ^ e < Infinity THEN c * 2 ^ e ELSE Infinity
             /\ e = MaxExponent + 1 \/ (num < den * (2 ^ Precision * 2 ^ e) /\ c <= 2 ^ Precision)
             /\ e = 0 \/ (den * (2 ^ (Precision - 1) * 2 ^ e) <= num /\ 2 ^ (Precision - 1) <= c)
<1>1. PICK e1 \in 0 .. MaxExponent + 1, c1 \in Nat : Rounds(num1, e1, c1)
  BY NearestFacts, Zenon
<1>2. PICK e2 \in 0 .. MaxExponent + 1, c2 \in Nat : Rounds(num2, e2, c2)
  BY NearestFacts, Zenon
<1>3. e1 \in Nat /\ e2 \in Nat /\ 2 ^ e1 \in Nat \ {0} /\ 2 ^ e2 \in Nat \ {0}
  BY <1>1, <1>2, PowerIsPositive, FormatFacts
<1>4. ASSUME NEW a \in 0 .. MaxExponent + 1, NEW b \in 0 .. MaxExponent + 1, a < b
      PROVE  2 ^ Precision * 2 ^ a <= 2 ^ (Precision - 1) * 2 ^ b
  <2>1. 2 * 2 ^ a <= 2 ^ b /\ 2 ^ a \in Nat /\ 2 ^ b \in Nat
    BY <1>4, FormatFacts, PowerBelow, PowerIsPositive
  <2>2. 2 ^ (Precision - 1) * (2 * 2 ^ a) <= 2 ^ (Precision - 1) * 2 ^ b
    BY <2>1, FormatFacts, Products
  <2> QED BY <2>1, <2>2, FormatFacts
<1>5. CASE e1 = e2
  <2>1. c1 <= c2
    <3>1. den * 2 ^ e1 \in Nat \ {0}
      BY <1>3
    <3> QED BY <1>1, <1>2, <1>5, <3>1, CountClimbs
  <2>2. c1 * 2 ^ e1 <= c2 * 2 ^ e2 /\ c1 * 2 ^ e1 \in Nat /\ c2 * 2 ^ e2 \in Nat
    BY <1>3, <1>5, <2>1, Products
  <2> QED BY <1>1, <1>2, <2>2, FormatFacts
<1>6. CASE e1 < e2
  <2> DEFINE g == 2 ^ Precision * 2 ^ e1
  <2>1. e1 \in 0 .. MaxExponent /\ e1 # MaxExponent + 1 /\ e2 # 0
    BY <1>1, <1>2, <1>6, FormatFacts
  <2>2. g \in Grid
    <3>1. 2 ^ Precision \in 0 .. 2 ^ Precision
      BY FormatFacts
    <3> QED BY <2>1, <3>1 DEF Grid
  <2>3. g \in Nat /\ 2 ^ (Precision - 1) * 2 ^ e2 \in Nat /\ g * den = den * g
    BY <1>3, FormatFacts
  <2>4. den * g <= den * (2 ^ (Precision - 1) * 2 ^ e2)
    BY <1>4, <1>6, <2>3, Products
  <2>5. den * (2 ^ (Precision - 1) * 2 ^ e2) \in Nat /\ den * g \in Nat
    BY <2>3
  <2>6. num1 <= g * den
    BY <1>1, <2>1, <2>3, <2>5
  <2>7. g * den <= num2
    BY <1>2, <2>1, <2>3, <2>4, <2>5
  <2>8. Nearest(num1, den) <= g /\ g <= Nearest(num2, den)
    <3> HIDE DEF g
    <3> QED BY <2>2, <2>6, <2>7, NearestKeepsGrid
  <2> QED BY <2>3, <2>8, NearestIsNat
<1>7. ~ e2 < e1
  <2> SUFFICES ASSUME e2 < e1 PROVE FALSE
    OBVIOUS
  <2> DEFINE g == 2 ^ Precision * 2 ^ e2
             h == 2 ^ (Precision - 1) * 2 ^ e1
  <2>1. g \in Nat /\ h \in Nat /\ g <= h
    BY <1>3, <1>4, FormatFacts
  <2>2. den * g <= den * h /\ den * g \in Nat /\ den * h \in Nat
    <3> HIDE DEF g, h
    <3> QED BY <2>1, Products
  <2>3. num2 < den * g /\ den * h <= num1
    BY <1>1, <1>2, <1>3, FormatFacts
  <2> HIDE DEF g, h
  <2> QED BY <2>2, <2>3
<1> QED BY <1>3, <1>5, <1>6, <1>7

\* Short of overflow, rounding moves a ratio by half a spacing at most.
LEMMA NearestError ==
  ASSUME NEW num \in Nat, NEW den \in Nat \ {0}, num < den * Infinity
  PROVE  /\ Spacing(num, den) \in Nat \ {0}
         /\ 2 * Nearest(num, den) * den - 2 * num \in - (den * Spacing(num, den)) .. den * Spacing(num, den)
<1>1. PICK e \in 0 .. MaxExponent + 1, c \in Nat :
           /\ Spacing(num, den) = 2 ^ e /\ c = NearestCount[<<num, den * 2 ^ e>>]
           /\ Nearest(num, den) = IF c * 2 ^ e < Infinity THEN c * 2 ^ e ELSE Infinity
           /\ e = MaxExponent + 1 \/ (num < den * (2 ^ Precision * 2 ^ e) /\ c <= 2 ^ Precision)
           /\ e = 0 \/ (den * (2 ^ (Precision - 1) * 2 ^ e) <= num /\ 2 ^ (Precision - 1) <= c)
  BY NearestFacts, Zenon
<1>2. e \in Nat /\ MaxExponent \in Nat /\ 2 ^ e \in Nat \ {0} /\ den * 2 ^ e \in Nat \ {0}
  BY <1>1, PowerIsPositive, FormatFacts
<1>3. Infinity = 2 ^ Precision * 2 ^ MaxExponent /\ 2 ^ MaxExponent \in Nat
  BY FormatFacts, PowerSum, PowerIsPositive DEF Infinity
<1>4. e # MaxExponent + 1
  <2> SUFFICES ASSUME e = MaxExponent + 1 PROVE FALSE
    OBVIOUS
  <2>1. 2 ^ e = 2 * 2 ^ MaxExponent
    BY <1>2, PowerStep
  <2>2. 2 ^ (Precision - 1) * 2 ^ e = Infinity
    BY <1>3, <2>1, FormatFacts
  <2> QED BY <1>1, <1>2, <2>2, FormatFacts
<1>5. c * 2 ^ e <= Infinity /\ c * 2 ^ e \in Nat
  <2>1. 2 ^ e <= 2 ^ MaxExponent
    BY <1>1, <1>2, <1>4, PowerUpTo
  <2>2. c * 2 ^ e <= 2 ^ Precision * 2 ^ e
    BY <1>1, <1>2, <1>4, FormatFacts, Products
  <2>3. 2 ^ Precision * 2 ^ e <= 2 ^ Precision * 2 ^ MaxExponent
    BY <1>2, <1>3, <2>1, FormatFacts, Products
  <2>4. c * 2 ^ e \in Nat /\ 2 ^ Precision * 2 ^ e \in Nat
    BY <1>2, FormatFacts
  <2> QED BY <1>3, <2>2, <2>3, <2>4, FormatFacts
<1>6. Nearest(num, den) = c * 2 ^ e
  BY <1>1, <1>5, FormatFacts
<1>7. 2 * c * (den * 2 ^ e) - 2 * num \in - (den * 2 ^ e) .. den * 2 ^ e
  BY <1>1, <1>2, CountFacts
<1>8. 2 * (c * 2 ^ e) * den = 2 * c * (den * 2 ^ e)
  BY <1>2
<1> QED BY <1>1, <1>2, <1>6, <1>7, <1>8

\* A power of two up to Infinity divides it.
LEMMA PowerBelowInfinity ==
  ASSUME NEW b \in Nat, b <= Precision + MaxExponent
  PROVE  \E w \in Nat : Infinity = w * 2 ^ b
<1>1. Precision + MaxExponent \in Nat
  BY FormatFacts
<1>2. /\ (Precision + MaxExponent) - b \in Nat
      /\ Infinity = 2 ^ b * 2 ^ ((Precision + MaxExponent) - b)
  BY <1>1, PowerUpTo DEF Infinity
<1>3. 2 ^ b \in Nat /\ 2 ^ ((Precision + MaxExponent) - b) \in Nat
  BY <1>2, PowerIsPositive
<1>4. Infinity = 2 ^ ((Precision + MaxExponent) - b) * 2 ^ b
  BY <1>2, <1>3
<1> QED BY <1>3, <1>4

\* A multiple of a power of two rounds to one: below the significands it is exact, above them the
\* spacing is a multiple.
LEMMA NearestOfMultiple ==
  ASSUME NEW b \in Nat, b <= Precision + MaxExponent, NEW i \in Nat
  PROVE  \E j \in Nat : Nearest(i * 2 ^ b, 1) = j * 2 ^ b
<1> DEFINE B == 2 ^ b
<1>0. i * B \in Nat /\ B \in Nat \ {0}
  BY PowerIsPositive
<1>1. PICK e \in 0 .. MaxExponent + 1, c \in Nat :
           /\ c = NearestCount[<<i * B, 1 * 2 ^ e>>]
           /\ Nearest(i * B, 1) = IF c * 2 ^ e < Infinity THEN c * 2 ^ e ELSE Infinity
  <2>1. 1 \in Nat \ {0}
    OBVIOUS
  <2> QED BY <1>0, <2>1, NearestFacts, Zenon
<1>2. e \in Nat /\ 2 ^ e \in Nat \ {0} /\ 1 * 2 ^ e = 2 ^ e
  BY <1>1, PowerIsPositive, FormatFacts
<1>3. \E j \in Nat : c * 2 ^ e = j * B
  <2>1. CASE e <= b
    <3>1. b - e \in Nat /\ B = 2 ^ e * 2 ^ (b - e)
      BY <1>2, <2>1, PowerUpTo
    <3>2. 2 ^ (b - e) \in Nat
      BY <3>1, PowerIsPositive
    <3> HIDE DEF B
    <3>3. i * B = (i * 2 ^ (b - e)) * 2 ^ e /\ i * 2 ^ (b - e) \in Nat
      BY <1>2, <3>1, <3>2
    <3>4. (i * 2 ^ (b - e)) * 2 ^ e <= i * B /\ i * B <= (i * 2 ^ (b - e)) * 2 ^ e
      BY <1>0, <3>3
    <3>5. i * 2 ^ (b - e) <= c /\ c <= i * 2 ^ (b - e)
      BY <1>0, <1>1, <1>2, <3>3, <3>4, CountFacts
    <3>6. c = i * 2 ^ (b - e)
      BY <3>3, <3>5
    <3> QED BY <3>3, <3>6
  <2>2. CASE b < e
    <3>1. e - b \in Nat /\ 2 ^ e = B * 2 ^ (e - b)
      BY <1>2, <2>2, PowerUpTo
    <3>2. 2 ^ (e - b) \in Nat
      BY <3>1, PowerIsPositive
    <3> HIDE DEF B
    <3>3. c * 2 ^ e = (c * 2 ^ (e - b)) * B /\ c * 2 ^ (e - b) \in Nat
      BY <1>0, <3>1, <3>2
    <3> QED BY <3>3
  <2> QED BY <1>2, <2>1, <2>2
<1>4. \E w \in Nat : Infinity = w * B
  BY PowerBelowInfinity
<1> HIDE DEF B
<1>5. \E j \in Nat : Nearest(i * B, 1) = j * B
  BY <1>1, <1>3, <1>4
<1> QED BY <1>5 DEF B

-----------------------------------------------------------------------------
\* Both signs.
Signed == {f \in Int : f \in Grid \/ - f \in Grid}

\* Rounding is odd: a negative ratio is rounded by its magnitude.
LEMMA RoundCases ==
  ASSUME NEW num \in Int, NEW den \in Nat \ {0}
  PROVE  Round(num, den) = IF num < 0 THEN - Nearest(- num, den) ELSE Nearest(num, den)
<1>1. <<num, den>> \in Int \X (Nat \ {0})
  OBVIOUS
<1> QED BY <1>1 DEF Round, Rounded

LEMMA GridZero == 0 \in Grid
<1>1. 0 = 0 * 2 ^ 0 /\ 0 \in 0 .. 2 ^ Precision /\ 0 \in 0 .. MaxExponent
  BY FormatFacts
<1> QED BY <1>1 DEF Grid

\* Rounding a ratio of either sign: its range, its sign and the grid it lands on.
LEMMA RoundIsSigned ==
  ASSUME NEW num \in Int, NEW den \in Nat \ {0}
  PROVE  /\ Round(num, den) \in Int /\ Round(num, den) \in - Infinity .. Infinity
         /\ Round(num, den) \in Signed
         /\ num >= 0 => Round(num, den) = Nearest(num, den) /\ Round(num, den) >= 0
         /\ num < 0 => Round(num, den) = - Nearest(- num, den) /\ Round(num, den) <= 0
<1>1. CASE num >= 0
  <2>1. Round(num, den) = Nearest(num, den)
    BY <1>1, RoundCases
  <2> QED BY <1>1, <2>1, NearestInGrid, NearestIsNat, FormatFacts DEF Signed
<1>2. CASE num < 0
  <2>1. Round(num, den) = - Nearest(- num, den) /\ - num \in Nat
    BY <1>2, RoundCases
  <2>2. Nearest(- num, den) \in Grid /\ Nearest(- num, den) \in Nat /\ Nearest(- num, den) <= Infinity
    BY <2>1, NearestInGrid, NearestIsNat
  <2>3. Round(num, den) \in Int /\ - Round(num, den) \in Grid
    BY <2>1, <2>2
  <2> QED BY <1>2, <2>1, <2>2, <2>3, FormatFacts DEF Signed
<1> QED BY <1>1, <1>2

\* Rounding is monotone, across 0 too.
LEMMA RoundClimbs ==
  ASSUME NEW num1 \in Int, NEW num2 \in Int, num1 <= num2, NEW den \in Nat \ {0}
  PROVE  Round(num1, den) <= Round(num2, den)
<1>1. CASE num1 >= 0
  BY <1>1, RoundCases, NearestClimbs
<1>2. CASE num1 < 0 /\ num2 >= 0
  BY <1>2, RoundIsSigned
<1>3. CASE num2 < 0
  <2>1. - num1 \in Nat /\ - num2 \in Nat /\ - num2 <= - num1
    BY <1>3
  <2>2. Nearest(- num2, den) <= Nearest(- num1, den)
    BY <2>1, NearestClimbs
  <2> QED BY <1>3, <2>1, <2>2, RoundCases, NearestIsNat
<1> QED BY <1>1, <1>2, <1>3

LEMMA RoundFixes ==
  ASSUME NEW f \in Signed, NEW den \in Nat \ {0}
  PROVE  Round(f * den, den) = f
<1>1. CASE f \in Grid
  <2>1. f \in Nat /\ f * den \in Nat
    BY <1>1, GridIsNat
  <2> QED BY <1>1, <2>1, RoundCases, NearestFixesGrid
<1>2. CASE - f \in Grid /\ f # 0
  <2>1. - f \in Nat /\ f \in Int /\ f < 0
    BY <1>2, GridIsNat DEF Signed
  <2>2. f * den < 0 /\ f * den \in Int /\ - (f * den) = (- f) * den
    BY <2>1
  <2>3. Nearest((- f) * den, den) = - f
    BY <1>2, NearestFixesGrid
  <2> QED BY <2>1, <2>2, <2>3, RoundCases
<1> QED BY <1>1, <1>2, GridZero DEF Signed

\* What rounds a ratio on one side of a value stays on that side.
LEMMA RoundKeepsGrid ==
  ASSUME NEW num \in Int, NEW den \in Nat \ {0}, NEW f \in Signed
  PROVE  /\ f * den <= num => f <= Round(num, den)
         /\ num <= f * den => Round(num, den) <= f
<1>1. f \in Int /\ f * den \in Int
  BY DEF Signed
<1> QED BY <1>1, RoundFixes, RoundClimbs

\* A multiple of a power of two rounds to one, of either sign.
LEMMA RoundOfMultiple ==
  ASSUME NEW b \in Nat, b <= Precision + MaxExponent, NEW i \in Int
  PROVE  \E j \in Int : Round(i * 2 ^ b, 1) = j * 2 ^ b
<1> DEFINE B == 2 ^ b
<1>0. B \in Nat \ {0}
  BY PowerIsPositive
<1>1. CASE i >= 0
  <2>1. i \in Nat /\ i * B \in Int /\ i * B >= 0 /\ 1 \in Nat \ {0}
    BY <1>0, <1>1
  <2>2. Round(i * B, 1) = Nearest(i * B, 1)
    BY <2>1, RoundCases
  <2>3. PICK j \in Nat : Nearest(i * B, 1) = j * B
    BY <2>1, NearestOfMultiple
  <2>4. j \in Int /\ Round(i * B, 1) = j * B
    BY <2>2, <2>3
  <2> QED BY <2>4, Zenon
<1>2. CASE i < 0
  <2> HIDE DEF B
  <2>1. i * B < 0 /\ i * B \in Int /\ - (i * B) = (- i) * B /\ - i \in Nat
    BY <1>0, <1>2
  <2>2. PICK j \in Nat : Nearest((- i) * B, 1) = j * B
    BY <2>1, NearestOfMultiple DEF B
  <2>3. Round(i * B, 1) = - (j * B)
    BY <2>1, <2>2, RoundCases
  <2>4. - (j * B) = (- j) * B /\ - j \in Int
    BY <1>0
  <2> QED BY <2>3, <2>4 DEF B
<1> QED BY <1>1, <1>2

\* A whole number rounds to a whole number.
LEMMA RoundOfWhole ==
  ASSUME NEW i \in Int
  PROVE  \E j \in Int : Round(i * One, 1) = j * One
<1>1. FractionBits \in Nat /\ FractionBits <= Precision + MaxExponent
  BY FormatAssumption
<1> QED BY <1>1, RoundOfMultiple DEF One

\* Every power of two up to Infinity is on the grid.
LEMMA PowerInGrid ==
  ASSUME NEW k \in Nat, k <= Precision + MaxExponent
  PROVE  2 ^ k \in Grid
<1>1. CASE k <= MaxExponent
  <2>1. 1 \in 0 .. 2 ^ Precision /\ k \in 0 .. MaxExponent
    BY <1>1, FormatFacts
  <2>2. 2 ^ k = 1 * 2 ^ k
    BY PowerIsPositive
  <2> QED BY <2>1, <2>2 DEF Grid
<1>2. CASE MaxExponent < k
  <2>1. k - MaxExponent \in Nat /\ k - MaxExponent <= Precision /\ MaxExponent \in 0 .. MaxExponent
    BY <1>2, FormatFacts
  <2>2. 2 ^ k = 2 ^ (k - MaxExponent) * 2 ^ MaxExponent
    BY <1>2, <2>1, FormatFacts, PowerUpTo, PowerIsPositive
  <2>3. 2 ^ (k - MaxExponent) \in 0 .. 2 ^ Precision
    BY <2>1, FormatFacts, PowerUpTo, PowerIsPositive
  <2> QED BY <2>1, <2>2, <2>3 DEF Grid
<1> QED BY <1>1, <1>2, FormatFacts

\* The whole numbers around a quantity, and their order.
LEMMA FloorFacts ==
  ASSUME NEW x \in Int, NEW y \in Int, x <= y
  PROVE  /\ Floor(x) \in Int /\ Ceil(x) \in Int
         /\ \E i \in Int : Floor(x) = i * One
         /\ \E i \in Int : Ceil(x) = i * One
         /\ Floor(x) <= Floor(y) /\ Ceil(x) <= Ceil(y)
         /\ Floor(x) <= x
         /\ \A i \in Int : x <= i * One => Ceil(x) <= i * One
         /\ \A i \in Int : i * One <= x => i * One <= Floor(x)
<1>1. One \in Nat \ {0}
  BY FormatFacts
<1>2. \A a \in Int : /\ a \div One \in Int /\ Floor(a) = (a \div One) * One /\ Floor(a) \in Int
                     /\ Floor(a) <= a /\ a < Floor(a) + One
  <2> TAKE a \in Int
  <2>1. a \div One \in Int /\ a % One \in 0 .. One - 1 /\ a = One * (a \div One) + (a % One)
    BY <1>1, Quotient
  <2>2. One * (a \div One) = (a \div One) * One /\ (a \div One) * One \in Int
    BY <1>1, <2>1
  <2> QED BY <1>1, <2>1, <2>2 DEF Floor
<1>3. ASSUME NEW a \in Int, NEW i \in Int, i * One <= a PROVE i * One <= Floor(a)
  <2> DEFINE d == a \div One
  <2>1. d \in Int /\ Floor(a) = d * One /\ a < d * One + One
    BY <1>2
  <2> HIDE DEF d
  <2>2. d < i => One * d + One <= One * i
    BY <1>1, <2>1, Products
  <2>3. One * d = d * One /\ One * i = i * One /\ d * One \in Int /\ i * One \in Int
    BY <1>1, <2>1
  <2>4. i <= d
    BY <1>1, <1>3, <2>1, <2>2, <2>3
  <2> QED BY <1>1, <2>1, <2>4, Products
<1>4. \A a, b \in Int : a <= b => Floor(a) <= Floor(b)
  <2> TAKE a, b \in Int
  <2> HAVE a <= b
  <2>1. (a \div One) * One <= b /\ a \div One \in Int
    BY <1>2
  <2> QED BY <1>2, <1>3, <2>1
<1>5. \A a \in Int : Ceil(a) = - Floor(- a) /\ - a \in Int /\ Floor(- a) = ((- a) \div One) * One
                     /\ (- a) \div One \in Int
  BY <1>2 DEF Ceil
<1>6. \E i \in Int : Ceil(x) = i * One
  <2>1. Ceil(x) = (- ((- x) \div One)) * One /\ - ((- x) \div One) \in Int
    BY <1>1, <1>5
  <2> QED BY <2>1
<1>7. Ceil(x) <= Ceil(y) /\ Ceil(x) \in Int
  <2>1. Floor(- y) <= Floor(- x) /\ Floor(- x) \in Int /\ Floor(- y) \in Int
    BY <1>2, <1>4
  <2> QED BY <1>5, <2>1
<1>8. ASSUME NEW i \in Int, x <= i * One PROVE Ceil(x) <= i * One
  <2>1. (- i) * One = - (i * One) /\ i * One \in Int
    BY <1>1
  <2>2. (- i) * One <= - x
    BY <1>8, <2>1
  <2>3. (- i) * One <= Floor(- x) /\ Floor(- x) \in Int
    BY <1>2, <1>3, <2>2
  <2> QED BY <1>5, <2>1, <2>3
<1> QED BY <1>2, <1>3, <1>4, <1>6, <1>7, <1>8

-----------------------------------------------------------------------------
\* The exponent of a ratio, from its place between two powers of two.
LEMMA ExponentIs ==
  ASSUME NEW num \in Nat, NEW den \in Nat \ {0}, NEW e \in 0 .. MaxExponent,
         num < den * (2 ^ Precision * 2 ^ e),
         e = 0 \/ den * (2 ^ (Precision - 1) * 2 ^ e) <= num
  PROVE  Spacing(num, den) = 2 ^ e
<1> DEFINE half == 2 ^ (Precision - 1)
<1>1. PICK d \in 0 .. MaxExponent + 1 :
           /\ Spacing(num, den) = 2 ^ d
           /\ d = MaxExponent + 1 \/ num < den * (2 ^ Precision * 2 ^ d)
           /\ d = 0 \/ den * (half * 2 ^ d) <= num
  BY NearestFacts, Zenon
<1>2. /\ e \in Nat /\ d \in Nat /\ 2 ^ e \in Nat \ {0} /\ 2 ^ d \in Nat \ {0}
      /\ half \in Nat \ {0} /\ 2 ^ Precision = 2 * half /\ e # MaxExponent + 1
  BY <1>1, FormatFacts, PowerIsPositive
<1>3. \A i, j \in {d, e} : i < j => den * (2 ^ Precision * 2 ^ i) <= den * (half * 2 ^ j)
  <2> TAKE i, j \in {d, e}
  <2> HAVE i < j
  <2>1. 2 * 2 ^ i <= 2 ^ j /\ 2 ^ i \in Nat /\ 2 ^ j \in Nat
    BY <1>2, PowerBelow
  <2>2. half * (2 * 2 ^ i) <= half * 2 ^ j /\ half * 2 ^ j \in Nat
    BY <1>2, <2>1, Products
  <2>3. 2 ^ Precision * 2 ^ i = half * (2 * 2 ^ i) /\ half * (2 * 2 ^ i) \in Nat
    BY <1>2, <2>1
  <2> QED BY <2>2, <2>3, Products
<1>4. \A i \in {d, e} : den * (2 ^ Precision * 2 ^ i) \in Nat /\ den * (half * 2 ^ i) \in Nat
  BY <1>2
<1>5. ~ d < e
  <2> SUFFICES ASSUME d < e PROVE FALSE
    OBVIOUS
  <2>1. d # MaxExponent + 1 /\ e # 0 /\ MaxExponent \in Nat
    BY <1>2, FormatFacts
  <2>2. num < den * (2 ^ Precision * 2 ^ d) /\ den * (half * 2 ^ e) <= num
    BY <1>1, <2>1
  <2> QED BY <1>3, <1>4, <2>2
<1>6. ~ e < d
  BY <1>1, <1>2, <1>3, <1>4
<1>7. d = e
  BY <1>2, <1>5, <1>6
<1> QED BY <1>1, <1>7

\* A value past half the significands of a spacing has that spacing at least.
LEMMA SpacingFrom ==
  ASSUME NEW num \in Nat, NEW e \in 0 .. MaxExponent + 1, 2 ^ (Precision - 1) * 2 ^ e <= num
  PROVE  2 ^ e <= Spacing(num, 1)
<1> DEFINE half == 2 ^ (Precision - 1)
<1>1. PICK d \in 0 .. MaxExponent + 1 :
           /\ Spacing(num, 1) = 2 ^ d
           /\ d = MaxExponent + 1 \/ num < 1 * (2 ^ Precision * 2 ^ d)
  <2>1. 1 \in Nat \ {0}
    OBVIOUS
  <2> QED BY <2>1, NearestFacts, Zenon
<1>2. /\ e \in Nat /\ d \in Nat /\ 2 ^ e \in Nat \ {0} /\ 2 ^ d \in Nat \ {0}
      /\ half \in Nat \ {0} /\ 2 ^ Precision = 2 * half
  BY <1>1, FormatFacts, PowerIsPositive
<1>3. ~ d < e
  <2> SUFFICES ASSUME d < e PROVE FALSE
    OBVIOUS
  <2>1. 2 * 2 ^ d <= 2 ^ e
    BY <1>2, PowerBelow
  <2>2. half * (2 * 2 ^ d) <= half * 2 ^ e
    BY <1>2, <2>1, Products
  <2>3. 1 * (2 ^ Precision * 2 ^ d) = half * (2 * 2 ^ d) /\ half * (2 * 2 ^ d) \in Nat /\ half * 2 ^ e \in Nat
    BY <1>2
  <2>4. d # MaxExponent + 1
    BY <1>2, FormatFacts
  <2> QED BY <1>1, <2>2, <2>3, <2>4
<1> QED BY <1>1, <1>2, <1>3, PowerUpTo

\* Rounding never narrows the spacing.
LEMMA SpacingOfNearest ==
  ASSUME NEW num \in Nat, num < Infinity
  PROVE  /\ Spacing(num, 1) \in Nat \ {0} /\ Spacing(num, 1) <= Spacing(Nearest(num, 1), 1)
         /\ Spacing(Nearest(num, 1), 1) \in Nat \ {0}
         /\ 2 * Nearest(num, 1) - 2 * num \in - Spacing(num, 1) .. Spacing(num, 1)
<1> DEFINE half == 2 ^ (Precision - 1)
           b == Nearest(num, 1)
<1>0. 1 \in Nat \ {0} /\ num < 1 * Infinity /\ Infinity \in Nat
  BY FormatFacts
<1>1. PICK e \in 0 .. MaxExponent + 1, c \in Nat :
           /\ Spacing(num, 1) = 2 ^ e
           /\ b = IF c * 2 ^ e < Infinity THEN c * 2 ^ e ELSE Infinity
           /\ e = 0 \/ half <= c
  BY <1>0, NearestFacts, Zenon
<1>2. b \in Nat /\ b <= Infinity /\ e \in Nat /\ 2 ^ e \in Nat \ {0} /\ half \in Nat \ {0} /\ 2 ^ 0 = 1
  BY <1>0, <1>1, NearestIsNat, FormatFacts, PowerIsPositive
<1>3. \E d \in 0 .. MaxExponent + 1 : Spacing(b, 1) = 2 ^ d
  BY <1>0, <1>2, NearestFacts, Zenon
<1>4. Spacing(b, 1) \in Nat \ {0}
  BY <1>3, FormatFacts, PowerIsPositive
<1>5. Spacing(num, 1) \in Nat \ {0} /\ 2 * b * 1 - 2 * num \in - (1 * Spacing(num, 1)) .. 1 * Spacing(num, 1)
  BY <1>0, NearestError
<1>6. 2 ^ e <= Spacing(b, 1)
  <2>1. CASE e = 0
    BY <1>2, <1>4, <2>1
  <2>2. CASE e # 0
    <3>1. half * 2 ^ e <= c * 2 ^ e /\ half * 2 ^ e \in Nat /\ c * 2 ^ e \in Nat
      BY <1>1, <1>2, <2>2, Products
    <3>2. half * 2 ^ e <= Infinity
      <4>1. Infinity = half * (2 * 2 ^ MaxExponent) /\ 2 ^ MaxExponent \in Nat
        <5>1. Infinity = 2 ^ Precision * 2 ^ MaxExponent /\ 2 ^ MaxExponent \in Nat
          BY FormatFacts, PowerSum, PowerIsPositive DEF Infinity
        <5> QED BY <5>1, FormatFacts
      <4>2. 2 ^ (MaxExponent + 1) = 2 * 2 ^ MaxExponent /\ 2 ^ e <= 2 ^ (MaxExponent + 1)
        BY <1>1, <1>2, FormatFacts, PowerStep, PowerUpTo
      <4> QED BY <1>2, <4>1, <4>2, Products
    <3>3. half * 2 ^ e <= b
      BY <1>1, <3>1, <3>2
    <3> HIDE DEF b
    <3> QED BY <1>2, <3>3, SpacingFrom
  <2> QED BY <2>1, <2>2
<1>7. 2 * b * 1 = 2 * b /\ 1 * Spacing(num, 1) = Spacing(num, 1)
  BY <1>2, <1>5
<1> QED BY <1>1, <1>4, <1>5, <1>6, <1>7

\* Rounding commutes with a change of sign.
LEMMA RoundOfNegative ==
  ASSUME NEW x \in Int, NEW den \in Nat \ {0}
  PROVE  Round(- x, den) = - Round(x, den)
<1>1. Nearest(0, den) = 0
  <2>1. 0 * den = 0
    OBVIOUS
  <2> QED BY <2>1, GridZero, NearestFixesGrid
<1>2. CASE x >= 0 /\ x <= 0
  <2>1. x = 0
    BY <1>2
  <2>2. - x = x
    BY <1>2
  <2>3. Round(x, den) = 0
    <3>1. Round(x, den) = Nearest(x, den)
      BY <1>2, RoundCases
    <3> QED BY <1>1, <2>1, <3>1, Zenon
  <2>4. Round(- x, den) = 0
    BY <2>2, <2>3, Zenon
  <2> QED BY <2>3, <2>4
<1>3. CASE x > 0
  <2>1. - x < 0 /\ - x \in Int /\ - (- x) = x
    BY <1>3
  <2> QED BY <1>3, <2>1, RoundCases
<1>4. CASE x < 0
  <2>1. ~ - x < 0 /\ - x \in Int
    BY <1>4
  <2>2. Round(- x, den) = Nearest(- x, den) /\ Round(x, den) = - Nearest(- x, den)
    BY <1>4, <2>1, RoundCases
  <2>3. Nearest(- x, den) \in Nat
    BY <1>4, NearestIsNat
  <2> QED BY <2>2, <2>3
<1> QED BY <1>2, <1>3, <1>4

\* Cancelling a factor of a ratio changes nothing.
LEMMA RoundScales ==
  ASSUME NEW x \in Int, NEW den \in Nat \ {0}, NEW m \in Nat \ {0}
  PROVE  Round(x * m, den * m) = Round(x, den)
<1>1. ASSUME NEW a \in Nat PROVE Nearest(a * m, den * m) = Nearest(a, den)
  <2>1. PICK e \in 0 .. MaxExponent + 1, c \in Nat :
           /\ Spacing(a, den) = 2 ^ e /\ c = NearestCount[<<a, den * 2 ^ e>>]
           /\ Nearest(a, den) = IF c * 2 ^ e < Infinity THEN c * 2 ^ e ELSE Infinity
    BY NearestFacts, Zenon
  <2> DEFINE u == den * 2 ^ e
  <2>2. e \in Nat /\ 2 ^ e \in Nat \ {0} /\ u \in Nat \ {0} /\ a * m \in Nat /\ den * m \in Nat \ {0}
    BY <2>1, FormatFacts, PowerIsPositive
  <2>3. Spacing(a * m, den * m) = Spacing(a, den)
    <3>1. \A d \in Int : Precision + d \in Nat =>
            (a * m < (den * m) * 2 ^ (Precision + d) <=> a < den * 2 ^ (Precision + d))
      <4> TAKE d \in Int
      <4> HAVE Precision + d \in Nat
      <4>1. 2 ^ (Precision + d) \in Nat
        BY PowerIsPositive
      <4> DEFINE p == 2 ^ (Precision + d)
      <4> HIDE DEF p
      <4>2. (den * m) * p = (den * p) * m /\ den * p \in Int
        BY <4>1 DEF p
      <4>3. (a < den * p => a * m < (den * p) * m) /\ (den * p <= a => (den * p) * m <= a * m)
        BY <4>2, Products
      <4>4. a * m \in Int /\ (den * p) * m \in Int
        BY <4>2
      <4> QED BY <4>2, <4>3, <4>4 DEF p
    <3>2. \A d \in 0 .. MaxExponent + 1 :
            /\ a * m < (den * m) * 2 ^ (Precision + d) <=> a < den * 2 ^ (Precision + d)
            /\ d # 0 => (a * m < (den * m) * 2 ^ (Precision + (d - 1)) <=> a < den * 2 ^ (Precision + (d - 1)))
      <4> TAKE d \in 0 .. MaxExponent + 1
      <4>1. d \in Int /\ Precision + d \in Nat /\ d - 1 \in Int /\ (d # 0 => Precision + (d - 1) \in Nat)
        BY FormatFacts
      <4> QED BY <3>1, <4>1
    <3> QED BY <3>2 DEF Spacing
  <2> HIDE DEF u
  <2>4. NearestCount[<<a * m, u * m>>] = c
    <3> DEFINE q1 == (a * m) \div (u * m)
               r1 == (a * m) % (u * m)
               q2 == a \div u
               r2 == a % u
    <3>0. u * m \in Nat \ {0}
      BY <2>2
    <3>1. /\ q1 \in Int /\ r1 \in 0 .. u * m - 1 /\ a * m = (u * m) * q1 + r1
          /\ q2 \in Int /\ r2 \in 0 .. u - 1 /\ a = u * q2 + r2
      <4>1. a * m \in Int /\ a \in Int
        BY <2>2
      <4> QED BY <2>2, <3>0, <4>1, Quotient
    <3>2. c = IF 2 * r2 - u > 0 \/ (2 * r2 - u = 0 /\ q2 % 2 = 1) THEN q2 + 1 ELSE q2
      BY <2>1, <2>2 DEF NearestCount, u
    <3>3. NearestCount[<<a * m, u * m>>] =
            IF 2 * r1 - u * m > 0 \/ (2 * r1 - u * m = 0 /\ q1 % 2 = 1) THEN q1 + 1 ELSE q1
      BY <2>2, <3>0 DEF NearestCount
    <3> HIDE DEF q1, r1, q2, r2
    <3>4. r2 * m \in Nat /\ r2 * m + m <= u * m /\ a * m = (u * m) * q2 + r2 * m
      <4>1. r2 \in Int /\ u \in Int /\ r2 < u /\ r2 \in Nat
        BY <2>2, <3>1
      <4>2. m * r2 + m <= m * u /\ m * r2 = r2 * m /\ m * u = u * m
        BY <4>1, Products
      <4>3. (u * q2 + r2) * m = (u * m) * q2 + r2 * m
        BY <3>1, <4>1
      <4> QED BY <3>1, <4>1, <4>2, <4>3
    <3> DEFINE w == u * m
               s == r2 * m
    <3> HIDE DEF w, s
    <3>5. w \in Nat \ {0} /\ s \in Nat /\ s < w /\ r1 \in Nat /\ r1 < w /\ w * q1 + r1 = w * q2 + s
      BY <3>0, <3>1, <3>4 DEF w, s
    <3>6. q1 = q2
      <4>1. q1 < q2 => w * q1 + w <= w * q2
        BY <3>1, <3>5, Products
      <4>2. q2 < q1 => w * q2 + w <= w * q1
        BY <3>1, <3>5, Products
      <4>3. w * q1 \in Int /\ w * q2 \in Int
        BY <3>1, <3>5
      <4> QED BY <3>1, <3>5, <4>1, <4>2, <4>3
    <3>7. r1 = r2 * m
      <4>1. w * q1 \in Int
        BY <3>1, <3>5
      <4> QED BY <3>5, <3>6, <4>1 DEF s
    <3>8. 2 * r1 - u * m = (2 * r2 - u) * m /\ 2 * r2 - u \in Int
      BY <2>2, <3>1, <3>7
    <3>9. ((2 * r2 - u) * m > 0 <=> 2 * r2 - u > 0) /\ ((2 * r2 - u) * m = 0 <=> 2 * r2 - u = 0)
      <4> DEFINE d == 2 * r2 - u
      <4>1. d \in Int
        BY <3>8
      <4> HIDE DEF d
      <4>2. (d > 0 => m * 0 < m * d) /\ (d < 0 => m * d < m * 0) /\ m * 0 = 0 /\ d * m = m * d /\ d * m \in Int
        BY <4>1, Products
      <4> QED BY <4>1, <4>2 DEF d
    <3> QED BY <3>2, <3>3, <3>6, <3>8, <3>9
  <2>5. (den * m) * 2 ^ e = u * m
    BY <2>2 DEF u
  <2>6. Nearest(a * m, den * m) = Saturated[c * 2 ^ e]
    BY <2>1, <2>3, <2>4, <2>5 DEF Nearest
  <2>7. c * 2 ^ e \in Nat
    BY <2>1, <2>2
  <2>8. Saturated[c * 2 ^ e] = IF c * 2 ^ e < Infinity THEN c * 2 ^ e ELSE Infinity
    BY <2>7 DEF Saturated
  <2> QED BY <2>1, <2>6, <2>8
<1>2. den * m \in Nat \ {0} /\ x * m \in Int
  OBVIOUS
<1>3. CASE x >= 0
  <2>1. x \in Nat /\ ~ x * m < 0 /\ ~ x < 0
    <3>1. x \in Nat
      BY <1>3
    <3>2. x * m \in Nat
      BY <3>1
    <3> QED BY <3>1, <3>2
  <2> QED BY <1>1, <1>2, <2>1, RoundCases
<1>4. CASE x < 0
  <2>1. - x \in Nat /\ - (x * m) = (- x) * m /\ x * m < 0
    <3>1. m * x < m * 0 /\ m * 0 = 0 /\ m * x = x * m
      BY <1>4, Products
    <3> QED BY <1>2, <1>4, <3>1
  <2>2. Round(x * m, den * m) = - Nearest((- x) * m, den * m) /\ Round(x, den) = - Nearest(- x, den)
    BY <1>2, <1>4, <2>1, RoundCases
  <2> QED BY <1>1, <2>1, <2>2
<1> QED BY <1>3, <1>4

\* Below the reach of a spacing, rounding errs by half of it at most.
LEMMA ErrorUpTo ==
  ASSUME NEW num \in Nat, NEW den \in Nat \ {0}, NEW e \in 0 .. MaxExponent,
         num < den * (2 ^ Precision * 2 ^ e)
  PROVE  /\ Spacing(num, den) \in Nat \ {0} /\ Spacing(num, den) <= 2 ^ e
         /\ num < den * Infinity
         /\ 2 * Nearest(num, den) * den - 2 * num \in - (den * 2 ^ e) .. den * 2 ^ e
<1> DEFINE half == 2 ^ (Precision - 1)
           v == Nearest(num, den)
<1>1. PICK d \in 0 .. MaxExponent + 1 :
           /\ Spacing(num, den) = 2 ^ d
           /\ d = 0 \/ den * (half * 2 ^ d) <= num
  BY NearestFacts, Zenon
<1>2. /\ e \in Nat /\ d \in Nat /\ 2 ^ e \in Nat \ {0} /\ 2 ^ d \in Nat \ {0} /\ v \in Nat
      /\ half \in Nat \ {0} /\ 2 ^ Precision = 2 * half /\ MaxExponent \in Nat
  BY <1>1, FormatFacts, PowerIsPositive, NearestIsNat
<1>3. d <= e
  <2> SUFFICES ASSUME e < d PROVE FALSE
    BY <1>2
  <2>1. 2 * 2 ^ e <= 2 ^ d
    BY <1>2, PowerBelow
  <2>2. half * (2 * 2 ^ e) <= half * 2 ^ d /\ half * 2 ^ d \in Nat /\ half * (2 * 2 ^ e) \in Nat
    BY <1>2, <2>1, Products
  <2>3. 2 ^ Precision * 2 ^ e = half * (2 * 2 ^ e)
    BY <1>2
  <2>4. den * (half * (2 * 2 ^ e)) <= den * (half * 2 ^ d)
    BY <2>2, Products
  <2>5. den * (half * (2 * 2 ^ e)) \in Nat /\ den * (half * 2 ^ d) \in Nat /\ d # 0
    BY <1>2, <2>2
  <2> QED BY <1>1, <2>3, <2>4, <2>5
<1>4. 2 ^ d <= 2 ^ e
  BY <1>2, <1>3, PowerUpTo
<1>5. num < den * Infinity
  <2>1. Infinity = 2 ^ Precision * 2 ^ MaxExponent /\ 2 ^ MaxExponent \in Nat
    BY FormatFacts, PowerSum, PowerIsPositive DEF Infinity
  <2>2. 2 ^ e <= 2 ^ MaxExponent
    BY <1>2, PowerUpTo
  <2>3. 2 ^ Precision * 2 ^ e <= Infinity /\ 2 ^ Precision * 2 ^ e \in Nat /\ Infinity \in Nat
    BY <1>2, <2>1, <2>2, Products, FormatFacts
  <2>4. den * (2 ^ Precision * 2 ^ e) <= den * Infinity
    BY <2>3, Products
  <2>5. den * (2 ^ Precision * 2 ^ e) \in Nat /\ den * Infinity \in Nat
    BY <2>3
  <2> QED BY <2>4, <2>5
<1>6. 2 * v * den - 2 * num \in - (den * Spacing(num, den)) .. den * Spacing(num, den)
  BY <1>5, NearestError
<1>7. den * 2 ^ d <= den * 2 ^ e /\ den * 2 ^ d \in Nat /\ den * 2 ^ e \in Nat
  BY <1>2, <1>4, Products
<1> HIDE DEF v
<1>8. 2 * v * den - 2 * num \in - (den * 2 ^ e) .. den * 2 ^ e
  BY <1>1, <1>2, <1>6, <1>7
<1> QED BY <1>1, <1>2, <1>4, <1>5, <1>8 DEF v

\* A half of a double rounds as the number itself.
LEMMA RoundOfDouble ==
  ASSUME NEW x \in Int
  PROVE  Round(2 * x, 2) = Round(x, 1)
<1>1. 1 \in Nat \ {0} /\ 2 \in Nat \ {0} /\ 2 * x = x * 2 /\ 1 * 2 = 2
  OBVIOUS
<1>2. Round(x * 2, 1 * 2) = Round(x, 1)
  BY <1>1, RoundScales
<1> QED BY <1>1, <1>2

-----------------------------------------------------------------------------
\* The finite values and their whole parts.

\* What leaves no remainder is a multiple.
LEMMA Multiples ==
  ASSUME NEW x \in Int, NEW b \in Nat \ {0}
  PROVE  x % b = 0 <=> \E i \in Int : x = i * b
<1>1. x \div b \in Int /\ x % b \in 0 .. b - 1 /\ x = b * (x \div b) + (x % b)
  BY Quotient
<1>2. ASSUME x % b = 0 PROVE \E i \in Int : x = i * b
  <2> DEFINE d == x \div b
  <2>1. x = d * b /\ d \in Int
    BY <1>1, <1>2
  <2> QED BY <2>1
<1>3. ASSUME NEW i \in Int, x = i * b PROVE x % b = 0
  <2> DEFINE d == x \div b
             r == x % b
  <2>1. i * b = b * d + r /\ d \in Int /\ r \in 0 .. b - 1
    BY <1>1, <1>3
  <2> HIDE DEF d, r
  <2>2. d < i => b * d + b <= b * i
    BY <2>1, Products
  <2>3. i < d => b * i + b <= b * d
    BY <2>1, Products
  <2>4. i = d
    BY <2>1, <2>2, <2>3
  <2>5. r = 0
    BY <2>1, <2>4
  <2> QED BY <2>5 DEF r
<1> QED BY <1>2, <1>3

\* A significand of the format, at any exponent, is a value where it does not overflow.
LEMMA GridValue ==
  ASSUME NEW i \in Nat, NEW e \in Nat, i <= 2 ^ Precision, i * 2 ^ e <= Infinity
  PROVE  i * 2 ^ e \in Grid
<1>1. MaxExponent \in Nat /\ 2 ^ Precision \in Nat /\ 2 ^ MaxExponent \in Nat \ {0}
  BY FormatFacts, PowerIsPositive
<1>2. CASE e <= MaxExponent
  <2>1. i \in 0 .. 2 ^ Precision /\ e \in 0 .. MaxExponent
    BY <1>1, <1>2
  <2> QED BY <2>1 DEF Grid
<1>3. CASE MaxExponent < e
  <2>1. e - MaxExponent \in Nat /\ 2 ^ e = 2 ^ MaxExponent * 2 ^ (e - MaxExponent)
    BY <1>1, <1>3, PowerUpTo
  <2> DEFINE s == i * 2 ^ (e - MaxExponent)
  <2>2. 2 ^ (e - MaxExponent) \in Nat
    BY <2>1, PowerIsPositive
  <2>3. s \in Nat /\ i * 2 ^ e = s * 2 ^ MaxExponent
    BY <1>1, <2>1, <2>2
  <2>4. Infinity = 2 ^ Precision * 2 ^ MaxExponent
    BY FormatFacts, PowerSum DEF Infinity
  <2> HIDE DEF s
  <2>5. 2 ^ MaxExponent * s <= 2 ^ MaxExponent * 2 ^ Precision
    BY <1>1, <2>3, <2>4
  <2>6. s <= 2 ^ Precision
    BY <1>1, <2>3, <2>5, Products
  <2>7. s \in 0 .. 2 ^ Precision /\ MaxExponent \in 0 .. MaxExponent
    BY <1>1, <2>3, <2>6
  <2> QED BY <2>3, <2>7 DEF Grid
<1> QED BY <1>1, <1>2, <1>3

\* The grid is the finite values and Infinity.
LEMMA FloatsAndGrid ==
  ASSUME NEW f
  PROVE  f \in Floats <=> f \in Grid /\ f < Infinity
<1>1. /\ MaxExponent \in Nat /\ 2 ^ Precision \in Nat \ {0} /\ 2 ^ (Precision - 1) \in Nat \ {0}
      /\ 2 ^ Precision = 2 * 2 ^ (Precision - 1) /\ 2 ^ MaxExponent \in Nat \ {0}
      /\ Infinity = 2 ^ Precision * 2 ^ MaxExponent
  BY FormatFacts, PowerIsPositive, PowerSum DEF Infinity
<1>2. ASSUME f \in Floats PROVE f \in Grid /\ f < Infinity
  <2>1. PICK s \in 0 .. 2 ^ Precision - 1, e \in 0 .. MaxExponent : f = s * 2 ^ e
    BY <1>2 DEF Floats
  <2>2. s \in 0 .. 2 ^ Precision /\ s < 2 ^ Precision /\ e \in Nat
    BY <1>1, <2>1
  <2>3. 2 ^ e \in Nat \ {0} /\ 2 ^ e <= 2 ^ MaxExponent
    BY <1>1, <2>1, <2>2, PowerIsPositive, PowerUpTo
  <2>4. 2 ^ e * s < 2 ^ e * 2 ^ Precision /\ 2 ^ Precision * 2 ^ e <= 2 ^ Precision * 2 ^ MaxExponent
    BY <1>1, <2>2, <2>3, Products
  <2>5. f < Infinity
    BY <1>1, <2>1, <2>2, <2>3, <2>4
  <2>6. f \in Grid
    BY <2>1, <2>2 DEF Grid
  <2> QED BY <2>5, <2>6
<1>3. ASSUME f \in Grid, f < Infinity PROVE f \in Floats
  <2>1. PICK s \in 0 .. 2 ^ Precision, e \in 0 .. MaxExponent : f = s * 2 ^ e
    BY <1>3 DEF Grid
  <2>2. CASE s < 2 ^ Precision
    <3>1. s \in 0 .. 2 ^ Precision - 1
      BY <1>1, <2>1, <2>2
    <3> QED BY <2>1, <3>1 DEF Floats
  <2>3. CASE s = 2 ^ Precision
    <3>1. e # MaxExponent
      BY <1>1, <1>3, <2>1, <2>3, GridIsNat
    <3>2. e \in Nat /\ e + 1 \in 0 .. MaxExponent /\ 2 ^ (e + 1) = 2 * 2 ^ e /\ 2 ^ e \in Nat
      BY <1>1, <2>1, <3>1, PowerStep, PowerIsPositive
    <3>3. f = 2 ^ (Precision - 1) * 2 ^ (e + 1)
      BY <1>1, <2>1, <2>3, <3>2
    <3>4. 2 ^ (Precision - 1) \in 0 .. 2 ^ Precision - 1
      BY <1>1
    <3> QED BY <3>2, <3>3, <3>4 DEF Floats
  <2> QED BY <1>1, <2>1, <2>2, <2>3
<1> QED BY <1>2, <1>3

\* Past half the significands of an exponent a value is a multiple of its spacing.
LEMMA MultipleFrom ==
  ASSUME NEW f \in Grid, NEW e \in Nat, 2 ^ (Precision - 1) * 2 ^ e <= f
  PROVE  \E k \in Nat : f = k * 2 ^ e
<1>1. f \in Nat /\ 2 ^ (Precision - 1) * 2 ^ e \in Nat
  BY GridIsNat, FormatFacts, PowerIsPositive
<1> QED BY <1>1, GridAtExponent

\* The whole part of a value is a value: a fraction has the spare bits.
LEMMA FloorOfGrid ==
  ASSUME NEW f \in Grid
  PROVE  /\ Floor(f) \in Grid /\ Floor(f) \in Nat /\ Floor(f) <= f /\ f < Floor(f) + One
         /\ Floor(f) % One = 0
         /\ f % One = 0 => Floor(f) = f
         /\ 2 ^ (Precision - 1) * One <= f => f % One = 0
<1> DEFINE k == f \div One
           r == f % One
<1>1. f \in Nat /\ f <= Infinity /\ One \in Nat \ {0} /\ 2 ^ (Precision - 1) \in Nat \ {0}
      /\ 2 ^ Precision = 2 * 2 ^ (Precision - 1) /\ FractionBits \in Nat /\ Infinity \in Nat
  BY GridIsNat, FormatFacts
<1>2. k \in Int /\ r \in 0 .. One - 1 /\ f = One * k + r
  BY <1>1, Quotient
<1>3. k \in Nat
  <2>1. k <= -1 => One * k <= One * (-1)
    BY <1>1, <1>2, Products
  <2> HIDE DEF k, r
  <2> QED BY <1>1, <1>2, <2>1
<1>4. Floor(f) = k * One
  BY DEF Floor
<1> HIDE DEF k
<1>5. Floor(f) \in Nat /\ Floor(f) <= f /\ f < Floor(f) + One /\ f = Floor(f) + r
  <2> HIDE DEF r
  <2> QED BY <1>1, <1>2, <1>3, <1>4
<1>6. Floor(f) % One = 0
  <2>1. Floor(f) \in Int /\ k \in Int /\ Floor(f) = k * One
    BY <1>3, <1>4, <1>5
  <2>2. \E i \in Int : Floor(f) = i * One
    BY <2>1, Zenon
  <2> QED BY <1>1, <2>1, <2>2, Multiples, Zenon
<1>7. f % One = 0 => Floor(f) = f
  BY <1>1, <1>5
<1>8. ASSUME 2 ^ (Precision - 1) * One <= f PROVE f % One = 0
  <2>1. PICK j \in Nat : f = j * One
    BY <1>1, <1>8, MultipleFrom DEF One
  <2>2. f \in Int /\ j \in Int
    BY <1>1
  <2>3. \E i \in Int : f = i * One
    BY <2>1, <2>2, Zenon
  <2> QED BY <1>1, <2>2, <2>3, Multiples, Zenon
<1>9. Floor(f) \in Grid
  <2>1. CASE 2 ^ (Precision - 1) * One <= f
    BY <1>7, <1>8, <2>1
  <2>2. CASE f < 2 ^ (Precision - 1) * One
    <3>1. 2 ^ (Precision - 1) < k => One * 2 ^ (Precision - 1) < One * k
      BY <1>1, <1>3, Products
    <3>2. k <= 2 ^ Precision
      BY <1>1, <1>3, <1>4, <1>5, <2>2, <3>1
    <3>3. k * 2 ^ FractionBits <= Infinity
      BY <1>1, <1>4, <1>5 DEF One
    <3> QED BY <1>1, <1>3, <1>4, <3>2, <3>3, GridValue DEF One
  <2> QED BY <1>1, <2>1, <2>2
<1> QED BY <1>5, <1>6, <1>7, <1>8, <1>9

\* Half a spacing short of a number rounding does not reach it.
LEMMA NearestStaysBelow ==
  ASSUME NEW x \in Nat, NEW k \in Nat, k <= Infinity, 2 * x + Spacing(x, 1) < 2 * k
  PROVE  Nearest(x, 1) < k
<1>1. 1 \in Nat \ {0} /\ Infinity \in Nat
  BY FormatFacts
<1>2. Spacing(x, 1) \in Nat \ {0}
  <2>1. PICK e \in 0 .. MaxExponent + 1 : Spacing(x, 1) = 2 ^ e
    BY <1>1, SpacingFacts
  <2> QED BY <2>1, FormatFacts, PowerIsPositive
<1>3. x < 1 * Infinity
  BY <1>1, <1>2
<1>4. 2 * Nearest(x, 1) * 1 - 2 * x \in - (1 * Spacing(x, 1)) .. 1 * Spacing(x, 1)
  BY <1>1, <1>3, NearestError
<1>5. Nearest(x, 1) \in Nat
  BY <1>1, NearestIsNat
<1> QED BY <1>2, <1>4, <1>5
=============================================================================
