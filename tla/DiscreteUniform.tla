-------------------------- MODULE DiscreteUniform --------------------------
(***************************************************************************)
(* DiscreteUniform's closed forms: bounds validated in an integer wider    *)
(* than theirs, evaluation points kept in the arithmetic of their dtype,   *)
(* probabilities formed in floats from a rounded count, and the two        *)
(* inverses, each of which corrects the float product it starts from.      *)
(*                                                                         *)
(* A bound is an integer of IntBits bits (64 in the code) and a float is   *)
(* one of TinyFloat's format.  The integers outgrow the floats: some       *)
(* bounds, and some support counts, have no float of their own; but none   *)
(* overflows them, and the reciprocal of none is subnormal, as for i64     *)
(* and f64.                                                                *)
(***************************************************************************)
EXTENDS TinyFloat, FiniteSets

CONSTANTS IntBits,
          Bounds,          \* the integers the bounds are drawn from
          IntPoints,       \* evaluation points of an integer column, unsigned ones included
          FloatPoints,     \* those of a float column
          Quantiles,       \* quantiles asked for that no evaluation produced
          NULL

MinInt == - (2 ^ (IntBits - 1))
MaxInt == 2 ^ (IntBits - 1) - 1

ASSUME DiscreteUniformAssumption ==
  /\ IntBits \in Nat \ {0} /\ Bounds \subseteq MinInt .. MaxInt
  /\ IntPoints \subseteq MinInt .. 2 ^ IntBits - 1
  /\ FloatPoints \subseteq Int /\ Quantiles \subseteq Floats \cup {- x : x \in Floats} /\ NULL \notin Int
  /\ 2 <= Precision /\ Precision < IntBits
  /\ IntBits + FractionBits + 1 < Precision + MaxExponent
  /\ IntBits + Precision <= FractionBits + 2

VARIABLES min, max,
          phase,
          method,      \* the last method called
          point,       \* the point a cdf or sf was evaluated at
          q,           \* the probability it found, or the quantile asked for
          answer       \* the support point an inverse answered, or a midpoint

vars == <<min, max, phase, method, point, q, answer>>

\* `as f64` of an integer, and two's complement i64 arithmetic.
AsFloat(i) == Round(i * One, 1)
Wrap(i) == ((i - MinInt) % 2 ^ IntBits) + MinInt

\* Bounds::accepts.
Accepts(lo, hi) == lo <= hi /\ hi - lo + 1 <= MaxInt

\* Support: the bounds with their count as a float, rounded once from the exact one.
n == AsFloat(max - min + 1)
Lo == AsFloat(min)
Hi == AsFloat(max)

\* Mutant: an unsigned point wraps into the signed column.
PlaceWrapped(p) ==
  LET v == IF p.kind = "int" THEN Wrap(p.at) ELSE p.at
  IN  IF p.kind = "int"
      THEN [below |-> v < min, atTop |-> v >= max,
            count |-> AsFloat(v - min + 1), tail |-> AsFloat(max - v)]
      ELSE [below |-> v < Lo, atTop |-> v >= Hi,
            count |-> Plus(Minus(Floor(v), Lo), One), tail |-> Minus(Hi, Floor(v))]

\* Mutant: the top of the support is left to the product.
PlaceOpenTop(p) ==
  IF p.kind = "int"
  THEN [below |-> p.at < min, atTop |-> p.at > max,
        count |-> AsFloat(p.at - min + 1), tail |-> AsFloat(max - p.at)]
  ELSE [below |-> p.at < Lo, atTop |-> p.at > Hi,
        count |-> Plus(Minus(Floor(p.at), Lo), One), tail |-> Minus(Hi, Floor(p.at))]

\* place: an integer point against the exact bounds, a float one against their casts.
Place(p) ==
  IF p.kind = "int"
  THEN [below |-> p.at < min, atTop |-> p.at >= max,
        count |-> AsFloat(p.at - min + 1), tail |-> AsFloat(max - p.at)]
  ELSE [below |-> p.at < Lo, atTop |-> p.at >= Hi,
        count |-> Plus(Minus(Floor(p.at), Lo), One), tail |-> Minus(Hi, Floor(p.at))]

\* cdf_point and sf_point: a product with the rounded reciprocal, the ends explicit.
Cdf(p) ==
  LET at == Place(p)
  IN  IF at.below THEN 0 ELSE IF at.atTop THEN One ELSE Times(at.count, Over(One, n))

Sf(p) ==
  LET at == Place(p)
  IN  IF at.below THEN One ELSE IF at.atTop THEN 0 ELSE Times(at.tail, Over(One, n))

InUnit(x) == 0 <= x /\ x <= One
Least(x, y) == IF x <= y THEN x ELSE y
Most(x, y) == IF x <= y THEN y ELSE x
Clamp(x) == Most(Lo, Least(Hi, x))

\* Mutant: a point is kept below the candidate whatever its cdf.
PpfBelow(x) == Clamp(Minus(Plus(Lo, Floor(Times(x, n))), One))

\* ppf_value inside the unit interval: the candidate, or the point below it when its cdf reaches x.
Ppf(x) ==
  LET candidate == Minus(Plus(Lo, Ceil(Times(x, n))), One)
      below == Clamp(Minus(candidate, One))
  IN  Clamp(IF Over(Plus(Minus(Floor(below), Lo), One), n) >= x THEN below ELSE candidate)

\* Mutant: the point below the candidate is probed the wrong way round.
IsfStepsBack(x) ==
  LET candidate == Minus(Hi, Floor(Times(x, n)))
      below == Minus(candidate, One)
  IN  Clamp(IF Over(Minus(Hi, below), n) > x THEN below
            ELSE IF Over(Minus(Hi, candidate), n) <= x THEN candidate
            ELSE Plus(candidate, One))

\* isf_value inside the unit interval: the first of three neighbours whose survival mass is at most x.
Isf(x) ==
  LET candidate == Minus(Hi, Floor(Times(x, n)))
      below == Minus(candidate, One)
  IN  Clamp(IF Over(Minus(Hi, below), n) <= x THEN below
            ELSE IF Over(Minus(Hi, candidate), n) <= x THEN candidate
            ELSE Plus(candidate, One))

\* Mutant: the bounds are summed before they are halved.
MidpointSummed ==
  LET sum == Wrap(min + max)
  IN  Plus(AsFloat(sum \div 2), (sum % 2) * (One \div 2))

\* _midpoint, in Int64 until it is cast.
Midpoint ==
  LET width == Wrap(max - min)
  IN  Plus(AsFloat(Wrap(min + width \div 2)), (width % 2) * (One \div 2))

Points == [kind : {"int"}, at : IntPoints] \cup [kind : {"float"}, at : FloatPoints]

Init ==
  /\ min \in Bounds /\ max \in Bounds
  /\ phase = "new" /\ method = "none" /\ point = NULL /\ q = NULL /\ answer = NULL

Validate ==
  /\ phase = "new"
  /\ phase' = IF Accepts(min, max) THEN "ready" ELSE "raised"
  /\ UNCHANGED <<min, max, method, point, q, answer>>

Evaluate(m, p) ==
  /\ phase = "ready"
  /\ phase' = "evaluated" /\ method' = m /\ point' = p
  /\ q' = IF m = "cdf" THEN Cdf(p) ELSE Sf(p)
  /\ UNCHANGED <<min, max, answer>>

InverseOf(m, x) ==
  IF ~ InUnit(x) THEN NULL ELSE IF m \in {"cdf", "ppf"} THEN Ppf(x) ELSE Isf(x)

\* The inverse of the method evaluated, at the probability it found.
InvertBack ==
  /\ phase = "evaluated"
  /\ phase' = "inverted" /\ answer' = InverseOf(method, q)
  /\ UNCHANGED <<min, max, method, point, q>>

\* An inverse at a quantile of the caller's own.
Invert(m, x) ==
  /\ phase = "ready"
  /\ phase' = "inverted" /\ method' = m /\ q' = x /\ answer' = InverseOf(m, x)
  /\ UNCHANGED <<min, max, point>>

\* mean and median, gated on the validated bounds.
Moment ==
  /\ phase = "ready"
  /\ phase' = "moment" /\ method' = "mean" /\ answer' = Midpoint
  /\ UNCHANGED <<min, max, point, q>>

Finished == phase \in {"raised", "inverted", "moment"} /\ UNCHANGED vars

Next ==
  \/ Validate \/ InvertBack \/ Moment \/ Finished
  \/ \E m \in {"cdf", "sf"}, p \in Points : Evaluate(m, p)
  \/ \E m \in {"ppf", "isf"}, x \in Quantiles : Invert(m, x)

Spec == Init /\ [][Next]_vars

-----------------------------------------------------------------------------
\* The method evaluated, and the probability it found.
Evaluated ==
  method \in {"cdf", "sf"} /\ point \in Points /\ q = IF method = "cdf" THEN Cdf(point) ELSE Sf(point)

\* What every state holds: what was asked of bounds that passed, and that the answer is that method's.
IInv ==
  /\ min \in Bounds /\ max \in Bounds
  /\ phase \in {"new", "ready", "raised", "evaluated", "inverted", "moment"}
  /\ phase \in {"ready", "evaluated", "inverted", "moment"} => Accepts(min, max)
  /\ phase = "evaluated" => Evaluated
  /\ phase = "inverted" =>
       (Evaluated \/ (method \in {"ppf", "isf"} /\ q \in Quantiles)) /\ answer = InverseOf(method, q)
  /\ phase = "moment" => answer = Midpoint

\* Bounds inside +-2^53, and a support count that leaves the quantiles a bit to spare.
Exact(i) == - (2 ^ Precision) < i /\ i < 2 ^ Precision
ExactBounds == Exact(min) /\ Exact(max)
Narrow == ExactBounds /\ max - min + 1 <= 2 ^ (Precision - 1)

\* The spacing of the floats at x, and the next point of a point's own kind.
Ulp(x) == Spacing(IF x < 0 THEN - x ELSE x, 1)
Following(p) == [p EXCEPT !.at = IF p.kind = "int" THEN @ + 1 ELSE @ + Ulp(@)]

\* cdf never falls and sf never rises, each a probability, and each exactly 0 or 1 at the end of the
\* support: an integer point on any support, a float one on bounds inside +-2^53 only, for past them
\* both tails can pass 1 (precision_test.py:152-178, on the reciprocal product).
CdfClimbs ==
  phase = "evaluated" /\ (point.kind = "int" \/ ExactBounds) =>
    /\ 0 <= q /\ q <= One
    /\ point.at >= (IF point.kind = "int" THEN max ELSE Hi) => q = IF method = "cdf" THEN One ELSE 0
    /\ IF method = "cdf" THEN q <= Cdf(Following(point)) ELSE q >= Sf(Following(point))

\* An integer point and the float it casts to find the same probability, wherever the point lies and
\* whatever its own width, for bounds and a width inside +-2^53 (precision_test.py:181-190).
IntAndFloatAgree ==
  phase = "evaluated" /\ point.kind = "int" /\ ExactBounds /\ max - min < 2 ^ Precision =>
    LET cast == [kind |-> "float", at |-> AsFloat(point.at)]
    IN  q = IF method = "cdf" THEN Cdf(cast) ELSE Sf(cast)

\* Inverting the probability of a support point answers the point or the one above it, though the
\* product and the quotient round apart, and isf answers a point whose survival mass is at most the
\* mass it was asked for (precision_test.py:344-352).
RoundTrips ==
  phase = "inverted" /\ Narrow =>
    /\ method \in {"cdf", "sf"} /\ point.kind = "int" /\ point.at \in min .. max
         => answer \in {point.at * One, (point.at + 1) * One}
    /\ method = "sf" => Sf([kind |-> "float", at |-> answer]) <= q

\* An inverse is null exactly outside the unit interval; inside it, it answers within the support's
\* casts, and the correction steps never answer a lower point to a higher quantile (a higher one,
\* for isf).
InverseClimbs ==
  phase = "inverted" =>
    /\ IF InUnit(q) THEN Lo <= answer /\ answer <= Hi ELSE answer = NULL
    /\ InUnit(q) /\ q < One =>
         IF method \in {"cdf", "ppf"} THEN answer <= Ppf(q + Ulp(q)) ELSE answer >= Isf(q + Ulp(q))

\* Away from the steps' edges both inverses agree with rational arithmetic (accuracy.md:83-87).
RationalOffEdges ==
  phase = "inverted" /\ InUnit(q) /\ Narrow =>
    LET count == max - min + 1
        OnEdge == \E k \in 0 .. count :
                    LET edge == Round(k * One, count)
                    IN  q = edge \/ (method \in {"cdf", "ppf"} /\ q = edge + Ulp(edge))
        exact == IF method \in {"cdf", "ppf"}
                 THEN min - ((- q * count) \div One) - 1
                 ELSE max - (q * count) \div One
    IN  OnEdge \/ answer = exact * One

\* What an inverse owes on a support narrower than the significands: the way back from a
\* probability, and the exact step function away from its edges.
InversesInvert == RoundTrips /\ RationalOffEdges

\* The midpoint is exact on bounds inside +-2^53 and within a spacing of the floats elsewhere,
\* though min + max overflows i64 (accuracy.md:109-111).
MidpointIsExact ==
  phase = "moment" =>
    LET twice == (min + max) * One
        error == 2 * answer - twice
    IN  /\ error \in - 2 * Ulp(answer) .. 2 * Ulp(answer)
        /\ ExactBounds => answer = Round(twice, 2)

\* What place says of its counts: "only read where the branches keep them in [1, N - 1]"
\* (discrete_uniform.rs:120-121).
CountsStayInside ==
  phase = "evaluated" =>
    LET at == Place(point)
    IN  at.below \/ at.atTop \/
          LET read == IF method = "cdf" THEN at.count ELSE at.tail
          IN  One <= read /\ read <= AsFloat(max - min)
=============================================================================
