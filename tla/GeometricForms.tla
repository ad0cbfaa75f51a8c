--------------------------- MODULE GeometricForms ---------------------------
(***************************************************************************)
(* The closed forms of Geometric(p), whose points are whole floats from 1  *)
(* up and whose log survival at k is k ln(1 - p).                          *)
(***************************************************************************)
EXTENDS FormTools

CONSTANTS MaxCount,        \* the largest trial count a draw is cast to: u64::MAX
          DirectComplement \* where cdf leaves Expm1 for the plain complement: 20

ASSUME CountAssumption == MaxCount \in One .. Infinity - 1

\* sinh is finite as far as cdf reads it.
ASSUME CrossoverAssumption ==
  /\ DirectComplement \in One .. Infinity - 1
  /\ \A v \in Codes : Abs(v) <= DirectComplement => Finite(SinhAt[v])

ln_failure(p) == Ln1p(Neg(p))

GeometricOnSupport(k) == k >= One /\ Floor(k) = k
Before(k) == Sub(k, One)

\* Mutant: the first trial is left to the power.
PmfOfPower(p, k) ==
  IF GeometricOnSupport(k) THEN Mul(p, Exp(Mul(Before(k), ln_failure(p)))) ELSE 0

GeometricPmf(p, k) ==
  CASE ~ GeometricOnSupport(k) -> 0
    [] k = One -> p
    [] OTHER -> Mul(p, Exp(Mul(Before(k), ln_failure(p))))

GeometricLnPmf(p, k) ==
  CASE ~ GeometricOnSupport(k) -> - Infinity
    [] k = One -> Ln(p)
    [] OTHER -> Add(Mul(Before(k), ln_failure(p)), Ln(p))

GeometricLnSf(p, k) == Sides(k, One, 0, Mul(Floor(k), ln_failure(p)))

GeometricSf(p, k) == Sides(k, One, One, Exp(GeometricLnSf(p, k)))

CDF_DIRECT_COMPLEMENT_MAX == - DirectComplement

GeometricCdf(p, k) ==
  Sides(k, One, 0,
        LET ln_sf == GeometricLnSf(p, k)
        IN  IF ln_sf <= CDF_DIRECT_COMPLEMENT_MAX THEN Sub(One, Exp(ln_sf)) ELSE Neg(Expm1(ln_sf)))

LN_CDF_LN_1P_MAX == - One

GeometricLnCdf(p, k) ==
  Sides(k, One, - Infinity,
        LET ln_sf == GeometricLnSf(p, k)
        IN  IF ln_sf <= LN_CDF_LN_1P_MAX THEN Ln1p(Neg(Exp(ln_sf))) ELSE LnAbsExpm1(ln_sf))

AtLeastOne(k) == IF LessThan(k, One) THEN One ELSE k

\* smallest_support_point: the ceiling, or the point below it when that one already holds.
SmallestSupportPoint(log_target, ln_fail) ==
  LET ceiling == Ceil(Div(log_target, ln_fail))
      overshot == Mul(Sub(ceiling, One), ln_fail) <= log_target
  IN  AtLeastOne(IF overshot THEN Sub(ceiling, One) ELSE ceiling)

GeometricPpf(p, q) == IF p = One THEN One ELSE SmallestSupportPoint(Ln1p(Neg(q)), ln_failure(p))
GeometricIsf(p, q) == IF p = One THEN One ELSE SmallestSupportPoint(Ln(q), ln_failure(p))

\* draw of a uniform u in (0, 1], cast to a count with saturation.
GeometricDraw(p, u) ==
  LET trials == Ceil(Div(Ln(u), ln_failure(p)))
  IN  IF trials > MaxCount THEN MaxCount ELSE AtLeastOne(trials)
=============================================================================
