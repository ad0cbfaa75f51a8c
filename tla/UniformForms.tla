---------------------------- MODULE UniformForms ----------------------------
(***************************************************************************)
(* The closed forms of the continuous Uniform(min, max).                   *)
(***************************************************************************)
EXTENDS FormTools

\* checked_bounds: the bounds on their own, then Bounds::accepts.
UniformAccepts(min, max) == Finite(min) /\ Finite(max) /\ max > min /\ Finite(Sub(max, min))

UniformRange(min, max) == Sub(max, min)

Midpoint(min, max) == Add(min, Half(UniformRange(min, max)))

\* Density::at: closed at both ends.
Density(min, max, x, off_support, on_support) ==
  IF x < min \/ x > max THEN off_support ELSE on_support

UniformPdf(min, max, x) == Density(min, max, x, 0, Div(One, UniformRange(min, max)))
UniformLnPdf(min, max, x) == Density(min, max, x, - Infinity, Neg(Ln(UniformRange(min, max))))

\* Regions::at: saturated from max up.
Regions(min, max, x, below_min, at_or_above_max, interior) ==
  CASE x < min -> below_min
    [] x >= max -> at_or_above_max
    [] OTHER -> interior

Below(min, max, x) == Div(Sub(x, min), UniformRange(min, max))
Above(min, max, x) == Div(Sub(max, x), UniformRange(min, max))

UniformCdf(min, max, x) == Regions(min, max, x, 0, One, Below(min, max, x))
UniformSf(min, max, x) == Regions(min, max, x, One, 0, Above(min, max, x))

UniformLnCdf(min, max, x) ==
  Regions(min, max, x, - Infinity, 0,
          IF x > Midpoint(min, max) THEN Ln1p(Neg(Above(min, max, x))) ELSE Ln(Below(min, max, x)))

UniformLnSf(min, max, x) ==
  Regions(min, max, x, 0, - Infinity,
          IF x > Midpoint(min, max) THEN Ln(Above(min, max, x)) ELSE Ln1p(Neg(Below(min, max, x))))

\* Mutant: every quantile is measured from the bound of quantile 0.
FromOneBound(at_zero, at_one, step, q) == Add(at_zero, Mul(q, step))

\* derive_inverse: interpolated from the bound the answer is nearest.
FromNearestBound(at_zero, at_one, step, q) ==
  IF q <= NearestTo(1, 2, 0)
  THEN Add(at_zero, Mul(q, step))
  ELSE Sub(at_one, Mul(Sub(One, q), step))

UniformPpf(min, max, q) == FromNearestBound(min, max, UniformRange(min, max), q)
UniformIsf(min, max, q) == FromNearestBound(max, min, Neg(UniformRange(min, max)), q)

\* Mutant: the product may round onto max.
DrawRounded(min, max, u) == Add(min, Mul(UniformRange(min, max), u))

\* draw of a uniform u in [0, 1), nudged below max; next_down is the neighbouring bit pattern.
UniformDraw(min, max, u) ==
  LET x == Add(min, Mul(UniformRange(min, max), u)) IN IF x < max THEN x ELSE max - 1
=============================================================================
