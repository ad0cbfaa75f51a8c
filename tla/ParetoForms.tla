---------------------------- MODULE ParetoForms ----------------------------
(***************************************************************************)
(* The closed forms of Pareto(scale, shape): Exponential(shape)'s at       *)
(* ln(x / scale).                                                          *)
(***************************************************************************)
EXTENDS ExponentialForms

\* ln_1p of the excess over scale, and the difference of logs once the excess has overflowed.
ParetoLogRatio(scale, x) ==
  LET excess == Div(Sub(x, scale), scale)
  IN  IF Finite(excess) THEN Ln1p(excess) ELSE Sub(Ln(x), Ln(scale))

ParetoPdf(scale, shape, x) ==
  LET half == Exp(Half(Mul(Neg(shape), ParetoLogRatio(scale, x))))
  IN  Sides(x, scale, 0, Mul(Div(Mul(shape, half), x), half))

ParetoLnPdf(scale, shape, x) ==
  Sides(x, scale, - Infinity, Sub(ExponentialLnPdf(shape, ParetoLogRatio(scale, x)), Ln(x)))

ParetoCdf(scale, shape, x) == Sides(x, scale, 0, ExponentialCdf(shape, ParetoLogRatio(scale, x)))
ParetoLnCdf(scale, shape, x) == Sides(x, scale, - Infinity, ExponentialLnCdf(shape, ParetoLogRatio(scale, x)))
ParetoSf(scale, shape, x) == Sides(x, scale, One, ExponentialSf(shape, ParetoLogRatio(scale, x)))
ParetoLnSf(scale, shape, x) == Sides(x, scale, 0, ExponentialLnSf(shape, ParetoLogRatio(scale, x)))

ParetoPpf(scale, shape, q) == ScaleExp(scale, ExponentialPpf(shape, q))
ParetoIsf(scale, shape, q) == ScaleExp(scale, ExponentialIsf(shape, q))
=============================================================================
