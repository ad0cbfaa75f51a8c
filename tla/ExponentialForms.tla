-------------------------- MODULE ExponentialForms --------------------------
(***************************************************************************)
(* The closed forms of Exponential(rate), which Pareto and Weibull read at *)
(* a transformed point.  Every operator here is the arm on the support     *)
(* [0, inf); below it stand the constants of Sides.                        *)
(***************************************************************************)
EXTENDS FormTools

CDF_SINH_MAX == One

\* Mutant: the exponential is formed whole.
PdfWhole(rate, x) == Mul(rate, Exp(Mul(Neg(rate), x)))

ExponentialPdf(rate, x) ==
  LET half_exp == Exp(Half(Mul(Neg(rate), x))) IN Mul(Mul(rate, half_exp), half_exp)

ExponentialLnPdf(rate, x) == Sub(Ln(rate), Mul(rate, x))

ExponentialCdf(rate, x) ==
  LET t == Mul(rate, x)
  IN  IF LessThan(t, CDF_SINH_MAX) THEN Neg(Expm1(Neg(t))) ELSE Sub(One, Exp(Neg(t)))

\* Mutant: the log of the rounded cdf, on either side of its crossover.
LnOfCdf(rate, x) == Ln(ExponentialCdf(rate, x))

ExponentialLnCdf(rate, x) ==
  LET t == Mul(rate, x)
  IN  IF LessThan(t, CDF_SINH_MAX) THEN Ln(Neg(Expm1(Neg(t)))) ELSE Ln1p(Neg(Exp(Neg(t))))

ExponentialSf(rate, x) == Exp(Mul(Neg(rate), x))

ExponentialLnSf(rate, x) == Mul(Neg(rate), x)

\* Mutant: the complement of the quantile is formed first.
PpfOfComplement(rate, q) == Div(Neg(Ln(Sub(One, q))), rate)

ExponentialPpf(rate, q) == Div(Neg(Ln1p(Neg(q))), rate)

ExponentialIsf(rate, q) == Div(Neg(Ln(q)), rate)
=============================================================================
