---------------------------- MODULE WeibullForms ----------------------------
(***************************************************************************)
(* The closed forms of Weibull(shape, scale): Exponential(1)'s at          *)
(* (x / scale)^shape.                                                      *)
(***************************************************************************)
EXTENDS ExponentialForms

\* ln_1p near scale, the ratio's own log while it is normal, the difference of logs past that.
WeibullLogRatio(scale, x) ==
  LET ratio == Div(x, scale)
  IN  IF NearestTo(1, 2, 0) <= ratio /\ ratio <= Two THEN Ln1p(Div(Sub(x, scale), scale))
      ELSE IF IsNormal(ratio) THEN Ln(ratio)
      ELSE Sub(Ln(x), Ln(scale))

LnPower(shape, scale, x) == Mul(shape, WeibullLogRatio(scale, x))
Power(shape, scale, x) == Exp(LnPower(shape, scale, x))

PdfAtOrigin(shape, scale) ==
  IF shape = One THEN Div(One, scale) ELSE IF shape < One THEN Infinity ELSE 0

LnPdfAtOrigin(shape, scale) ==
  IF shape = One THEN Neg(Ln(scale)) ELSE Ln(PdfAtOrigin(shape, scale))

WeibullOnSupport(shape, scale, x) ==
  LET t == Power(shape, scale, x)
      half == Exp(Half(Sub(Mul(Sub(shape, One), WeibullLogRatio(scale, x)), t)))
  IN  Mul(Div(Mul(shape, half), scale), half)

WeibullPdf(shape, scale, x) ==
  Sides(x, 0, 0,
        IF x = 0 THEN PdfAtOrigin(shape, scale)
        ELSE IF Power(shape, scale, x) = Infinity THEN 0
        ELSE WeibullOnSupport(shape, scale, x))

WeibullLnPdf(shape, scale, x) ==
  LET t == Power(shape, scale, x)
      ln_shape_over_scale == Sub(Ln(shape), Ln(scale))
  IN  Sides(x, 0, - Infinity,
            IF x = 0 THEN LnPdfAtOrigin(shape, scale)
            ELSE IF t = Infinity THEN - Infinity
            ELSE Sub(Add(ln_shape_over_scale, Mul(Sub(shape, One), WeibullLogRatio(scale, x))), t))

WeibullCdf(shape, scale, x) == Sides(x, 0, 0, ExponentialCdf(One, Power(shape, scale, x)))

\* ln(2^-Precision): the power is below a float's resolution beside 1.
LN_CDF_IS_LN_POWER_BELOW == Ln(NearestTo(1, 1, - Precision))

WeibullLnCdf(shape, scale, x) ==
  LET ln_t == LnPower(shape, scale, x)
  IN  Sides(x, 0, - Infinity,
            IF LessThan(ln_t, LN_CDF_IS_LN_POWER_BELOW) THEN ln_t ELSE ExponentialLnCdf(One, Exp(ln_t)))

WeibullSf(shape, scale, x) == Sides(x, 0, One, ExponentialSf(One, Power(shape, scale, x)))
WeibullLnSf(shape, scale, x) == Sides(x, 0, 0, ExponentialLnSf(One, Power(shape, scale, x)))

WeibullPpf(shape, scale, q) == ScaleExp(scale, Div(Ln(ExponentialPpf(One, q)), shape))
WeibullIsf(shape, scale, q) == ScaleExp(scale, Div(Ln(ExponentialIsf(One, q)), shape))
=============================================================================
