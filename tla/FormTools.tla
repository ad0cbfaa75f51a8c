----------------------------- MODULE FormTools -----------------------------
(***************************************************************************)
(* The helpers the closed forms share (src/src/distributions/mod.rs).      *)
(***************************************************************************)
EXTENDS BitFloat

\* Mutant: the identity reaches up to where exp's slope has changed.
EXPM1_IS_IDENTITY_BELOW_ONE == One

\* Below 2^-Precision, exp(t) - 1 is t itself.
EXPM1_IS_IDENTITY_BELOW == NearestTo(1, 1, - Precision)

\* 2 exp(t / 2) sinh(t / 2), every operation of it rounded.
Expm1(t) ==
  IF t = NaN \/ Abs(t) < EXPM1_IS_IDENTITY_BELOW THEN t ELSE Mul(Mul(Two, Exp(Half(t))), Sinh(Half(t)))

LN_2 == Ln(Two)

\* ln|exp(t) - 1|, term by term.
LnAbsExpm1(t) == Add(Add(LN_2, Half(t)), Ln(Abs(Sinh(Half(t)))))

\* scale_exp: scale * exp(t) by halves of the exponent.
ScaleExp(scale, t) ==
  LET half == Exp(Half(t)) IN Mul(Mul(scale, half), half)

\* Sides::at: a constant below the floor, the parameter's arm from it up.
Sides(x, floor, below_support, on_support) == IF x < floor THEN below_support ELSE on_support

InUnit(q) == 0 <= q /\ q <= One

\* Rule::accepts of the float parameters.
Positive(x) == Finite(x) /\ x > 0
Probability(x) == Finite(x) /\ InUnit(x)
PositiveProbability(x) == Finite(x) /\ 0 < x /\ x <= One
=============================================================================
