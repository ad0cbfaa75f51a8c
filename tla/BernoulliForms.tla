--------------------------- MODULE BernoulliForms ---------------------------
(***************************************************************************)
(* The closed forms of Bernoulli(p): each method derives its branches from *)
(* p and picks one by where the point sits.                                *)
(***************************************************************************)
EXTENDS FormTools

Mass(x, at_zero, at_one, off_support) ==
  CASE x = 0 -> at_zero [] x = One -> at_one [] OTHER -> off_support

BernoulliPmf(p, x) == Mass(x, Sub(One, p), p, 0)
BernoulliLnPmf(p, x) == Mass(x, Ln1p(Neg(p)), Ln(p), - Infinity)

Steps(x, below_zero, below_one, at_least_one) ==
  CASE x < 0 -> below_zero [] 0 <= x /\ x < One -> below_one [] OTHER -> at_least_one

BernoulliCdf(p, x) == Steps(x, 0, Sub(One, p), One)
BernoulliLnCdf(p, x) == Steps(x, - Infinity, Ln1p(Neg(p)), 0)
BernoulliLnSf(p, x) == Steps(x, 0, Ln(p), - Infinity)

BernoulliSf(p, x) == Steps(x, One, p, 0)

AsFloat(holds) == IF holds THEN One ELSE 0

\* PpfCutoffs: the step 1 - p, and an answer of its own at quantile 1.
BernoulliPpf(p, q) == IF q = One THEN AsFloat(p > 0) ELSE AsFloat(q > Sub(One, p))

BernoulliIsf(p, q) == AsFloat(p > q)
=============================================================================
