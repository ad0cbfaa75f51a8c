--------------------------- MODULE Distributions ----------------------------
(***************************************************************************)
(* The distribution classes (src/polars_stats/distributions/_*.py), one    *)
(* record each.  A class fixes                                             *)
(*   params    the order of _param_exprs, which a plugin reads by position *)
(*   spelled   the scalar each parameter takes: a "float" (coerce_param),  *)
(*             a "count" (coerce_n) or an "int" (coerce_int)               *)
(*   quantity  the parameters its validated quantity is made of            *)
(*   moments   the form of each moment                                     *)
(* A formula is the set of the parameters it reads, its arithmetic left    *)
(* out.  The plugin's side of the same parameters is in PluginDomains.     *)
(***************************************************************************)
EXTENDS Integers

Gated(reads) == [form |-> "gated", reads |-> reads]           \* _moment(formula)
Validated(raw) == [form |-> "validated", reads |-> raw]       \* over _validated_params and raw parameters
Plugin == [form |-> "plugin"]                                 \* _param_plugin
AtHalf == [form |-> "half"]                                   \* _ppf(0.5)
Of(moment) == [form |-> "of", moment |-> moment]              \* arithmetic on another moment
Undefined == [form |-> "undefined"]                           \* _moment(a null literal)

\* _moment(when(p > bound).then(formula).otherwise(inf))
Diverging(p, bound, reads) == [form |-> "diverging", on |-> p, at |-> bound, reads |-> reads]

Moments == {"mean", "variance", "std", "median", "entropy"}

\* What _UnivariateDistribution answers where a class has no form of its own.
Inherited == [std |-> Of("variance"), median |-> AtHalf]

\* A class's own forms, over the inherited ones.
Override(base, own) ==
  [moment \in DOMAIN own \cup DOMAIN base |-> IF moment \in DOMAIN own THEN own[moment] ELSE base[moment]]

Normal ==
  [params   |-> <<"mu", "sigma">>, spelled |-> [mu |-> "float", sigma |-> "float"],
   quantity |-> {"sigma"},
   moments  |-> [mean |-> Gated({"mu"}), variance |-> Gated({"sigma"}), std |-> Gated({"sigma"}),
                 median |-> Gated({"mu"}), entropy |-> Gated({"sigma"})]]

LogNormal ==
  LET both == {"mu", "sigma"} IN
  [params   |-> <<"mu", "sigma">>, spelled |-> [mu |-> "float", sigma |-> "float"],
   quantity |-> {"sigma"},
   moments  |-> [mean |-> Gated(both), variance |-> Gated(both), std |-> Gated(both),
                 median |-> Gated({"mu"}), entropy |-> Gated(both)]]

Exponential ==
  [params   |-> <<"rate">>, spelled |-> [rate |-> "float"],
   quantity |-> {"rate"},
   moments  |-> [moment \in Moments |-> Validated({})]]

MeanDivergesAt == 1
VarianceDivergesAt == 2

Pareto ==
  LET both == {"scale", "shape"}
      Spread == Diverging("shape", VarianceDivergesAt, both) IN
  [params   |-> <<"scale", "shape">>, spelled |-> [scale |-> "float", shape |-> "float"],
   quantity |-> {"shape"},
   moments  |-> Override(Inherited,
                 [mean |-> Diverging("shape", MeanDivergesAt, both), variance |-> Spread,
                  std |-> Spread, entropy |-> Gated(both)])]

Cauchy ==
  [params   |-> <<"loc", "scale">>, spelled |-> [loc |-> "float", scale |-> "float"],
   quantity |-> {"scale"},
   moments  |-> Override(Inherited,
                 [mean |-> Undefined, variance |-> Undefined, median |-> Gated({"loc"}),
                  entropy |-> Gated({"scale"})])]

Weibull ==
  [params   |-> <<"shape", "scale">>, spelled |-> [shape |-> "float", scale |-> "float"],
   quantity |-> {"scale"},
   moments  |-> Override(Inherited,
                 [mean |-> Plugin, variance |-> Plugin, std |-> Plugin,
                  entropy |-> Gated({"shape", "scale"})])]

Gamma ==
  LET both == {"shape", "rate"} IN
  [params   |-> <<"shape", "rate">>, spelled |-> [shape |-> "float", rate |-> "float"],
   quantity |-> {"rate"},
   moments  |-> Override(Inherited,
                 [mean |-> Gated(both), variance |-> Of("std"), std |-> Gated(both),
                  entropy |-> Plugin])]

Uniform ==
  LET Middle == Validated({"min"}) IN
  [params   |-> <<"min", "max">>, spelled |-> [min |-> "float", max |-> "float"],
   quantity |-> {"min", "max"},
   moments  |-> [mean |-> Middle, variance |-> Validated({}), std |-> Validated({}),
                 median |-> Middle, entropy |-> Validated({})]]

Bernoulli ==
  [params   |-> <<"p">>, spelled |-> [p |-> "float"],
   quantity |-> {"p"},
   moments  |-> Override(Inherited,
                 [mean |-> Validated({}), variance |-> Gated({"p"}), entropy |-> Gated({"p"})])]

Beta ==
  LET both == {"a", "b"} IN
  [params   |-> <<"a", "b">>, spelled |-> [a |-> "float", b |-> "float"],
   quantity |-> {"b"},
   moments  |-> Override(Inherited,
                 [mean |-> Gated(both), variance |-> Gated(both), entropy |-> Plugin])]

Binomial ==
  LET both == {"n", "p"} IN
  [params   |-> <<"n", "p">>, spelled |-> [n |-> "count", p |-> "float"],
   quantity |-> {"p"},
   moments  |-> Override(Inherited,
                 [mean |-> Gated(both), variance |-> Gated(both), entropy |-> Plugin])]

Geometric ==
  [params   |-> <<"p">>, spelled |-> [p |-> "float"],
   quantity |-> {"p"},
   moments  |-> Override(Inherited,
                 [mean |-> Validated({}), variance |-> Gated({"p"}), std |-> Gated({"p"}),
                  entropy |-> Gated({"p"})])]

Poisson ==
  [params   |-> <<"rate">>, spelled |-> [rate |-> "float"],
   quantity |-> {"rate"},
   moments  |-> Override(Inherited,
                 [mean |-> Validated({}), variance |-> Validated({}), entropy |-> Plugin])]

\* Its validated quantity is always the plugin's own output, never recomputed.
DiscreteUniform ==
  LET Midpoint == Gated({"min", "max"}) IN
  [params   |-> <<"min", "max">>, spelled |-> [min |-> "int", max |-> "int"],
   quantity |-> {"min", "max"},
   moments  |-> Override(Inherited,
                 [mean |-> Midpoint, variance |-> Validated({}), median |-> Midpoint,
                  entropy |-> Validated({})])]

Classes ==
  [Normal |-> Normal, LogNormal |-> LogNormal, Exponential |-> Exponential, Pareto |-> Pareto,
   Cauchy |-> Cauchy, Weibull |-> Weibull, Gamma |-> Gamma, Uniform |-> Uniform,
   Bernoulli |-> Bernoulli, Beta |-> Beta, Binomial |-> Binomial, Geometric |-> Geometric,
   Poisson |-> Poisson, DiscreteUniform |-> DiscreteUniform]

=============================================================================
