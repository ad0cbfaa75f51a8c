--------------------------- MODULE PluginDomains ----------------------------
(***************************************************************************)
(* Each distribution's parameters as its plugins see them                  *)
(* (src/src/distributions/*.rs): the order they are read in, the values    *)
(* each one's own rule accepts, and the tuples the joint rule refuses.     *)
(* Numbers are small integers; NaN and the infinities are in no rule.      *)
(***************************************************************************)
EXTENDS Integers

CONSTANTS MaxWireInt,  \* the largest 64-bit signed integer: 2^63 - 1 in the program
          MaxWidth     \* the widest range of a Uniform that is finite: f64::MAX

ASSUME WireAssumption == MaxWireInt \in Nat \ {0} /\ MaxWidth \in Nat \ {0}

\* The numbers under study: every signed 64-bit one, and one beyond each end.
Number == -(MaxWireInt + 2) .. MaxWireInt + 1

WireInt == -(MaxWireInt + 1) .. MaxWireInt

Positive == {x \in Number : x > 0}
Probability == {x \in Number : 0 <= x /\ x <= 1}

OneParam(p, values) == [reads |-> <<p>>, own |-> [q \in {p} |-> values], refused |-> {}]

TwoParams(p, values, q, others) ==
  [reads |-> <<p, q>>, own |-> [x \in {p, q} |-> IF x = p THEN values ELSE others], refused |-> {}]

NormalDomain == TwoParams("mu", Number, "sigma", Positive)
LogNormalDomain == TwoParams("mu", Number, "sigma", Positive)
ExponentialDomain == OneParam("rate", Positive)
ParetoDomain == TwoParams("scale", Positive, "shape", Positive)
CauchyDomain == TwoParams("loc", Number, "scale", Positive)
WeibullDomain == TwoParams("shape", Positive, "scale", Positive)
GammaDomain == TwoParams("shape", Positive, "rate", Positive)
BernoulliDomain == OneParam("p", Probability)
BetaDomain == TwoParams("a", Positive, "b", Positive)
BinomialDomain == TwoParams("n", Number \cap Nat, "p", Probability)
GeometricDomain == OneParam("p", Positive \cap Probability)
PoissonDomain == OneParam("rate", Positive)

\* max - min is finite too.
UniformDomain ==
  [TwoParams("min", Number, "max", Number) EXCEPT
     !.refused = {t \in [{"min", "max"} -> Number] : t["max"] <= t["min"] \/ t["max"] - t["min"] > MaxWidth}]

\* The width max - min + 1 is an Int64 too.
DiscreteUniformDomain ==
  [TwoParams("min", WireInt, "max", WireInt) EXCEPT
     !.refused = {t \in [{"min", "max"} -> WireInt] :
                    t["max"] < t["min"] \/ t["max"] - t["min"] + 1 > MaxWireInt}]

Domains ==
  [Normal |-> NormalDomain, LogNormal |-> LogNormalDomain, Exponential |-> ExponentialDomain,
   Pareto |-> ParetoDomain, Cauchy |-> CauchyDomain, Weibull |-> WeibullDomain,
   Gamma |-> GammaDomain, Uniform |-> UniformDomain, Bernoulli |-> BernoulliDomain,
   Beta |-> BetaDomain, Binomial |-> BinomialDomain, Geometric |-> GeometricDomain,
   Poisson |-> PoissonDomain, DiscreteUniform |-> DiscreteUniformDomain]

=============================================================================
