---------------------------- MODULE ClosedForms ----------------------------
(***************************************************************************)
(* Six distributions whose methods are closed forms in float arithmetic.   *)
(* A distribution is built from parameters, checked, asked for one method  *)
(* at one point, and its answer handed to the method that inverts it.      *)
(***************************************************************************)
EXTENDS UniformForms, BernoulliForms, GeometricForms, ParetoForms, WeibullForms

CONSTANTS Parameters,  \* the floats parameters are drawn from
          Points,      \* evaluation points of the density and the tails
          Quantiles,   \* quantiles the inverses are asked for, outside [0, 1] too
          TailSlack,   \* how far a tail may move back from one float to the next
          LogUlps,     \* how far neighbouring logs of a tail may cross, in floats
          TailUlps,    \* how far a tail may be from the quantile its inverse was asked for
          InverseUlps, \* with the inverse's answer moved by as many floats as this
          NULL

ASSUME InputsAssumption ==
  /\ NULL \notin Int \cup {NaN}
  /\ TailSlack \in Codes /\ LogUlps \in Nat /\ TailUlps \in Nat /\ InverseUlps \in Nat
  /\ UNION {Parameters, Points, Quantiles} \subseteq - Infinity .. Infinity

VARIABLES dist, first, second,  \* the distribution and its parameters, the second 1 where there is one
          phase,
          method,      \* the method called, with
          point,       \* its point or quantile
          answer,      \* and what it answered
          back         \* what the inverse of that method answers to it

vars == <<dist, first, second, phase, method, point, answer, back>>

Dists == {"uniform", "bernoulli", "geometric", "exponential", "pareto", "weibull"}
OneParameter == {"bernoulli", "geometric", "exponential"}
Discrete == {"bernoulli", "geometric"}

Tails == {"cdf", "sf", "ln_cdf", "ln_sf"}
Inverses == {"ppf", "isf"}
Rising == {"cdf", "ln_cdf", "ppf"}

\* check_params and the constant-parameter check of each distribution.
Accepts(d, x, y) ==
  CASE d = "uniform" -> UniformAccepts(x, y)
    [] d = "bernoulli" -> Probability(x)
    [] d = "geometric" -> PositiveProbability(x)
    [] d = "exponential" -> Positive(x)
    [] OTHER -> Positive(x) /\ Positive(y)

\* Each plugin entry point and its scalar twin: which derive answers which method.
UniformAnswer(m, x) ==
  CASE m = "pdf" -> UniformPdf(first, second, x)  [] m = "ln_pdf" -> UniformLnPdf(first, second, x)
    [] m = "cdf" -> UniformCdf(first, second, x)  [] m = "ln_cdf" -> UniformLnCdf(first, second, x)
    [] m = "sf" -> UniformSf(first, second, x)    [] m = "ln_sf" -> UniformLnSf(first, second, x)
    [] m = "ppf" -> UniformPpf(first, second, x)  [] m = "isf" -> UniformIsf(first, second, x)

BernoulliAnswer(m, x) ==
  CASE m = "pdf" -> BernoulliPmf(first, x)  [] m = "ln_pdf" -> BernoulliLnPmf(first, x)
    [] m = "cdf" -> BernoulliCdf(first, x)  [] m = "ln_cdf" -> BernoulliLnCdf(first, x)
    [] m = "sf" -> BernoulliSf(first, x)    [] m = "ln_sf" -> BernoulliLnSf(first, x)
    [] m = "ppf" -> BernoulliPpf(first, x)  [] m = "isf" -> BernoulliIsf(first, x)

GeometricAnswer(m, x) ==
  CASE m = "pdf" -> GeometricPmf(first, x)  [] m = "ln_pdf" -> GeometricLnPmf(first, x)
    [] m = "cdf" -> GeometricCdf(first, x)  [] m = "ln_cdf" -> GeometricLnCdf(first, x)
    [] m = "sf" -> GeometricSf(first, x)    [] m = "ln_sf" -> GeometricLnSf(first, x)
    [] m = "ppf" -> GeometricPpf(first, x)  [] m = "isf" -> GeometricIsf(first, x)

ExponentialAnswer(m, x) ==
  CASE m = "pdf" -> Sides(x, 0, 0, ExponentialPdf(first, x))
    [] m = "ln_pdf" -> Sides(x, 0, - Infinity, ExponentialLnPdf(first, x))
    [] m = "cdf" -> Sides(x, 0, 0, ExponentialCdf(first, x))
    [] m = "ln_cdf" -> Sides(x, 0, - Infinity, ExponentialLnCdf(first, x))
    [] m = "sf" -> Sides(x, 0, One, ExponentialSf(first, x))
    [] m = "ln_sf" -> Sides(x, 0, 0, ExponentialLnSf(first, x))
    [] m = "ppf" -> ExponentialPpf(first, x)  [] m = "isf" -> ExponentialIsf(first, x)

ParetoAnswer(m, x) ==
  CASE m = "pdf" -> ParetoPdf(first, second, x)  [] m = "ln_pdf" -> ParetoLnPdf(first, second, x)
    [] m = "cdf" -> ParetoCdf(first, second, x)  [] m = "ln_cdf" -> ParetoLnCdf(first, second, x)
    [] m = "sf" -> ParetoSf(first, second, x)    [] m = "ln_sf" -> ParetoLnSf(first, second, x)
    [] m = "ppf" -> ParetoPpf(first, second, x)  [] m = "isf" -> ParetoIsf(first, second, x)

WeibullAnswer(m, x) ==
  CASE m = "pdf" -> WeibullPdf(first, second, x)  [] m = "ln_pdf" -> WeibullLnPdf(first, second, x)
    [] m = "cdf" -> WeibullCdf(first, second, x)  [] m = "ln_cdf" -> WeibullLnCdf(first, second, x)
    [] m = "sf" -> WeibullSf(first, second, x)    [] m = "ln_sf" -> WeibullLnSf(first, second, x)
    [] m = "ppf" -> WeibullPpf(first, second, x)  [] m = "isf" -> WeibullIsf(first, second, x)

\* A method at a point: on_unit_interval answers null for a quantile outside [0, 1].
Answer(m, x) ==
  IF m \in Inverses /\ ~ InUnit(x) THEN NULL
  ELSE
  CASE dist = "uniform" -> UniformAnswer(m, x)
    [] dist = "bernoulli" -> BernoulliAnswer(m, x)
    [] dist = "geometric" -> GeometricAnswer(m, x)
    [] dist = "exponential" -> ExponentialAnswer(m, x)
    [] dist = "pareto" -> ParetoAnswer(m, x)
    [] dist = "weibull" -> WeibullAnswer(m, x)

Opposite == [cdf |-> "ppf", sf |-> "isf", ppf |-> "cdf", isf |-> "sf"]

Init ==
  /\ dist \in Dists /\ first \in Parameters
  /\ second \in IF dist \in OneParameter THEN {One} ELSE Parameters
  /\ phase = "new" /\ method = "none" /\ point = NULL /\ answer = NULL /\ back = NULL

Validate ==
  /\ phase = "new"
  /\ phase' = IF Accepts(dist, first, second) THEN "ready" ELSE "raised"
  /\ UNCHANGED <<dist, first, second, method, point, answer, back>>

Call(m, x) ==
  /\ phase = "ready"
  /\ phase' = "answered" /\ method' = m /\ point' = x /\ answer' = Answer(m, x)
  /\ UNCHANGED <<dist, first, second, back>>

\* A tail's answer handed to the inverse of its own method, an inverse's back to the tail.
CallBack ==
  /\ phase = "answered" /\ method \in DOMAIN Opposite /\ answer \notin {NULL, NaN}
  /\ phase' = "returned" /\ back' = Answer(Opposite[method], answer)
  /\ UNCHANGED <<dist, first, second, method, point, answer>>

\* The sampler's draw of one uniform variate: in [0, 1) for Uniform, in (0, 1] for Geometric.
DrawOne(u) ==
  /\ phase = "ready" /\ dist \in {"uniform", "geometric"} /\ InUnit(u)
  /\ IF dist = "uniform" THEN u < One ELSE u > 0
  /\ phase' = "drawn" /\ point' = u
  /\ answer' = IF dist = "uniform" THEN UniformDraw(first, second, u) ELSE GeometricDraw(first, u)
  /\ UNCHANGED <<dist, first, second, method, back>>

\* Uniform's mean and median, over the validated range.
Mean ==
  /\ phase = "ready" /\ dist = "uniform"
  /\ phase' = "answered" /\ method' = "mean" /\ answer' = Midpoint(first, second)
  /\ UNCHANGED <<dist, first, second, point, back>>

Finished ==
  /\ phase \in {"raised", "answered", "returned", "drawn"}
  /\ UNCHANGED vars

Next ==
  \/ Validate \/ CallBack \/ Mean \/ Finished
  \/ \E m \in {"pdf", "ln_pdf"} \cup Tails \cup Inverses :
       \E x \in IF m \in Inverses THEN Quantiles ELSE Points : Call(m, x)
  \/ \E u \in Quantiles : DrawOne(u)

Spec == Init /\ [][Next]_vars

-----------------------------------------------------------------------------
Answered(methods) == phase \in {"answered", "returned"} /\ method \in methods

(***************************************************************************)
(* Valid parameters and a point that is a number, infinite or not, answer  *)
(* a number or null: no branch forms 0 * inf, inf - inf or 0 / 0.          *)
(***************************************************************************)
AnswersAreNumbers == {answer, back} \subseteq Codes \cup {NULL}

\* The answers to other calls on the same distribution: pairs of a method and a point.
Answers(calls) == [c \in calls |-> Answer(c[1], c[2])]

\* The answer to the next float is no lower, or no higher, up to a slack.
Following == IF point < Infinity THEN point + 1 ELSE point
Lower(next) == IF method \in Rising THEN answer ELSE next
Higher(next) == IF method \in Rising THEN next ELSE answer
Climbs(next, slack) == Lower(next) <= Higher(next) + slack

TailStart == [cdf |-> 0, sf |-> One, ln_cdf |-> - Infinity, ln_sf |-> 0]
TailEnd == [cdf |-> One, sf |-> 0, ln_cdf |-> 0, ln_sf |-> - Infinity]

(***************************************************************************)
(* cdf rises from 0 to 1 and sf falls from 1 to 0 over every pair of       *)
(* neighbouring floats, across the crossovers between their forms, to      *)
(* TailSlack (_MONOTONE_SLACK of test_cdf_bounded_and_monotone), as expm1  *)
(* rounds three times; their logs do so to LogUlps floats.                 *)
(***************************************************************************)
TailsClimb ==
  LET Ordered(of) ==
        /\ of[method, - Infinity] = TailStart[method] /\ of[method, Infinity] = TailEnd[method]
        /\ IF method \in {"cdf", "sf"} THEN InUnit(answer) ELSE answer <= 0
        /\ IF method \in {"cdf", "sf"}
             THEN Sub(Lower(of[method, Following]), Higher(of[method, Following])) <= TailSlack
             ELSE Climbs(of[method, Following], LogUlps)
  IN  Answered(Tails) => Ordered(Answers({method} \X {- Infinity, Following, Infinity}))

\* ln_abs_expm1 halves the least subnormal to 0: Geometric's ln_cdf(1) is -inf where its cdf is not.
HalvesToZero == dist = "geometric" /\ first = 1

(***************************************************************************)
(* A log keeps what its tail has rounded away: it is below 0 wherever the  *)
(* other tail is above 0, and finite wherever its own is.                  *)
(***************************************************************************)
LogsKeepTheTail ==
  LET Kept(tail, own, other) ==
        /\ tail[other, point] > 0 => answer < 0
        /\ tail[own, point] > 0 => answer > - Infinity
  IN  Answered({"ln_cdf", "ln_sf"}) /\ ~ (method = "ln_cdf" /\ HalvesToZero) =>
        Kept(Answers({"cdf", "sf"} \X {point}),
             IF method = "ln_cdf" THEN "cdf" ELSE "sf", IF method = "ln_cdf" THEN "sf" ELSE "cdf")

\* The floats a density's log crosses where the density leaves the format, and the normal floats.
LnOfLeast == Add(Ln(1), Two)
LnOfLeastNormal == Add(Ln(MinNormal), Two)
LnOfGreatest == Sub(Ln(Infinity - 1), Two)

\* What a Pareto or Weibull density multiplies by its half exponentials.
LnLeadingRatio == IF dist = "pareto" THEN Sub(Ln(second), Ln(point)) ELSE Sub(Ln(first), Ln(second))

(***************************************************************************)
(* A density is 0 or infinite only where its log has left the format: no   *)
(* product of an exponential and a parameter leaves it first.  Pareto and  *)
(* a Weibull of shape from 1 up apply their second half exponential last:  *)
(* they are 0 below the normal floats, and infinite where shape over the   *)
(* point or the scale is, whatever their log.                              *)
(***************************************************************************)
PdfKeepsItsRange ==
  LET InRange(log) ==
        /\ answer = 0 => log <= IF dist \in {"pareto", "weibull"} THEN LnOfLeastNormal ELSE LnOfLeast
        /\ answer = Infinity =>
             (IF dist \in {"pareto", "weibull"} THEN LnLeadingRatio ELSE log) >= LnOfGreatest
  IN  Answered({"pdf"}) /\ (dist = "weibull" => first >= One) => InRange(Answer("ln_pdf", point))

Support(x) ==
  CASE dist = "uniform" -> first <= x /\ x <= second
    [] dist = "bernoulli" -> x \in {0, One}
    [] dist = "geometric" -> x >= One /\ Floor(x) = x
    [] dist = "pareto" -> x >= first
    [] OTHER -> x >= 0

(***************************************************************************)
(* An inverse is null exactly outside [0, 1], and inside it a point of the *)
(* support that never moves the wrong way from one quantile to the next,   *)
(* across Uniform's change of anchor too; nothing survives the last one.   *)
(***************************************************************************)
InversesClimbTheSupport ==
  LET InSupport(of) ==
        /\ Support(answer)
        /\ point < One => Climbs(of[method, point + 1], 0)
        /\ point = (IF method = "ppf" THEN One ELSE 0) => of["sf", answer] = 0
  IN  Answered(Inverses) =>
        IF InUnit(point) THEN answer # NULL /\ InSupport(Answers({<<method, point + 1>>, <<"sf", answer>>}))
        ELSE answer = NULL

Moved(x, k) == IF x + k > Infinity THEN Infinity ELSE IF x + k < - Infinity THEN - Infinity ELSE x + k

(***************************************************************************)
(* A continuous inverse answers where its tail passes the quantile, to a   *)
(* few floats (test_cdf_ppf_round_trip), and a discrete one undoes its     *)
(* tail to one support point, where the tail is no more than one half      *)
(* (test_geometric_ppf_at_an_exact_step_boundary_can_miss_by_one).         *)
(***************************************************************************)
InversesUndoTheTails ==
  LET before == Moved(answer, IF method = "ppf" THEN - InverseUlps ELSE InverseUlps)
      after == Moved(answer, IF method = "ppf" THEN InverseUlps ELSE - InverseUlps)
      Passed(tail) ==
        /\ tail[Opposite[method], before] <= point + TailUlps
        /\ point <= tail[Opposite[method], after] + TailUlps
  IN  /\ phase = "returned" /\ method \in Inverses /\ dist \notin Discrete /\ 0 < point /\ point < One =>
           Passed(Answers({Opposite[method]} \X {before, after}))
      /\ phase = "returned" /\ method \in {"cdf", "sf"} /\ dist \in Discrete
           /\ 0 < answer /\ answer <= Half(One) /\ Support(point) /\ point < FromNat(2 * Leading) =>
           Sub(back, point) <= One /\ Sub(point, back) <= One

\* What an inverse owes, at every quantile and on the way back from a probability.
InversesInvert == InversesClimbTheSupport /\ InversesUndoTheTails

(***************************************************************************)
(* A draw of Uniform is in [min, max) and one of Geometric a count from 1, *)
(* whatever the generator hands them; Uniform's mean is inside its bounds. *)
(***************************************************************************)
DrawsStayInside ==
  /\ phase = "drawn" /\ dist = "uniform" => first <= answer /\ answer < second
  /\ phase = "drawn" /\ dist = "geometric" => One <= answer /\ answer <= MaxCount
  /\ Answered({"mean"}) => first <= answer /\ answer <= second
=============================================================================
