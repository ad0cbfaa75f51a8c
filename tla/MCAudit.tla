------------------------------ MODULE MCAudit -------------------------------
(***************************************************************************)
(* A registry of six methods over four distributions: a point method with *)
(* a wide grid of answers and references, the three kinds of inverse, one  *)
(* of which hangs, and a moment with a parameter set out of reach.         *)
(***************************************************************************)
EXTENDS Audit

Signed(values) == values \cup {-x : x \in values}

WideAnswers ==
  {Null, NotANumber, PosInf, NegInf}
  \cup Signed({4 * x : x \in (0 .. 6) \cup {15, 16, 17, 79, 80}})

WideTruths == {NotANumber, PosInf, NegInf} \cup Signed((0 .. 20) \cup (62 .. 66) \cup (317 .. 323))

Method(dist, name, sets, points, oracle, answers, truths) ==
  [dist |-> dist, method |-> name, sets |-> sets, points |-> points, oracle |-> oracle,
   answers |-> answers, truths |-> truths, ends |-> {}, top |-> 0, hangs |-> FALSE]

MCRegistry ==
  <<Method("Normal", "log_cdf", <<TRUE>>, 1, "closed", WideAnswers, WideTruths),
    [Method("Poisson", "ppf", <<TRUE>>, 2, "from", {Null, PosInf, -One, 0, 12 * One}, {0, 3, 4, 9})
       EXCEPT !.ends = {0, PosInf}, !.top = 2],
    [Method("Binomial", "isf", <<TRUE>>, 1, "within", {0, 2 * One, PosInf}, {0, 2, 5, 6, 9})
       EXCEPT !.ends = {0, 6 * One}, !.top = 6],
    [Method("Beta", "ppf", <<TRUE>>, 1, "refined", {One}, {One}) EXCEPT !.hangs = TRUE],
    [Method("Beta", "isf", <<TRUE>>, 1, "refined", {One, NotANumber}, {One, Unavailable}) EXCEPT !.ends = {0, One}],
    Method("Beta", "mean", <<TRUE, FALSE, TRUE>>, 0, "closed", {One, NotANumber}, {One, Unavailable, Broken})>>

\* The controls' oracles are far in a lower tail.
MCControlTruth == -One
MCControlAnswers == {-One, -Spacing}

MCKnownHangs == {<<"Beta", "ppf">>}

Line(controls, dists, skip, exported) ==
  [controls |-> controls, wanted |-> dists, skip |-> skip, exported |-> exported]

All == {"Normal", "Poisson", "Binomial", "Beta"}

MCCommandLines ==
  {Line(TRUE, {dist}, NoSkip, All) : dist \in All \cup {"None"}}
  \cup {Line(FALSE, {"Beta"}, skip, All) :
          skip \in {{}, MCKnownHangs \cup {<<"Beta", "isf">>, <<"Beta", "mean">>}, {<<"Beta", "typo">>}}}
  \cup {Line(FALSE, {}, {<<MCRegistry[i].dist, MCRegistry[i].method>> : i \in {1, 2, 4}}, All)}
  \cup {Line(FALSE, {}, NoSkip, All \cup {"New"})}

=============================================================================
