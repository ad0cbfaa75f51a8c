----------------------------- MODULE ValueArgs -----------------------------
(***************************************************************************)
(* The arguments of one value-keyed plugin call (pdf, cdf, ppf, ...) and   *)
(* what docs/reference/parameters-and-contracts.md promises of its rows.   *)
(*                                                                         *)
(*   driver "value"  value_keyed_binary, _ternary                          *)
(*          "point"  DiscreteUniform's point_keyed, exact on integers      *)
(*          "param"  param_keyed: validators and entropy, keyed by nothing *)
(*                                                                         *)
(* Evaluation points are abstract, and an answer is the pair of what       *)
(* determined it: two answers are equal only if the bodies must agree.     *)
(***************************************************************************)
EXTENDS PluginArgs

CONSTANTS
  Points,     \* the points a present cell of the value column can hold
  NaN,        \* the not-a-number point, and its answer
  NoPoint,    \* stands for the point of a "param" call
  Undefined   \* the (parameters, point) pairs the body has no value for: a
              \* quantile outside [0, 1]

Answers == Tuples \X Points

ASSUME PointsAssumption ==
  /\ NaN \in Points /\ NoPoint \in Points \ {NaN}
  /\ NULL \notin Points \cup Answers
  /\ NaN \notin Answers
  /\ Undefined \subseteq [Params -> Values] \X (Points \ {NoPoint})

CallType ==
  [driver     : {"value", "point", "param"},
   route      : {"scalar", "columns"},
   cols       : [Params -> Seq(Values \cup {NULL})],
   numeric    : [Params -> BOOLEAN],
   key        : Seq(Points \cup {NULL}),
   keyNumeric : BOOLEAN]

WellFormed(c) ==
  /\ c.route = "scalar" =>
       \A p \in Params : Len(c.cols[p]) = 1 /\ c.cols[p][1] \in Values /\ c.numeric[p]
  /\ c.driver = "param" => c.route = "columns" /\ c.keyNumeric /\ c.key = <<NoPoint>>

-----------------------------------------------------------------------------
\* params_are_constant: every parameter after the evaluation point is length 1.
ConstantParams(c) == \A p \in Params : Len(c.cols[p]) = 1

\* The answer the body gives, if it has one.
Body(cells, point) == IF <<cells, point>> \in Undefined THEN NULL ELSE <<cells, point>>

(***************************************************************************)
(* What a row is owed, in the documented precedence: a missing parameter   *)
(* or point outranks NaN, and NaN outranks the body.                       *)
(***************************************************************************)
OwedRow(cells, point) ==
  CASE point = NULL \/ ~ Present(cells) -> NULL
    [] point = NaN /\ Present(cells) -> NaN
    [] point \notin {NULL, NaN} /\ Present(cells) -> Body(cells, point)

Owed(c) == [r \in 1 .. RowCount(c) |-> OwedRow(RowParams(c, r), RowKey(c, r))]

(***************************************************************************)
(* The reasons a call has to raise.  A constant parameterisation is        *)
(* checked before any row is read, and so on a frame of no rows too.       *)
(***************************************************************************)
ReadRows(c) == IF ConstantParams(c) THEN {1} ELSE 1 .. RowCount(c)

ParamsInvalid(c) ==
  \/ \E p \in Params : ~ c.numeric[p]
  \/ \E r \in ReadRows(c) : ~ DomainHolds(RowParams(c, r))

Invalid(c) == ~ Aligned(c) \/ ~ c.keyNumeric \/ ParamsInvalid(c)

=============================================================================
