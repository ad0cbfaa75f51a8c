----------------------------- MODULE ValueKeyed -----------------------------
(***************************************************************************)
(* One value-keyed plugin call, step by step (src/src/distributions/mod.rs *)
(* and DiscreteUniform's own drivers).                                     *)
(*                                                                         *)
(*   scalar twin           once ------------------> gate -> rows           *)
(*   constant parameters   constCoerce -> constCheck -> gate -> rows       *)
(*     ... one of them missing            constCheck -> align              *)
(*   columns, "value"      align -> gate -> coerce -> check -> rows        *)
(*   columns, "point"      align -> coerce -> check -> gate -> rows        *)
(*   columns, "param"      align -> coerce -> check -> rows                *)
(*                                                                         *)
(* "gate" is the dtype gate of the evaluation point, "coerce" the          *)
(* parameters' own.  What is constant is only known here: an aggregate has *)
(* length 1, and so has every column of a one-row morsel.                  *)
(***************************************************************************)
EXTENDS ValueArgs, FiniteSetsExt

CONSTANT Calls   \* the calls under study

ASSUME CallsAssumption == Calls \subseteq CallType /\ \A c \in Calls : WellFormed(c)

VARIABLES
  call,    \* the arguments, never written
  phase,
  keys,    \* the evaluation points, broadcast once aligned
  cols,    \* the parameter columns, broadcast once aligned
  state,   \* what the one build is of, NULL while every row builds its own
  rows,    \* the answers so far
  error    \* what the call raised, "none" if it did not

vars == <<call, phase, keys, cols, state, rows, error>>

Phases == {"once", "constCoerce", "constCheck", "align", "gate", "coerce", "check",
           "rows", "done", "raised"}

RowCells(r) == [p \in Params |-> cols[p][r]]

\* The kernels walk their shortest input.
Height ==
  IF state # NULL THEN Len(keys) ELSE Min({Len(keys)} \cup {Len(cols[p]) : p \in Params})

-----------------------------------------------------------------------------
\* Mutant: the drivers have no constant branch.
ColumnsOnly(c) == IF c.route = "scalar" THEN "once" ELSE "align"

\* Where a call starts: the twin, the constant branch, or the columns.
Entry(c) ==
  IF c.route = "scalar" THEN "once"
  ELSE IF c.driver # "param" /\ ConstantParams(c) THEN "constCoerce"
  ELSE "align"

Init ==
  /\ call \in Calls
  /\ phase = Entry(call)
  /\ keys = call.key
  /\ cols = call.cols
  /\ state = NULL
  /\ rows = <<>>
  /\ error = "none"

Proceed(to) == phase' = to /\ UNCHANGED error

RaiseError(kind) == phase' = "raised" /\ error' = kind

-----------------------------------------------------------------------------
\* The twin's params.build(): checked and built once.
BuildOnce ==
  /\ phase = "once"
  /\ IF DomainHolds(RowCells(1))
     THEN state' = RowCells(1) /\ Proceed("gate")
     ELSE UNCHANGED state /\ RaiseError("domain")
  /\ UNCHANGED <<call, keys, cols, rows>>

CoerceConstant ==
  /\ phase = "constCoerce"
  /\ IF \A p \in Params : call.numeric[p] THEN Proceed("constCheck") ELSE RaiseError("param")
  /\ UNCHANGED <<call, keys, cols, state, rows>>

\* A constant parameterisation with a missing part goes on as columns do.
CheckConstant ==
  /\ phase = "constCheck"
  /\ IF ~ DomainHolds(RowCells(1))
     THEN UNCHANGED state /\ RaiseError("domain")
     ELSE IF Present(RowCells(1))
     THEN state' = RowCells(1) /\ Proceed("gate")
     ELSE UNCHANGED state /\ Proceed("align")
  /\ UNCHANGED <<call, keys, cols, rows>>

-----------------------------------------------------------------------------
\* align_inputs, over the point and the parameters.
Align ==
  /\ phase = "align"
  /\ IF Aligned(call)
     THEN /\ Proceed(IF call.driver = "value" THEN "gate" ELSE "coerce")
          /\ keys' = Broadcast(keys, RowCount(call))
          /\ cols' = [p \in Params |-> Broadcast(cols[p], RowCount(call))]
     ELSE /\ RaiseError("shape")
          /\ UNCHANGED <<keys, cols>>
  /\ UNCHANGED <<call, state, rows>>

(***************************************************************************)
(* coerce_f64(value), or coerce_points.  Only the value drivers' column    *)
(* branch gates the point before the parameters.                           *)
(***************************************************************************)
GateKey ==
  /\ phase = "gate"
  /\ IF call.keyNumeric
     THEN Proceed(IF state = NULL /\ call.driver = "value" THEN "coerce" ELSE "rows")
     ELSE RaiseError("key")
  /\ UNCHANGED <<call, keys, cols, state, rows>>

CoerceColumns ==
  /\ phase = "coerce"
  /\ IF \A p \in Params : call.numeric[p] THEN Proceed("check") ELSE RaiseError("param")
  /\ UNCHANGED <<call, keys, cols, state, rows>>

\* check_column / check_columns over whole columns, before any row is answered.
ColumnsValid == \A r \in 1 .. Height : DomainHolds(RowCells(r))

CheckColumns ==
  /\ phase = "check"
  /\ IF ColumnsValid
     THEN Proceed(IF call.driver = "point" THEN "gate" ELSE "rows")
     ELSE RaiseError("domain")
  /\ UNCHANGED <<call, keys, cols, state, rows>>

\* value_keyed_scalar's closure, over the state built once.
SharedAnswer(point) ==
  IF point = NULL THEN NULL ELSE IF point = NaN THEN NaN ELSE Body(state, point)

\* Mutant: a NaN point answers before a missing parameter does.
NaNFirst(cells, point) ==
  IF point = NaN THEN NaN
  ELSE IF point = NULL \/ ~ Present(cells) THEN NULL ELSE Body(cells, point)

(***************************************************************************)
(* The column drivers' closure: the state is built on the row, and the     *)
(* domain pass has accepted every one a row builds.                        *)
(***************************************************************************)
RowAnswer(cells, point) ==
  IF point = NULL \/ ~ Present(cells) THEN NULL
  ELSE IF point = NaN THEN NaN ELSE Body(cells, point)

NextRow == Len(rows) + 1

AnswerRow ==
  /\ phase = "rows"
  /\ NextRow <= Height
  /\ rows' = Append(rows, IF state # NULL THEN SharedAnswer(keys[NextRow])
                          ELSE RowAnswer(RowCells(NextRow), keys[NextRow]))
  /\ UNCHANGED <<call, phase, keys, cols, state, error>>

CollectRows ==
  /\ phase = "rows"
  /\ NextRow > Height
  /\ Proceed("done")
  /\ UNCHANGED <<call, keys, cols, state, rows>>

Finished == phase \in {"done", "raised"} /\ UNCHANGED vars

Next ==
  \/ BuildOnce \/ CoerceConstant \/ CheckConstant
  \/ Align \/ GateKey \/ CoerceColumns \/ CheckColumns
  \/ AnswerRow \/ CollectRows
  \/ Finished

Spec == Init /\ [][Next]_vars

-----------------------------------------------------------------------------
(***************************************************************************)
(* Every variable has its type.                                            *)
(***************************************************************************)
TypeOK ==
  /\ call \in CallType /\ WellFormed(call)
  /\ phase \in Phases
  /\ keys \in Seq(Points \cup {NULL})
  /\ cols \in [Params -> Seq(Values \cup {NULL})]
  /\ state \in Tuples \cup {NULL}
  /\ rows \in Seq(Answers \cup {NaN, NULL})
  /\ error \in {"shape", "key", "param", "domain", "none"}

(***************************************************************************)
(* The error a call reports is one it has: a parameter is never blamed for *)
(* a value column, nor a value for a length (every early return of the     *)
(* drivers, in whichever order a route takes them).                        *)
(***************************************************************************)
ErrorIsReal ==
  /\ error = "shape" => ~ Aligned(call)
  /\ error = "key" => ~ call.keyNumeric
  /\ error = "param" => \E p \in Params : ~ call.numeric[p]
  /\ error = "domain" =>
       /\ \A p \in Params : call.numeric[p]
       /\ \E r \in ReadRows(call) : ~ DomainHolds(RowParams(call, r))

(***************************************************************************)
(* A constant parameterisation is checked before any row is read: a call   *)
(* over no rows raises on an invalid Python scalar or length-1 expression  *)
(* like any other (parameters-and-contracts.md:179-182).                   *)
(***************************************************************************)
ConstantsAlwaysChecked ==
  phase = "done" /\ ConstantParams(call) => DomainHolds(RowParams(call, 1))

\* What is reported when parameters and value column are both invalid.
ReportsAsDocumented ==
  phase = "raised" /\ Aligned(call) /\ ~ call.keyNumeric /\ ParamsInvalid(call) =>
    (error = "key" <=> ~ ConstantParams(call))

(***************************************************************************)
(* When both are invalid, a constant parameterisation reports itself and a *)
(* parameter column leaves the report to the value column: so the drivers  *)
(* of mod.rs do (parameters-and-contracts.md:183-185).  The six methods of *)
(* DiscreteUniform over point_keyed check the parameter columns first.     *)
(***************************************************************************)
ValueDriversReportInOrder == call.driver = "value" => ReportsAsDocumented

(***************************************************************************)
(* The call implements its contract: by whichever route and order, it      *)
(* raises exactly when an input is invalid, and answers what each row owes.*)
(***************************************************************************)
Outcome ==
  [status |-> IF phase \in {"done", "raised"} THEN phase ELSE "pending",
   rows   |-> IF phase = "done" THEN rows ELSE <<>>]

Contract == INSTANCE ValueContract WITH outcome <- Outcome

ImplementsContract == Contract!ContractSpec

-----------------------------------------------------------------------------
(***************************************************************************)
(* The inductive invariant, part by part.                                  *)
(***************************************************************************)

\* Which phases a route passes through.
RouteOfCall ==
  /\ phase = "once" => call.route = "scalar"
  /\ phase \in {"constCoerce", "constCheck"} => call.route = "columns" /\ call.driver # "param"
  /\ phase \in {"once", "constCoerce", "constCheck"} => ConstantParams(call) /\ state = NULL
  /\ phase \in {"align", "coerce", "check"} => state = NULL
  /\ state = NULL => call.route = "columns" \/ phase \in {"once", "raised"}
  /\ call.driver = "param" => state = NULL
  /\ phase = "gate" => call.driver # "param"

\* The state built once is every row's own parameters.
StateIsConstant ==
  state # NULL => ConstantParams(call) /\ state = RowParams(call, 1) /\ keys = call.key

\* Until they are aligned the columns are the call's; from then on row r is its row r.
InputsAligned ==
  /\ phase \in {"once", "constCoerce", "constCheck", "align"} => keys = call.key /\ cols = call.cols
  /\ phase \in {"gate", "coerce", "check", "rows", "done"} /\ state = NULL =>
       /\ Aligned(call)
       /\ Len(keys) = RowCount(call) /\ \A p \in Params : Len(cols[p]) = RowCount(call)
       /\ \A r \in 1 .. RowCount(call) :
            RowCells(r) = RowParams(call, r) /\ keys[r] = RowKey(call, r)

\* A call that has got this far has passed the checks on the way.
ChecksPassed ==
  /\ phase \in {"constCheck", "check", "rows", "done"} \/ state # NULL =>
       \A p \in Params : call.numeric[p]
  /\ phase \in {"rows", "done"} \/ state # NULL \/ (phase = "gate" /\ call.driver = "point") =>
       ~ ParamsInvalid(call)
  /\ phase \in {"align", "gate", "coerce", "check"} /\ ConstantParams(call) /\ call.driver # "param" =>
       ~ ParamsInvalid(call)
  /\ phase \in {"rows", "done"} \/ (phase \in {"coerce", "check"} /\ call.driver = "value") =>
       call.keyNumeric

\* The answers so far are what is owed.
RowsOwed ==
  /\ phase \notin {"rows", "done"} => rows = <<>>
  /\ phase \in {"rows", "done"} =>
       /\ Len(rows) <= RowCount(call)
       /\ \A r \in 1 .. Len(rows) : rows[r] = OwedRow(RowParams(call, r), RowKey(call, r))
  /\ phase = "done" => rows = Owed(call)

ErrorRaised == error = "none" <=> phase # "raised"

IInv ==
  /\ TypeOK /\ RouteOfCall /\ StateIsConstant /\ InputsAligned /\ ChecksPassed /\ RowsOwed
  /\ ErrorRaised /\ ErrorIsReal /\ ValueDriversReportInOrder

=============================================================================
