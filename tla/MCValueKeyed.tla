---------------------------- MODULE MCValueKeyed ----------------------------
(***************************************************************************)
(* Small instances of ValueKeyed: a two-parameter distribution whose       *)
(* parameters reject "nan" and whose joint rule rejects ("hi", "lo"),      *)
(* evaluated at a plain point, at NaN, and at a quantile out of range.     *)
(***************************************************************************)
EXTENDS ValueKeyed

MCParams == {"a", "b"}

MCValues == {"lo", "hi", "nan"}

MCAccepted == [p \in MCParams |-> MCValues \ {"nan"}]

MCTuples == [MCParams -> MCValues]

MCJoint == {t \in MCTuples : ~ (t["a"] = "hi" /\ t["b"] = "lo")}

MCPoints == {"x", "out", NaN, NoPoint}

MCUndefined == MCTuples \X {"out"}

Columns(n, cells) == [1 .. n -> cells]

CallsWith(drivers, routes, columns, numerics, keyColumns, keyNumerics) ==
  {c \in [driver : drivers, route : routes, cols : [MCParams -> columns], numeric : numerics,
          key : keyColumns, keyNumeric : keyNumerics] : WellFormed(c)}

Numeric == {[p \in MCParams |-> TRUE]}

Drivers == {"value", "point", "param"}

Routes == {"scalar", "columns"}

(***************************************************************************)
(* Every mix of cells on up to 2 rows; every mix of lengths up to 3; every *)
(* mix of invalid dtypes with valid and invalid values.                    *)
(***************************************************************************)
MCCalls ==
  UNION {CallsWith(Drivers, Routes, Columns(1, MCValues \cup {NULL}) \cup Columns(n, MCValues \cup {NULL}),
                   Numeric, Columns(n, {"x", NaN, NULL}) \cup Columns(1, {"out", NoPoint}), {TRUE}) : n \in 0 .. 2}
  \cup
  CallsWith(Drivers, Routes, UNION {Columns(n, {"lo"}) : n \in 0 .. 3}, Numeric,
            UNION {Columns(n, {"x"}) : n \in 0 .. 3} \cup {<<NoPoint>>}, BOOLEAN)
  \cup
  CallsWith(Drivers, Routes, UNION {Columns(n, {"lo", "nan", NULL}) : n \in 0 .. 2},
            [MCParams -> BOOLEAN], UNION {Columns(n, {"x"}) : n \in 0 .. 2} \cup {<<NoPoint>>}, BOOLEAN)

=============================================================================
