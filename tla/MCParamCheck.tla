---------------------------- MODULE MCParamCheck ----------------------------
(***************************************************************************)
(* Small instances of ParamCheck: every pair of columns of up to 2 rows,   *)
(* and every nulls and chunks of 3 rows of some values.                    *)
(***************************************************************************)
EXTENDS ParamCheck

MCParams == {"a", "b"}

MCValues == {"lo", "hi", "nan"}

MCAccepted == [p \in MCParams |-> MCValues \ {"nan"}]

MCTuples == [MCParams -> MCValues]

MCJoint == {t \in MCTuples : ~ (t["a"] = "hi" /\ t["b"] = "lo")}

Threes(values) == {c \in ColumnType(3) : c.values \in values}

MCColumns ==
  UNION {[MCParams -> ColumnType(n)] : n \in 0 .. 2}
  \cup
  {C \in [MCParams -> Threes({<<"lo", "hi", "lo">>, <<"hi", "lo", "hi">>, <<"nan", "hi", "lo">>, <<"hi", "lo", "nan">>})] :
     C["a"].values # C["b"].values}

=============================================================================
