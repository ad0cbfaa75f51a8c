------------------------------ MODULE MCSampler ------------------------------
(***************************************************************************)
(* Small instances of Sampler: a two-parameter distribution whose          *)
(* parameters reject "nan", whose joint rule rejects ("hi", "lo"), and     *)
(* whose sampler cannot be built from "huge".                              *)
(***************************************************************************)
EXTENDS Sampler

MCParams == {"a", "b"}

MCValues == {"lo", "hi", "nan", "huge"}

MCAccepted == [p \in MCParams |-> MCValues \ {"nan"}]

MCTuples == [MCParams -> MCValues]

MCJoint == {t \in MCTuples : ~ (t["a"] = "hi" /\ t["b"] = "lo")}

MCBuildable == {t \in MCTuples : t["b"] # "huge"}

Columns(n, cells) == [1 .. n -> cells]

\* A row index of height n whose positions start at `base`, as a morsel of a frame has.
IndexFrom(base, n) == [r \in 1 .. n |-> base + r - 1]

CallsWith(kinds, sizes, routes, columns, numerics, indexes, seeds) ==
  {c \in [kind : kinds, size : sizes, route : routes, cols : [MCParams -> columns],
          numeric : numerics, key : indexes, seed : seeds] : WellFormed(c)}

Kinds == {"sample", "samples"}

Routes == {"scalar", "columns"}

Heights == 0 .. 2

(***************************************************************************)
(* Every combination of parameter cells, lengths and heights, on both      *)
(* routes: the checks and their order.  Five draws of each of two rows are *)
(* more than MaxUsize; any fewer are filled in serial.                     *)
(***************************************************************************)
InputCalls ==
  UNION ({CallsWith(Kinds, {1, 2, 5}, Routes,
                    UNION {Columns(m, MCValues \cup {NULL}) : m \in {1, n}},
                    {[p \in MCParams |-> TRUE]}, {IndexFrom(0, n)}, {"s", NoSeed}) : n \in Heights}
         \cup
         {CallsWith({"samples"}, {2}, {"columns"},
                    UNION {Columns(m, {"lo", NULL}) : m \in Heights},
                    [MCParams -> BOOLEAN], {IndexFrom(0, n)}, {"s"}) : n \in Heights})

(***************************************************************************)
(* Three rows of valid and missing parameters under a pool of workers: the *)
(* interleavings of the fill, parallel and serial, from two positions of a *)
(* frame.                                                                  *)
(***************************************************************************)
FillCalls ==
  CallsWith({"samples"}, {1, 2, 3}, Routes,
            Columns(1, {"lo"}) \cup Columns(3, {"lo", NULL}),
            {[p \in MCParams |-> TRUE]}, {IndexFrom(0, 3), IndexFrom(4, 3)}, {"s"})

AllCalls == InputCalls \cup FillCalls

=============================================================================
