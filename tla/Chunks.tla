------------------------------- MODULE Chunks -------------------------------
(***************************************************************************)
(* Contiguous cuts of 1 .. n: a column's chunks in memory, a frame's       *)
(* morsels.                                                                *)
(***************************************************************************)
EXTENDS Integers

Intervals(n) == {m \in [from : 1 .. n, to : 1 .. n] : m.from <= m.to}

Covers(m, r) == m.from <= r /\ r <= m.to

\* The ways n rows are cut: every row in one interval.
Cuts(n) ==
  {M \in SUBSET Intervals(n) : \A r \in 1 .. n :
     /\ \E m \in M : Covers(m, r)
     /\ \A m, k \in M : Covers(m, r) /\ Covers(k, r) => m = k}

=============================================================================
