----------------------------- MODULE PluginArgs -----------------------------
(***************************************************************************)
(* What every plugin call has in common (src/src/distributions/mod.rs):    *)
(* one column per parameter, beside the input that keys its rows.  That is *)
(* the row index of a sampler, or the evaluation point of a value-keyed    *)
(* method.                                                                 *)
(*                                                                         *)
(* A call is a record with at least the fields                             *)
(*   cols     the parameter columns                                        *)
(*   numeric  numeric[p]: parameter p's column passes its dtype gate       *)
(*   key      the keying input                                             *)
(*   route    "scalar" when every parameter is a Python scalar, carried in *)
(*            the kwargs (here as length-1 columns), else "columns"        *)
(***************************************************************************)
EXTENDS Integers, Sequences, FiniteSets

CONSTANTS
  Params,     \* the distribution's parameters
  Values,     \* the values a present parameter cell can hold
  NULL,       \* a missing cell, and the answer of a row that has one
  Accepted,   \* Accepted[p]: the values parameter p's own rule accepts
  Joint       \* the parameter tuples the joint rule accepts

(***************************************************************************)
(* The parameters of one row, once every one of them is present.           *)
(***************************************************************************)
Tuples == [Params -> Values]

ASSUME DomainAssumption ==
  /\ IsFiniteSet(Params)
  /\ NULL \notin Values \cup Tuples
  /\ Accepted \in [Params -> SUBSET Values]
  /\ Joint \subseteq Tuples

-----------------------------------------------------------------------------
(***************************************************************************)
(* Lengths.  A length-1 input broadcasts and never sets the row count, so  *)
(* an all-length-1 call has one row and a 0-row input beside a literal has *)
(* none.                                                                   *)
(***************************************************************************)
Spans(c) == ({Len(c.cols[p]) : p \in Params} \cup {Len(c.key)}) \ {1}

Aligned(c) == \A m, n \in Spans(c) : m = n

RowCount(c) == IF Spans(c) = {} THEN 1 ELSE CHOOSE n \in Spans(c) : TRUE

At(column, r) == IF Len(column) = 1 THEN column[1] ELSE column[r]

\* Mutant: a length-1 input is left as it is.
BroadcastLeft(column, n) == column

(***************************************************************************)
(* align_inputs: length-1 inputs are repeated up to the anchor's length;   *)
(* lengths other than 1 must agree.                                        *)
(***************************************************************************)
Broadcast(column, n) ==
  IF Len(column) = 1 THEN [r \in 1 .. n |-> column[1]] ELSE column

RowParams(c, r) == [p \in Params |-> At(c.cols[p], r)]

RowKey(c, r) == At(c.key, r)

-----------------------------------------------------------------------------
(***************************************************************************)
(* Validity of the cells at one row: each present parameter on its own,    *)
(* and the tuple where every parameter is present.                         *)
(***************************************************************************)
Present(cells) == \A p \in Params : cells[p] # NULL

OwnRuleHolds(cells) == \A p \in Params : cells[p] # NULL => cells[p] \in Accepted[p]

JointRuleHolds(cells) == Present(cells) => cells \in Joint

DomainHolds(cells) == OwnRuleHolds(cells) /\ JointRuleHolds(cells)

\* Mutant: only the first row is checked.
FirstRowOnly(c) == 1 .. (IF RowCount(c) = 0 THEN 0 ELSE 1)

\* The rows a call's checks read: the kwargs once, a column at each of its rows.
CheckedRows(c) == IF c.route = "scalar" THEN {1} ELSE 1 .. RowCount(c)

=============================================================================
