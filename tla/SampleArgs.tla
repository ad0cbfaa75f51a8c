----------------------------- MODULE SampleArgs -----------------------------
(***************************************************************************)
(* The arguments of one sampler plugin call, and what the sampling         *)
(* contract says about them.  Four Rust drivers answer such a call         *)
(* (src/src/rng.rs): sample_by_index and samples_by_index when every       *)
(* parameter is a Python scalar (the "scalar" route), sample_per_row_* and *)
(* samples_per_row_* when one is a column (the "columns" route).           *)
(*                                                                         *)
(* Parameter values are abstract.  A draw is the record of everything that *)
(* determined it: the built state, the stream (root, index) and the number *)
(* of draws the stream had already given.  Two draws are equal here only   *)
(* if the program is bound to compute the same value for both.             *)
(***************************************************************************)
EXTENDS PluginArgs

CONSTANTS
  Buildable,  \* the tuples the sampler constructor accepts
  Roots,      \* the root seeds: the caller's, and what OS entropy can give
  NoSeed,     \* seed=None
  MaxUsize    \* the largest draw count a usize can address

(***************************************************************************)
(* A call.  `numeric[p]` says whether parameter p's column passes its      *)
(* dtype gate.  The scalar route carries one present number per parameter  *)
(* in the kwargs, here a length-1 column.  _draw sizes the index by        *)
(* row_index_expr, so no parameter is ever longer than it, and no position *)
(* occurs twice in it.                                                     *)
(***************************************************************************)
CallType ==
  [kind    : {"sample", "samples"},
   route   : {"scalar", "columns"},
   cols    : [Params -> Seq(Values \cup {NULL})],
   numeric : [Params -> BOOLEAN],
   key     : Seq(Nat),
   seed    : Roots \cup {NoSeed},
   size    : Nat \ {0}]

WellFormed(c) ==
  /\ c.kind = "sample" => c.size = 1
  /\ \A p \in Params : Len(c.cols[p]) <= Len(c.key) \/ Len(c.cols[p]) = 1
  /\ \A i, j \in DOMAIN c.key : i # j => c.key[i] # c.key[j]
  /\ c.route = "scalar" =>
       \A p \in Params :
         Len(c.cols[p]) = 1 /\ c.cols[p][1] \in Values /\ c.numeric[p]

ASSUME ConstantsAssumption ==
  /\ Roots # {} /\ NoSeed \notin Roots
  /\ Buildable \subseteq Tuples
  /\ MaxUsize \in Nat

-----------------------------------------------------------------------------
CanBuild(cells) == Present(cells) => cells \in Buildable

(***************************************************************************)
(* Streams and draws.  row_rng(index) is a fresh stream; draw reads the    *)
(* stream where it stands and advances it.                                 *)
(***************************************************************************)
Stream == [root : Roots, index : Nat, used : Nat]

row_rng(root, index) == [root |-> root, index |-> index, used |-> 0]

Advanced(rng) == [rng EXCEPT !.used = @ + 1]

Draw == [state : Tuples, rng : Stream]

draw(state, rng) == [state |-> state, rng |-> rng]

\* RowRngs::new: the caller's seed is the root, or OS entropy gives one.
RootsOf(c) == IF c.seed = NoSeed THEN Roots ELSE {c.seed}

\* The k-th draw of row r when the call's root seed is `root`.
NthDraw(c, root, r, k) ==
  draw(RowParams(c, r), [root |-> root, index |-> RowKey(c, r), used |-> k - 1])

\* What the call owes for row r: its first `size` draws, or NULL.
OwedRow(c, root, r) ==
  IF Present(RowParams(c, r))
  THEN [k \in 1 .. c.size |-> NthDraw(c, root, r, k)]
  ELSE NULL

Owed(c, root) == [r \in 1 .. RowCount(c) |-> OwedRow(c, root, r)]

-----------------------------------------------------------------------------
(***************************************************************************)
(* When a call raises.  Invalid: lengths that do not align, a column the   *)
(* dtype gate refuses, a present value outside its domain wherever it      *)
(* sits, or a tuple no sampler is built from.  TooLarge: more draws than a *)
(* usize addresses.  The environment makes a call fail when an unseeded    *)
(* one gets no OS entropy or a draw buffer gets no memory.                 *)
(***************************************************************************)
Invalid(c) ==
  \/ ~ Aligned(c)
  \/ \E p \in Params : ~ c.numeric[p]
  \/ \E r \in CheckedRows(c) : ~ DomainHolds(RowParams(c, r))
  \/ \E r \in CheckedRows(c) : ~ CanBuild(RowParams(c, r))

TooLarge(c) == c.kind = "samples" /\ RowCount(c) * c.size > MaxUsize

MustRaise(c) == Invalid(c) \/ TooLarge(c)

MayRaise(c) ==
  \/ c.seed = NoSeed
  \/ c.kind = "samples" /\ RowCount(c) > 0

=============================================================================
