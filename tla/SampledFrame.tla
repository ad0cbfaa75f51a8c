---------------------------- MODULE SampledFrame ----------------------------
(***************************************************************************)
(* One sample / samples expression over a frame, or over one partition of  *)
(* it (src/polars_stats/distributions/_base.py).  _draw registers one      *)
(* elementwise plugin over the parameters and a row index; polars decides  *)
(* how many calls that becomes.  The in-memory engine makes one over the   *)
(* whole height.  The streaming engine makes one per morsel, in any order, *)
(* and broadcasts length-1 inputs before the plugin sees them.             *)
(*                                                                         *)
(* A call is its contract here (SampleContract, which Sampler implements). *)
(***************************************************************************)
EXTENDS SampleArgs, Chunks, FiniteSetsExt

CONSTANT NoFrame   \* before any sample expression is collected

(***************************************************************************)
(* A frame is the record of one such expression over `height` rows: its    *)
(* kind, route, seed and size, and its parameters' columns.  bare[p]: p is *)
(* a plain pl.col, as tall as the frame; any other expression has its own  *)
(* length: 1 for a literal or an aggregate, a Series' own, or the frame's. *)
(***************************************************************************)
VARIABLES
  frame,     \* the expression and its frame
  engine,
  morsels,   \* the intervals of rows a call is made for
  answered,  \* per answered morsel, its rows
  status

frameVars == <<frame, engine, morsels, answered, status>>

-----------------------------------------------------------------------------
\* Mutant: the index is always as tall as the frame.
SpansNone(f) == {}

\* Mutant: a length-1 parameter counts as a row.
SpansUnreplaced(f) == {Len(f.cols[p]) : p \in {q \in Params : ~ f.bare[q]}}

\* The lengths a parameter can give the call: not a bare column's, and never 1.
SpansOf(f) ==
  {IF Len(f.cols[p]) = 1 THEN 0 ELSE Len(f.cols[p]) : p \in {q \in Params : ~ f.bare[q]}}

(***************************************************************************)
(* row_index_expr, in either arm of _LITERAL_LEN_IN_AGG: as tall as the    *)
(* frame or its tallest parameter.  The scalar route takes ROW_INDEX_EXPR. *)
(***************************************************************************)
IndexHeight(f) ==
  IF f.route = "scalar" THEN f.height ELSE Max({f.height} \cup SpansOf(f))

row_index_expr(f) == [r \in 1 .. IndexHeight(f) |-> r - 1]

\* The call the in-memory engine makes.
WholeCall(f) ==
  [kind |-> f.kind, route |-> f.route, cols |-> f.cols, numeric |-> f.numeric,
   key |-> row_index_expr(f), seed |-> f.seed, size |-> f.size]

-----------------------------------------------------------------------------
Whole(n) == {[from |-> 1, to |-> n]}

Slice(column, m) == [r \in 1 .. m.to - m.from + 1 |-> At(column, m.from + r - 1)]

(***************************************************************************)
(* The call for one morsel: its own rows of every input, the row index as  *)
(* any other.  The scalar route's parameters ride in the kwargs.           *)
(***************************************************************************)
MorselCall(m) ==
  LET c == WholeCall(frame) IN
  IF engine = "in-memory" THEN c
  ELSE [c EXCEPT !.key = Slice(@, m),
                 !.cols = IF c.route = "scalar" THEN @ ELSE [p \in Params |-> Slice(@[p], m)]]

-----------------------------------------------------------------------------
FrameInit ==
  /\ frame = NoFrame
  /\ engine = "in-memory"
  /\ morsels = {}
  /\ answered = [m \in {} |-> <<>>]
  /\ status = "idle"

\* A query over expression f starts: whole, or cut into morsels by the streaming engine.
Submit(f) ==
  /\ status = "idle"
  /\ frame' = f
  /\ LET rows == RowCount(WholeCall(f)) IN
     \/ engine' = "in-memory" /\ morsels' = Whole(rows)
     \/ /\ Aligned(WholeCall(f)) /\ rows > 0
        /\ engine' = "streaming" /\ morsels' \in Cuts(rows)
  /\ status' = "running"
  /\ UNCHANGED answered

Waiting == morsels \ DOMAIN answered

\* A call returns; an unseeded one has a root seed of its own.
AnswerMorsel(m) ==
  /\ status = "running"
  /\ m \in Waiting
  /\ ~ MustRaise(MorselCall(m))
  /\ \E root \in RootsOf(frame) :
       answered' = [a \in DOMAIN answered \cup {m} |->
                      IF a = m THEN Owed(MorselCall(m), root) ELSE answered[a]]
  /\ UNCHANGED <<frame, engine, morsels, status>>

\* A call raises, and the query with it.
FailMorsel(m) ==
  /\ status = "running"
  /\ m \in Waiting
  /\ MustRaise(MorselCall(m)) \/ MayRaise(MorselCall(m))
  /\ status' = "raised"
  /\ UNCHANGED <<frame, engine, morsels, answered>>

Concatenate ==
  /\ status = "running"
  /\ Waiting = {}
  /\ status' = "done"
  /\ UNCHANGED <<frame, engine, morsels, answered>>

Proceed == (\E m \in morsels : AnswerMorsel(m) \/ FailMorsel(m)) \/ Concatenate

-----------------------------------------------------------------------------
\* The frames _draw can make of an expression.
FrameType ==
  [kind : {"sample", "samples"}, route : {"scalar", "columns"}, height : Nat,
   cols : [Params -> Seq(Values \cup {NULL})], bare : [Params -> BOOLEAN],
   numeric : [Params -> BOOLEAN], seed : Roots \cup {NoSeed}, size : Nat \ {0}]

GoodFrame(f) ==
  /\ f \in FrameType
  /\ \A p \in Params : f.bare[p] => Len(f.cols[p]) = f.height
  /\ f.route = "scalar" => \A p \in Params : Len(f.cols[p]) = 1

MorselsMakeTheFrame ==
  LET rows == RowCount(WholeCall(frame)) IN
  \/ engine = "in-memory" /\ morsels = Whole(rows)
  \/ /\ engine = "streaming" /\ Aligned(WholeCall(frame)) /\ rows > 0
     /\ morsels \in Cuts(rows)

AnsweredAsOwed ==
  /\ DOMAIN answered \subseteq morsels
  /\ \A m \in DOMAIN answered :
       /\ ~ MustRaise(MorselCall(m))
       /\ \E root \in RootsOf(frame) : answered[m] = Owed(MorselCall(m), root)

\* Inductive: what a morsel was answered is what its own call owes, and the morsels are the frame.
FrameIInv ==
  /\ status \in {"idle", "running", "raised", "done"}
  /\ status = "idle" => morsels = {} /\ DOMAIN answered = {}
  /\ status # "idle" => GoodFrame(frame) /\ MorselsMakeTheFrame /\ AnsweredAsOwed
  /\ status = "raised" => \E m \in morsels : MustRaise(MorselCall(m)) \/ MayRaise(MorselCall(m))
  /\ status = "done" => morsels \subseteq DOMAIN answered

FrameRows == 1 .. RowCount(WholeCall(frame))

\* The answer of row r, in the morsel it fell into.
Answer(r) ==
  LET m == CHOOSE m \in morsels : Covers(m, r) IN answered[m][r - m.from + 1]

(***************************************************************************)
(* The engine, the cut into morsels and the order they are answered in do  *)
(* not show in a seeded answer: row r holds what one call over the whole   *)
(* frame owes for it.  Unseeded, each row is still one whole stream's.  No *)
(* length-1 parameter sets the height: unless a parameter has another      *)
(* length, the answer is as tall as the frame, an empty one too.           *)
(***************************************************************************)
AnswerIsFrames ==
  /\ status = "done" =>
       \A r \in FrameRows : \E root \in RootsOf(frame) : Answer(r) = OwedRow(WholeCall(frame), root, r)
  /\ status # "idle" /\ (\A p \in Params : Len(frame.cols[p]) \in {1, frame.height}) => Cardinality(FrameRows) = frame.height

(***************************************************************************)
(* The index is an identity: no two rows of an answer are drawn from one   *)
(* stream, also where a parameter is taller than the frame.                *)
(***************************************************************************)
RowsHaveOwnStreams ==
  status = "done" =>
    \A r, q \in FrameRows :
      r # q /\ Answer(r) # NULL /\ Answer(q) # NULL => Answer(r)[1].rng.index # Answer(q)[1].rng.index

(***************************************************************************)
(* An invalid parameterisation fails the whole query under either engine:  *)
(* the frame answers only if one call over it would, but for the limit on  *)
(* a call's draws, and raises only if one call over it could.              *)
(***************************************************************************)
RaisesAsOneCall ==
  /\ status = "done" => ~ Invalid(WholeCall(frame))
  /\ status = "raised" => MustRaise(WholeCall(frame)) \/ MayRaise(WholeCall(frame))

=============================================================================
