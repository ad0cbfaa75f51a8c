------------------------------- MODULE Sampler -------------------------------
(***************************************************************************)
(* One sampler plugin call, step by step (src/src/rng.rs).                 *)
(*                                                                         *)
(*   scalar route    buildOnce ------------------> root -> ...             *)
(*   columns route   align -> coerce -> check [-> build] -> root -> ...    *)
(*                                                                         *)
(*   sample          ... -> rows -> done                                   *)
(*   samples         ... -> alloc -> fill -> done                          *)
(*                                                                         *)
(* The fill is the concurrent part: the zeroed row-major buffer is cut     *)
(* into one chunk per row, and when it is long enough the rayon workers    *)
(* take the chunks in any order and write them slot by slot, each row from *)
(* a stream of its own.  A null row's chunk is never written; the validity *)
(* bitmaps mask it afterwards.                                             *)
(***************************************************************************)
EXTENDS SampleArgs

CONSTANTS
  Calls,            \* the calls under study
  Workers,          \* the rayon pool
  Caller,           \* the thread the plugin runs on
  Zero,             \* what alloc_zeroed leaves in a slot
  ParallelMinDraws  \* PARALLEL_FILL_MIN_DRAWS

ASSUME CallsAssumption == Calls \subseteq CallType /\ \A c \in Calls : WellFormed(c)

ASSUME WorkersAssumption ==
  /\ Caller \in Workers
  /\ Zero \notin Draw
  /\ ParallelMinDraws \in Nat

VARIABLES
  call,    \* the arguments, never written
  phase,
  cols,    \* the parameter columns, broadcast once aligned
  index,   \* the row index column, broadcast once aligned
  states,  \* per row, the tuple its draw state was built from, or NULL
  root,    \* the root seed, NoSeed until it is resolved
  draws,   \* the flat row-major draw buffer
  todo,    \* the rows whose chunk no worker has taken
  held,    \* held[w]: the row worker w is filling, 0 for none
  rng,     \* rng[w]: the stream w fills it from
  slot,    \* slot[w]: how many of the chunk's slots w has written
  rows     \* the answer: per row a tuple of draws, or NULL

vars == <<call, phase, cols, index, states, root, draws, todo, held, rng, slot, rows>>

Phases == {"align", "coerce", "check", "build", "buildOnce", "root", "rows",
           "alloc", "fill", "done", "raised"}

\* The columns every driver loops over have one length once aligned.
Height == Len(index)

RowCells(r) == [p \in Params |-> At(cols[p], r)]

\* Mutant: the chunks of two rows overlap.
SlotOverlapping(r, k) == (r - 1) + k

\* Slot k of row r in the row-major buffer: `chunks_mut(size)`.
Slot(r, k) == (r - 1) * call.size + k

\* The row a slot belongs to: each row's bit is repeated `size` times.
RowOf(s) == ((s - 1) \div call.size) + 1

Idle == [w \in Workers |-> 0]

\* A worker between rows holds no stream; this stands for its absence.
NoStream == row_rng(CHOOSE x \in Roots : TRUE, 0)

-----------------------------------------------------------------------------
Init ==
  /\ call \in Calls
  /\ phase = IF call.route = "scalar" THEN "buildOnce" ELSE "align"
  /\ cols = call.cols
  /\ index = call.key
  /\ states = <<>>
  /\ root = NoSeed
  /\ draws = <<>>
  /\ todo = {}
  /\ held = Idle
  /\ rng = [w \in Workers |-> NoStream]
  /\ slot = Idle
  /\ rows = <<>>

RaiseError == phase' = "raised"

-----------------------------------------------------------------------------
\* align_inputs, over the parameters and the row index.
Align ==
  /\ phase = "align"
  /\ IF Aligned(call)
     THEN /\ phase' = "coerce"
          /\ cols' = [p \in Params |-> Broadcast(cols[p], RowCount(call))]
          /\ index' = Broadcast(index, RowCount(call))
     ELSE /\ RaiseError
          /\ UNCHANGED <<cols, index>>
  /\ UNCHANGED <<call, states, root, draws, todo, held, rng, slot, rows>>

\* coerce_f64 and the integer coercers, one per parameter, then coerce_index.
Coerce ==
  /\ phase = "coerce"
  /\ IF \A p \in Params : call.numeric[p] THEN phase' = "check" ELSE RaiseError
  /\ UNCHANGED <<call, cols, index, states, root, draws, todo, held, rng, slot, rows>>

\* Mutant: the pass skips a row with a missing parameter.
ColumnsValidWherePresent ==
  \A r \in 1 .. Height : Present(RowCells(r)) => DomainHolds(RowCells(r))

\* The column pass: every present value, also beside a missing one.
ColumnsValid == \A r \in 1 .. Height : DomainHolds(RowCells(r))

CheckParams ==
  /\ phase = "check"
  /\ IF ColumnsValid
     THEN phase' = IF call.kind = "samples" THEN "build" ELSE "root"
     ELSE RaiseError
  /\ UNCHANGED <<call, cols, index, states, root, draws, todo, held, rng, slot, rows>>

\* The draw state of a row: built once from its parameters, none on a null row.
StateOf(cells) == IF Present(cells) THEN cells ELSE NULL

(***************************************************************************)
(* samples_per_row materialises every state before it draws anything: the  *)
(* first one that cannot be built raises.                                  *)
(***************************************************************************)
BuildStates ==
  /\ phase = "build"
  /\ IF \A r \in 1 .. Height : CanBuild(RowCells(r))
     THEN /\ phase' = "root"
          /\ states' = [r \in 1 .. Height |-> StateOf(RowCells(r))]
     ELSE /\ RaiseError
          /\ UNCHANGED states
  /\ UNCHANGED <<call, cols, index, root, draws, todo, held, rng, slot, rows>>

\* The scalar shells check and build the kwargs' parameters once for all rows.
BuildOnce ==
  /\ phase = "buildOnce"
  /\ LET cells == RowCells(1) IN
     IF DomainHolds(cells) /\ CanBuild(cells)
     THEN /\ phase' = "root"
          /\ states' = [r \in 1 .. Height |-> StateOf(cells)]
     ELSE /\ RaiseError
          /\ UNCHANGED states
  /\ UNCHANGED <<call, cols, index, root, draws, todo, held, rng, slot, rows>>

\* RowRngs::new: the caller's seed, or one draw of OS entropy, which may fail.
ResolveRoot ==
  /\ phase = "root"
  /\ \/ /\ root' \in RootsOf(call)
        /\ phase' = IF call.kind = "samples" THEN "alloc" ELSE "rows"
     \/ /\ call.seed = NoSeed
        /\ RaiseError
        /\ UNCHANGED root
  /\ UNCHANGED <<call, cols, index, states, draws, todo, held, rng, slot, rows>>

-----------------------------------------------------------------------------
(***************************************************************************)
(* The single-draw drivers answer row after row; the per-row ones build    *)
(* each row's sampler inside the loop, so a build can still raise here.    *)
(***************************************************************************)
NextRow == Len(rows) + 1

SampleRow ==
  /\ phase = "rows"
  /\ NextRow <= Height
  /\ LET cells == RowCells(NextRow) IN
     IF CanBuild(cells)
     THEN /\ rows' = Append(rows, IF Present(cells)
                                  THEN <<draw(cells, row_rng(root, index[NextRow]))>>
                                  ELSE NULL)
          /\ UNCHANGED phase
     ELSE /\ RaiseError
          /\ rows' = <<>>
  /\ UNCHANGED <<call, cols, index, states, root, draws, todo, held, rng, slot>>

CollectRows ==
  /\ phase = "rows"
  /\ NextRow > Height
  /\ phase' = "done"
  /\ UNCHANGED <<call, cols, index, states, root, draws, todo, held, rng, slot, rows>>

-----------------------------------------------------------------------------
(***************************************************************************)
(* alloc_draws: the whole buffer at once, zeroed, or an error.             *)
(***************************************************************************)
DrawCount == Len(states) * call.size

AllocDraws ==
  /\ phase = "alloc"
  /\ \/ /\ DrawCount <= MaxUsize
        /\ draws' = [s \in 1 .. DrawCount |-> Zero]
        /\ todo' = 1 .. Len(states)
        /\ phase' = "fill"
     \/ /\ DrawCount > MaxUsize \/ DrawCount > 0
        /\ RaiseError
        /\ UNCHANGED <<draws, todo>>
  /\ UNCHANGED <<call, cols, index, states, root, held, rng, slot, rows>>

(***************************************************************************)
(* fill_rows: a worker takes a chunk.  Below the threshold the calling     *)
(* thread fills the chunks alone, in order.  A null row has nothing to     *)
(* fill.                                                                   *)
(***************************************************************************)
Parallel == Len(draws) >= ParallelMinDraws

Claimable(w) ==
  IF Parallel THEN todo
  ELSE {r \in todo : w = Caller /\ \A q \in todo : r <= q}

ClaimRow(w, r) ==
  /\ phase = "fill"
  /\ held[w] = 0
  /\ r \in Claimable(w)
  /\ todo' = todo \ {r}
  /\ IF states[r] = NULL
     THEN UNCHANGED <<held, rng, slot>>
     ELSE /\ held' = [held EXCEPT ![w] = r]
          /\ rng' = [rng EXCEPT ![w] = row_rng(root, index[r])]
          /\ slot' = [slot EXCEPT ![w] = 0]
  /\ UNCHANGED <<call, phase, cols, index, states, root, draws, rows>>

\* Mutant: each draw comes from the start of the row's stream.
DrawSlotFromStart(w) ==
  /\ phase = "fill"
  /\ held[w] # 0
  /\ draws' = [draws EXCEPT ![Slot(held[w], slot[w] + 1)]
                 = draw(states[held[w]], row_rng(rng[w].root, rng[w].index))]
  /\ rng' = [rng EXCEPT ![w] = Advanced(@)]
  /\ slot' = [slot EXCEPT ![w] = @ + 1]
  /\ held' = [held EXCEPT ![w] = IF slot[w] + 1 = call.size THEN 0 ELSE @]
  /\ UNCHANGED <<call, phase, cols, index, states, root, todo, rows>>

\* `for value in slot { *value = draw(state, &mut rng) }`, one slot at a time.
DrawSlot(w) ==
  /\ phase = "fill"
  /\ held[w] # 0
  /\ draws' = [draws EXCEPT ![Slot(held[w], slot[w] + 1)]
                 = draw(states[held[w]], rng[w])]
  /\ rng' = [rng EXCEPT ![w] = Advanced(@)]
  /\ slot' = [slot EXCEPT ![w] = @ + 1]
  /\ held' = [held EXCEPT ![w] = IF slot[w] + 1 = call.size THEN 0 ELSE @]
  /\ UNCHANGED <<call, phase, cols, index, states, root, todo, rows>>

(***************************************************************************)
(* The join, then the two-layer array: an inner validity bit per draw and  *)
(* an outer one per row, both read off `states`.                           *)
(***************************************************************************)
Filled == todo = {} /\ held = Idle

InnerValidity == [s \in DOMAIN draws |-> states[RowOf(s)] # NULL]

OuterValidity == [r \in DOMAIN states |-> states[r] # NULL]

MaskedRows ==
  [r \in DOMAIN states |->
     IF OuterValidity[r]
     THEN [k \in 1 .. call.size |->
             IF InnerValidity[Slot(r, k)] THEN draws[Slot(r, k)] ELSE NULL]
     ELSE NULL]

MaskRows ==
  /\ phase = "fill"
  /\ Filled
  /\ rows' = MaskedRows
  /\ phase' = "done"
  /\ UNCHANGED <<call, cols, index, states, root, draws, todo, held, rng, slot>>

-----------------------------------------------------------------------------
Finished == phase \in {"done", "raised"} /\ UNCHANGED vars

Fill == \E w \in Workers : DrawSlot(w) \/ \E r \in todo : ClaimRow(w, r)

Next ==
  \/ Align \/ Coerce \/ CheckParams \/ BuildStates \/ BuildOnce \/ ResolveRoot
  \/ SampleRow \/ CollectRows
  \/ AllocDraws \/ Fill \/ MaskRows
  \/ Finished

Spec == Init /\ [][Next]_vars

-----------------------------------------------------------------------------
(***************************************************************************)
(* Every variable has its type.                                            *)
(***************************************************************************)
TypeOK ==
  /\ call \in CallType /\ WellFormed(call)
  /\ phase \in Phases
  /\ cols \in [Params -> Seq(Values \cup {NULL})]
  /\ index \in Seq(Nat)
  /\ states \in Seq({NULL} \cup Tuples)
  /\ root \in Roots \cup {NoSeed}
  /\ draws \in Seq({Zero} \cup Draw)
  /\ todo \subseteq Nat
  /\ held \in [Workers -> Nat]
  /\ rng \in [Workers -> Stream]
  /\ slot \in [Workers -> Nat]
  /\ rows \in Seq({NULL} \cup Seq({NULL, Zero} \cup Draw))

(***************************************************************************)
(* Draw k of row r is in the buffer: its chunk was taken, and the worker   *)
(* that is still on it, if one is, has got that far.                       *)
(***************************************************************************)
Written(r, k) ==
  /\ states[r] # NULL
  /\ r \notin todo
  /\ \A w \in Workers : held[w] = r => k <= slot[w]

(***************************************************************************)
(* While the workers fill, whatever their interleaving, the buffer holds   *)
(* of each row exactly the draws it owes up to where its worker stands and *)
(* zeroes after them; a null row's chunk stays zero.  No worker writes     *)
(* into another row's chunk, skips a slot, or reads another row's stream   *)
(* (rng.rs fill_rows and the closure samples_per_row gives it).            *)
(***************************************************************************)
BufferHoldsPrefixes ==
  phase = "fill" =>
    \A r \in DOMAIN states, k \in 1 .. call.size :
      draws[Slot(r, k)] = IF Written(r, k) THEN NthDraw(call, root, r, k) ELSE Zero

(***************************************************************************)
(* No chunk is in two hands: two workers never hold one row, and a row in  *)
(* a worker's hands is no longer to be taken (par_chunks_mut hands each    *)
(* chunk out once).                                                        *)
(***************************************************************************)
ChunksDisjoint ==
  \A v, w \in Workers :
    held[v] # 0 => held[v] \notin todo /\ (held[v] = held[w] => v = w)

(***************************************************************************)
(* A call that answers owes its answer to the arguments alone: row r is    *)
(* the first `size` draws of stream (root, index[r]) under row r's own     *)
(* parameters, or NULL exactly where a parameter is missing.  It is the    *)
(* same under both routes, any worker order, and either fill.              *)
(***************************************************************************)
AnswerIsOwed == phase = "done" => rows = Owed(call, root)

(***************************************************************************)
(* A slot is written once: no draw is ever replaced by another, also when  *)
(* workers race through the fill.                                          *)
(***************************************************************************)
DrawsWrittenOnce ==
  [][phase = "fill" /\ phase' = "fill" =>
       \A s \in DOMAIN draws : draws[s] # Zero => draws'[s] = draws[s]]_vars

-----------------------------------------------------------------------------
(***************************************************************************)
(* What docs/reference/parameters-and-contracts.md says of a 0-row frame:  *)
(* a constant parameterisation, a Python scalar or a length-1 expression,  *)
(* is still checked.  The columns route broadcasts a length-1 parameter to *)
(* the 0 rows first and then checks none of it.                            *)
(***************************************************************************)
ConstantsAlwaysChecked ==
  phase = "done" /\ (\A p \in Params : Len(call.cols[p]) = 1) /\ Present(RowParams(call, 1))
    => DomainHolds(RowParams(call, 1))

(***************************************************************************)
(* The call implements its contract: everything before the last step is a  *)
(* stutter, and the last step raises or returns as SampleContract allows.  *)
(***************************************************************************)
Outcome ==
  [status |-> IF phase \in {"done", "raised"} THEN phase ELSE "pending",
   rows   |-> IF phase = "done" THEN rows ELSE <<>>]

Contract == INSTANCE SampleContract WITH outcome <- Outcome

ImplementsContract == Contract!ContractSpec

-----------------------------------------------------------------------------
(***************************************************************************)
(* The inductive invariant, part by part.                                  *)
(***************************************************************************)

\* Which phases a call passes through.
PhaseOfCall ==
  /\ phase \in {"align", "coerce", "check", "build"} => call.route = "columns"
  /\ phase = "buildOnce" => call.route = "scalar"
  /\ phase \in {"build", "alloc", "fill"} => call.kind = "samples"
  /\ phase = "rows" => call.kind = "sample"

\* The columns the drivers loop over show every row its own parameters and position.
InputsAligned ==
  /\ phase = "align" => cols = call.cols /\ index = call.key
  /\ phase \notin {"align", "raised"} =>
       /\ Height = RowCount(call)
       /\ \A r \in 1 .. Height :
            /\ RowCells(r) = RowParams(call, r)
            /\ RowCells(r) \in [Params -> Values \cup {NULL}]
            /\ index[r] = RowKey(call, r)
  /\ call.route = "scalar" => cols = call.cols

Built == \A r \in CheckedRows(call) : CanBuild(RowParams(call, r))

\* A call that has got this far has passed the checks on the way.
ChecksPassed ==
  /\ phase \notin {"align", "raised"} => Aligned(call)
  /\ phase \notin {"align", "coerce", "raised"} => \A p \in Params : call.numeric[p]
  /\ phase \in {"build", "root", "rows", "alloc", "fill", "done"} =>
       \A r \in CheckedRows(call) : DomainHolds(RowParams(call, r))
  /\ phase \in {"alloc", "fill", "done"} => Built
  /\ phase \in {"root", "rows"} /\ (call.kind = "samples" \/ call.route = "scalar") => Built
  /\ phase \in {"fill", "done"} /\ call.kind = "samples" =>
       RowCount(call) * call.size <= MaxUsize

\* A multi-draw call has every row's draw state before it draws.
StatesBuilt ==
  phase \in {"root", "alloc", "fill"} /\ call.kind = "samples" =>
    states = [r \in 1 .. RowCount(call) |-> StateOf(RowParams(call, r))]

RootResolved == phase \in {"rows", "alloc", "fill", "done"} => root \in RootsOf(call)

\* The answer so far is what is owed.
RowsOwed ==
  /\ phase \notin {"rows", "done", "raised"} => rows = <<>>
  /\ phase = "rows" =>
       /\ Len(rows) <= RowCount(call)
       /\ \A r \in 1 .. Len(rows) :
            rows[r] = OwedRow(call, root, r) /\ CanBuild(RowParams(call, r))
  /\ AnswerIsOwed

PoolIdle == phase # "fill" => held = Idle

\* A worker on a row has read that row's stream once for each slot it has written.
WorkersOnCourse ==
  phase = "fill" =>
    /\ Len(draws) = RowCount(call) * call.size
    /\ todo \subseteq 1 .. RowCount(call)
    /\ \A w \in Workers :
         held[w] # 0 =>
           /\ held[w] \in 1 .. RowCount(call)
           /\ states[held[w]] # NULL
           /\ rng[w] = [root |-> root, index |-> index[held[w]], used |-> slot[w]]
           /\ slot[w] < call.size

IInv ==
  /\ TypeOK /\ PhaseOfCall /\ InputsAligned /\ ChecksPassed /\ StatesBuilt
  /\ RootResolved /\ RowsOwed /\ PoolIdle /\ WorkersOnCourse /\ ChunksDisjoint
  /\ BufferHoldsPrefixes

=============================================================================
