---------------------------- MODULE SamplerProofs ----------------------------
(***************************************************************************)
(* What holds of every sampler call, for every distribution, pool of       *)
(* workers, height, draw count and threshold.  IInv is the inductive       *)
(* invariant; the properties Sampler states are read off it.               *)
(***************************************************************************)
EXTENDS Sampler, TLAPS

-----------------------------------------------------------------------------
(***************************************************************************)
(* Alignment: what align_inputs leaves of a column.                        *)
(***************************************************************************)

\* An aligned call has one row count, and every input has it or length 1.
LEMMA AlignedLengths ==
  ASSUME NEW c, Aligned(c), Len(c.key) \in Nat, \A p \in Params : Len(c.cols[p]) \in Nat
  PROVE  /\ RowCount(c) \in Nat
         /\ Len(c.key) \in {1, RowCount(c)}
         /\ \A p \in Params : Len(c.cols[p]) \in {1, RowCount(c)}
<1>1. Spans(c) \subseteq Nat
  BY DEF Spans
<1>2. CASE Spans(c) = {}
  BY <1>2 DEF Spans, RowCount
<1>3. CASE Spans(c) # {}
  <2>1. RowCount(c) \in Spans(c)
    BY <1>3 DEF RowCount
  <2>2. \A n \in Spans(c) : n = RowCount(c)
    BY <2>1 DEF Aligned
  <2> QED BY <1>1, <2>1, <2>2 DEF Spans
<1> QED BY <1>2, <1>3

\* Broadcasting a length-1 column changes its height and none of its cells.
LEMMA BroadcastKeepsCells ==
  ASSUME NEW S, NEW column \in Seq(S), NEW n \in Nat, Len(column) \in {1, n}
  PROVE  /\ Broadcast(column, n) \in Seq(S)
         /\ Len(Broadcast(column, n)) = n
         /\ \A r \in 1 .. n : /\ Broadcast(column, n)[r] = At(column, r)
                              /\ At(Broadcast(column, n), r) = At(column, r)
                              /\ At(column, r) \in S
<1>1. CASE Len(column) = 1
  BY <1>1 DEF Broadcast, At
<1>2. CASE Len(column) # 1
  BY <1>2 DEF Broadcast, At
<1> QED BY <1>1, <1>2

-----------------------------------------------------------------------------
(***************************************************************************)
(* Arithmetic of the row-major buffer.                                     *)
(***************************************************************************)

\* One more factor is one more addend.
LEMMA MultiplyMonotone ==
  ASSUME NEW a \in Nat, NEW b \in Nat, NEW s \in Nat, a + 1 <= b
  PROVE  a * s + s <= b * s
<1>1. PICK d \in Nat : b = a + 1 + d
  <2>1. b - a - 1 \in Nat OBVIOUS
  <2> QED BY <2>1
<1>2. b * s = a * s + s + d * s
  BY <1>1
<1>3. d * s \in Nat OBVIOUS
<1> QED BY <1>2, <1>3

\* Two rows' chunks have no slot in common, and a chunk has no slot twice.
LEMMA SlotsDisjoint ==
  ASSUME NEW s \in Nat \ {0}, NEW r \in Nat \ {0}, NEW q \in Nat \ {0},
         NEW k \in 1 .. s, NEW l \in 1 .. s,
         (r - 1) * s + k = (q - 1) * s + l
  PROVE  r = q /\ k = l
<1>1. CASE r < q
  <2>1. (r - 1) * s + s <= (q - 1) * s
    BY <1>1, MultiplyMonotone
  <2> QED BY <2>1
<1>2. CASE q < r
  <2>1. (q - 1) * s + s <= (r - 1) * s
    BY <1>2, MultiplyMonotone
  <2> QED BY <2>1
<1>3. CASE r = q
  BY <1>3
<1> QED BY <1>1, <1>2, <1>3

\* A chunk lies inside the buffer.
LEMMA SlotInBuffer ==
  ASSUME NEW s \in Nat \ {0}, NEW h \in Nat, NEW r \in 1 .. h, NEW k \in 1 .. s
  PROVE  (r - 1) * s + k \in 1 .. h * s
<1>1. (r - 1) * s + s <= h * s
  BY MultiplyMonotone
<1>2. (r - 1) * s \in Nat
  OBVIOUS
<1>3. h * s \in Nat
  OBVIOUS
<1> QED BY <1>1, <1>2, <1>3

\* The validity bit of a slot is the bit of the row whose chunk it is in.
LEMMA RowOfSlot ==
  ASSUME NEW s \in Nat \ {0}, NEW n \in Nat, NEW j \in 0 .. s - 1
  PROVE  (n * s + j) \div s = n
<1> DEFINE q == (n * s + j) \div s
           m == (n * s + j) % s
<1>1. n * s \in Nat
  OBVIOUS
<1>2. q \in Nat /\ m \in 0 .. s - 1 /\ n * s + j = s * q + m
  BY <1>1
<1> HIDE DEF q, m
<1>3. CASE q < n
  <2>1. q * s + s <= n * s
    BY <1>2, <1>3, MultiplyMonotone
  <2> QED BY <1>2, <2>1
<1>4. CASE n < q
  <2>1. n * s + s <= q * s
    BY <1>2, <1>4, MultiplyMonotone
  <2> QED BY <1>2, <2>1
<1>5. q = n
  BY <1>2, <1>3, <1>4
<1> QED BY <1>5 DEF q

\* Writing a slot leaves a buffer of the same height.
LEMMA SlotOverwritten ==
  ASSUME NEW S, NEW buffer \in Seq(S), NEW s, NEW v \in S
  PROVE  [buffer EXCEPT ![s] = v] \in Seq(S)
<1>1. Len(buffer) \in Nat /\ buffer \in [1 .. Len(buffer) -> S]
  OBVIOUS
<1>2. [buffer EXCEPT ![s] = v] \in [1 .. Len(buffer) -> S]
  BY <1>1
<1> QED BY <1>1, <1>2

-----------------------------------------------------------------------------
(***************************************************************************)
(* Alignment.                                                              *)
(***************************************************************************)

\* The kwargs of the scalar route are as aligned as the columns become.
LEMMA ScalarAligned ==
  ASSUME NEW c \in CallType, WellFormed(c), c.route = "scalar"
  PROVE  /\ Aligned(c)
         /\ RowCount(c) = Len(c.key)
         /\ \A p \in Params, r \in Nat : At(c.cols[p], r) = c.cols[p][1]
         /\ \A r \in 1 .. Len(c.key) : c.key[r] = At(c.key, r)
         /\ \A r \in Nat : RowParams(c, r) \in [Params -> Values \cup {NULL}]
<1>1. \A p \in Params : Len(c.cols[p]) = 1 /\ c.cols[p][1] \in Values
  BY DEF WellFormed
<1>2. Len(c.key) \in Nat
  BY DEF CallType
<1>3. Spans(c) = {Len(c.key)} \ {1}
  BY <1>1 DEF Spans
<1>4. RowCount(c) = Len(c.key)
  BY <1>3 DEF RowCount
<1>5. Aligned(c)
  BY <1>3 DEF Aligned
<1>6. \A r \in 1 .. Len(c.key) : c.key[r] = At(c.key, r)
  BY <1>2 DEF At
<1> QED BY <1>1, <1>4, <1>5, <1>6 DEF At, RowParams

\* A row with every parameter present is a tuple, and no tuple is NULL.
LEMMA StateOfCells ==
  ASSUME NEW cells \in [Params -> Values \cup {NULL}]
  PROVE  /\ StateOf(cells) \in {NULL} \cup Tuples
         /\ StateOf(cells) # NULL <=> Present(cells)
         /\ Present(cells) => cells \in Tuples /\ StateOf(cells) = cells
BY DomainAssumption DEF StateOf, Present, Tuples

\* What a fresh stream and a draw are.
LEMMA StreamTypes ==
  ASSUME NEW s \in Tuples, NEW x \in Roots, NEW i \in Nat
  PROVE  /\ row_rng(x, i) \in Stream
         /\ \A g \in Stream : draw(s, g) \in Draw /\ Advanced(g) \in Stream
BY DEF row_rng, Stream, draw, Draw, Advanced

-----------------------------------------------------------------------------
(***************************************************************************)
(* The invariant holds initially.                                          *)
(***************************************************************************)
LEMMA InitIInv == Init => IInv
<1> SUFFICES ASSUME Init PROVE IInv
  OBVIOUS
<1>1. call \in CallType /\ WellFormed(call)
  BY CallsAssumption DEF Init
<1>2. NoStream \in Stream
  <2>1. (CHOOSE x \in Roots : TRUE) \in Roots
    BY ConstantsAssumption
  <2> QED BY <2>1 DEF NoStream, row_rng, Stream
<1>3. TypeOK
  BY <1>1, <1>2 DEF Init, TypeOK, Phases, CallType, Idle
<1>4. PhaseOfCall
  BY <1>1 DEF Init, PhaseOfCall, CallType
<1>5. InputsAligned
  <2>1. CASE call.route = "scalar"
    BY <1>1, <2>1, ScalarAligned DEF Init, InputsAligned, Height, RowCells, RowParams, RowKey, CallType
  <2>2. CASE call.route # "scalar"
    BY <2>2 DEF Init, InputsAligned
  <2> QED BY <2>1, <2>2
<1>6. ChecksPassed
  <2>1. CASE call.route = "scalar"
    BY <1>1, <2>1, ScalarAligned DEF Init, ChecksPassed, WellFormed
  <2>2. CASE call.route # "scalar"
    BY <2>2 DEF Init, ChecksPassed
  <2> QED BY <2>1, <2>2
<1>7. StatesBuilt /\ RootResolved /\ WorkersOnCourse /\ BufferHoldsPrefixes
  BY DEF Init, StatesBuilt, RootResolved, WorkersOnCourse, BufferHoldsPrefixes
<1>8. RowsOwed /\ PoolIdle /\ ChunksDisjoint
  BY DEF Init, RowsOwed, PoolIdle, AnswerIsOwed, ChunksDisjoint, Idle
<1> QED BY <1>3, <1>4, <1>5, <1>6, <1>7, <1>8 DEF IInv

-----------------------------------------------------------------------------
(***************************************************************************)
(* Each step preserves the invariant.  Outside the fill the pool is idle   *)
(* and the parts about it hold for want of a fill.                         *)
(***************************************************************************)
PoolParts == PoolIdle /\ WorkersOnCourse /\ ChunksDisjoint /\ BufferHoldsPrefixes

\* A step that leaves the pool alone, from outside the fill to outside it.
LEMMA PoolUntouched ==
  ASSUME IInv, phase # "fill", phase' # "fill", held' = held, todo' = todo
  PROVE  PoolParts'
BY DEF IInv, PoolParts, PoolIdle, WorkersOnCourse, ChunksDisjoint, BufferHoldsPrefixes, Idle

LEMMA AlignStep == IInv /\ Align => IInv'
<1> SUFFICES ASSUME IInv, Align PROVE IInv'
  OBVIOUS
<1> USE DEF Align
<1>1. call \in CallType /\ WellFormed(call) /\ call' = call
  BY DEF IInv, TypeOK
<1>2. cols = call.cols /\ index = call.key /\ call.route = "columns"
  BY <1>1 DEF IInv, InputsAligned, PhaseOfCall
<1>3. PoolParts'
  BY PoolUntouched DEF RaiseError
<1>4. CASE ~ Aligned(call)
  <2>1. UNCHANGED <<cols, index, states, root, draws, todo, held, rng, slot, rows>> /\ phase' = "raised"
    BY <1>4 DEF RaiseError
  <2>2. TypeOK'
    BY <1>1, <2>1 DEF IInv, TypeOK, Phases
  <2>3. (PhaseOfCall /\ InputsAligned /\ ChecksPassed /\ StatesBuilt /\ RootResolved /\ RowsOwed)'
    BY <1>1, <1>2, <2>1 DEF IInv, PhaseOfCall, InputsAligned, ChecksPassed, StatesBuilt,
       RootResolved, RowsOwed, AnswerIsOwed
  <2> QED BY <1>3, <2>2, <2>3 DEF IInv, PoolParts
<1>5. CASE Aligned(call)
  <2> DEFINE n == RowCount(call)
  <2>1. /\ phase' = "coerce"
        /\ cols' = [p \in Params |-> Broadcast(call.cols[p], n)]
        /\ index' = Broadcast(call.key, n)
        /\ UNCHANGED <<states, root, draws, todo, held, rng, slot, rows>>
    BY <1>2, <1>5
  <2>2. n \in Nat /\ Len(call.key) \in {1, n} /\ \A p \in Params : Len(call.cols[p]) \in {1, n}
    BY <1>1, <1>5, AlignedLengths
  <2>3. /\ index' \in Seq(Nat) /\ Len(index') = n
        /\ \A r \in 1 .. n : index'[r] = RowKey(call, r)
    <3>1. call.key \in Seq(Nat)
      BY <1>1 DEF CallType
    <3> HIDE DEF n
    <3>2. /\ Broadcast(call.key, n) \in Seq(Nat) /\ Len(Broadcast(call.key, n)) = n
          /\ \A r \in 1 .. n : Broadcast(call.key, n)[r] = At(call.key, r)
      BY <2>2, <3>1, BroadcastKeepsCells
    <3> QED BY <2>1, <3>2 DEF RowKey
  <2>4. ASSUME NEW p \in Params
        PROVE  /\ cols'[p] \in Seq(Values \cup {NULL})
               /\ \A r \in 1 .. n : /\ At(cols'[p], r) = At(call.cols[p], r)
                                    /\ At(call.cols[p], r) \in Values \cup {NULL}
    <3>1. call.cols[p] \in Seq(Values \cup {NULL})
      BY <1>1 DEF CallType
    <3> QED BY <2>1, <2>2, <3>1, BroadcastKeepsCells
  <2>5. InputsAligned'
    <3>1. Height' = n
      BY <2>3 DEF Height
    <3>2. ASSUME NEW r \in 1 .. n
          PROVE  /\ RowCells(r)' = RowParams(call, r)
                 /\ RowParams(call, r) \in [Params -> Values \cup {NULL}]
      BY <2>4 DEF RowCells, RowParams
    <3> QED BY <1>1, <1>2, <2>1, <2>3, <3>1, <3>2 DEF InputsAligned
  <2>6. TypeOK'
    BY <1>1, <2>1, <2>3, <2>4 DEF IInv, TypeOK, Phases
  <2>7. (PhaseOfCall /\ ChecksPassed /\ StatesBuilt /\ RootResolved /\ RowsOwed)'
    BY <1>1, <1>2, <1>5, <2>1 DEF IInv, PhaseOfCall, ChecksPassed, StatesBuilt, RootResolved,
       RowsOwed, AnswerIsOwed
  <2> QED BY <1>3, <2>5, <2>6, <2>7 DEF IInv, PoolParts
<1> QED BY <1>4, <1>5

\* The steps that only move on or raise: nothing but the phase changes.
LEMMA CheckStep == IInv /\ (Coerce \/ CheckParams) => IInv'
<1> SUFFICES ASSUME IInv, Coerce \/ CheckParams PROVE IInv'
  OBVIOUS
<1> USE DEF Coerce, CheckParams, RaiseError
<1>1. /\ phase \in {"coerce", "check"} /\ phase' \in {"check", "build", "root", "raised"}
      /\ UNCHANGED <<call, cols, index, states, root, draws, todo, held, rng, slot, rows>>
  OBVIOUS
<1>2. call \in CallType /\ call.route = "columns"
  BY <1>1 DEF IInv, TypeOK, PhaseOfCall
<1>3. PoolParts'
  BY <1>1, PoolUntouched
<1>4. TypeOK'
  BY <1>1 DEF IInv, TypeOK, Phases
<1>5. PhaseOfCall'
  BY <1>2, <1>1 DEF IInv, PhaseOfCall, CallType
<1>6. InputsAligned'
  BY <1>1 DEF IInv, InputsAligned, Height, RowCells
<1>7. ChecksPassed'
  <2>1. CASE Coerce
    BY <1>1, <1>2, <2>1 DEF IInv, ChecksPassed
  <2>2. CASE CheckParams
    <3>1. phase' # "raised" => \A r \in CheckedRows(call) : DomainHolds(RowParams(call, r))
      BY <1>2, <2>2 DEF IInv, InputsAligned, ColumnsValid, CheckedRows
    <3>2. phase' = "root" => call.kind # "samples"
      BY <2>2
    <3> QED BY <1>1, <1>2, <2>2, <3>1, <3>2 DEF IInv, ChecksPassed
  <2> QED BY <2>1, <2>2
<1>8. StatesBuilt'
  BY <1>1 DEF IInv, StatesBuilt
<1>9. RootResolved' /\ RowsOwed'
  BY <1>1 DEF IInv, RootResolved, RowsOwed, AnswerIsOwed
<1> QED BY <1>3, <1>4, <1>5, <1>6, <1>7, <1>8, <1>9 DEF IInv, PoolParts

LEMMA BuildStatesStep == IInv /\ BuildStates => IInv'
<1> SUFFICES ASSUME IInv, BuildStates PROVE IInv'
  OBVIOUS
<1> USE DEF BuildStates, RaiseError
<1>1. /\ phase = "build" /\ phase' \in {"root", "raised"}
      /\ UNCHANGED <<call, cols, index, root, draws, todo, held, rng, slot, rows>>
  OBVIOUS
<1>2. /\ call \in CallType /\ call.route = "columns" /\ call.kind = "samples"
      /\ Height = RowCount(call) /\ Height \in Nat
      /\ \A r \in 1 .. Height : /\ RowCells(r) = RowParams(call, r)
                                /\ RowCells(r) \in [Params -> Values \cup {NULL}]
  BY <1>1 DEF IInv, TypeOK, PhaseOfCall, InputsAligned, Height
<1>3. PoolParts'
  BY <1>1, PoolUntouched
<1>4. phase' = "root" =>
        /\ states' = [r \in 1 .. RowCount(call) |-> StateOf(RowParams(call, r))]
        /\ states' \in Seq({NULL} \cup Tuples)
  <2>1. \A r \in 1 .. Height : StateOf(RowCells(r)) \in {NULL} \cup Tuples
    BY <1>2, StateOfCells
  <2> QED BY <1>2, <2>1
<1>5. TypeOK'
  BY <1>1, <1>4 DEF IInv, TypeOK, Phases
<1>6. PhaseOfCall' /\ InputsAligned' /\ RootResolved' /\ RowsOwed'
  BY <1>1, <1>2 DEF IInv, PhaseOfCall, InputsAligned, Height, RowCells, RootResolved, RowsOwed, AnswerIsOwed
<1>7. ChecksPassed'
  <2>1. phase' = "root" => Built
    BY <1>2 DEF Built, CheckedRows
  <2> QED BY <1>1, <2>1 DEF IInv, ChecksPassed, Built
<1>8. StatesBuilt'
  BY <1>1, <1>4 DEF StatesBuilt
<1> QED BY <1>3, <1>5, <1>6, <1>7, <1>8 DEF IInv, PoolParts

LEMMA BuildOnceStep == IInv /\ BuildOnce => IInv'
<1> SUFFICES ASSUME IInv, BuildOnce PROVE IInv'
  OBVIOUS
<1> USE DEF BuildOnce, RaiseError
<1>1. /\ phase = "buildOnce" /\ phase' \in {"root", "raised"}
      /\ UNCHANGED <<call, cols, index, root, draws, todo, held, rng, slot, rows>>
  OBVIOUS
<1>2. /\ call \in CallType /\ WellFormed(call) /\ call.route = "scalar" /\ cols = call.cols
      /\ Height = RowCount(call) /\ Height \in Nat
  BY <1>1 DEF IInv, TypeOK, PhaseOfCall, InputsAligned, Height
<1>3. /\ \A r \in Nat : RowParams(call, r) = RowCells(1)
      /\ RowCells(1) \in [Params -> Values \cup {NULL}]
  BY <1>2, ScalarAligned DEF RowParams, RowCells
<1>4. PoolParts'
  BY <1>1, PoolUntouched
<1>5. phase' = "root" =>
        /\ states' = [r \in 1 .. RowCount(call) |-> StateOf(RowParams(call, r))]
        /\ states' \in Seq({NULL} \cup Tuples)
  <2>1. StateOf(RowCells(1)) \in {NULL} \cup Tuples
    BY <1>3, StateOfCells
  <2>2. phase' = "root" => states' = [r \in 1 .. Height |-> StateOf(RowCells(1))]
    OBVIOUS
  <2> QED BY <1>2, <1>3, <2>1, <2>2
<1>6. TypeOK'
  BY <1>1, <1>5 DEF IInv, TypeOK, Phases
<1>7. PhaseOfCall' /\ InputsAligned' /\ RootResolved' /\ RowsOwed'
  BY <1>1, <1>2 DEF IInv, PhaseOfCall, InputsAligned, Height, RowCells, RootResolved, RowsOwed, AnswerIsOwed
<1>8. ChecksPassed'
  <2>1. phase' = "root" => \A r \in CheckedRows(call) : DomainHolds(RowParams(call, r))
    BY <1>2, <1>3 DEF CheckedRows
  <2>2. phase' = "root" => Built
    BY <1>2, <1>3 DEF Built, CheckedRows
  <2> QED BY <1>1, <2>1, <2>2 DEF IInv, ChecksPassed, Built
<1>9. StatesBuilt'
  BY <1>1, <1>5 DEF StatesBuilt
<1> QED BY <1>4, <1>6, <1>7, <1>8, <1>9 DEF IInv, PoolParts

LEMMA ResolveRootStep == IInv /\ ResolveRoot => IInv'
<1> SUFFICES ASSUME IInv, ResolveRoot PROVE IInv'
  OBVIOUS
<1> USE DEF ResolveRoot, RaiseError
<1>1. /\ phase = "root" /\ phase' \in {"alloc", "rows", "raised"}
      /\ UNCHANGED <<call, cols, index, states, draws, todo, held, rng, slot, rows>>
      /\ phase' # "raised" => root' \in RootsOf(call)
      /\ phase' = "raised" => root' = root
      /\ phase' = "alloc" => call.kind = "samples"
      /\ phase' = "rows" => call.kind # "samples"
  OBVIOUS
<1>2. call \in CallType /\ call.kind \in {"sample", "samples"}
  BY DEF IInv, TypeOK, CallType
<1>3. PoolParts'
  BY <1>1, PoolUntouched
<1>4. RootsOf(call) \subseteq Roots
  BY <1>2 DEF RootsOf, CallType
<1>5. TypeOK'
  BY <1>1, <1>4 DEF IInv, TypeOK, Phases
<1>6. PhaseOfCall' /\ RootResolved' /\ StatesBuilt'
  BY <1>1, <1>2 DEF IInv, PhaseOfCall, RootResolved, StatesBuilt
<1>7. InputsAligned'
  BY <1>1 DEF IInv, InputsAligned, Height, RowCells
<1>8. ChecksPassed'
  BY <1>1 DEF IInv, ChecksPassed, Built
<1>9. RowsOwed'
  <2>1. rows = <<>> /\ Len(rows) = 0 /\ RowCount(call) \in Nat
    BY <1>1 DEF IInv, RowsOwed, InputsAligned, TypeOK, Height
  <2> QED BY <1>1, <2>1 DEF RowsOwed, AnswerIsOwed
<1> QED BY <1>3, <1>5, <1>6, <1>7, <1>8, <1>9 DEF IInv, PoolParts

-----------------------------------------------------------------------------
(***************************************************************************)
(* The single-draw loop.                                                   *)
(***************************************************************************)

\* A row's answer under one draw per row.
LEMMA SingleDraw ==
  ASSUME NEW c \in CallType, WellFormed(c), c.kind = "sample", NEW x, NEW r,
         Present(RowParams(c, r))
  PROVE  OwedRow(c, x, r) = <<draw(RowParams(c, r), row_rng(x, RowKey(c, r)))>>
<1>1. c.size = 1
  BY DEF WellFormed
<1>2. NthDraw(c, x, r, 1) = draw(RowParams(c, r), row_rng(x, RowKey(c, r)))
  BY DEF NthDraw, row_rng
<1>3. OwedRow(c, x, r) = [k \in 1 .. 1 |-> NthDraw(c, x, r, 1)]
  BY <1>1 DEF OwedRow
<1> QED BY <1>2, <1>3

LEMMA SampleRowStep == IInv /\ SampleRow => IInv'
<1> SUFFICES ASSUME IInv, SampleRow PROVE IInv'
  OBVIOUS
<1> USE DEF SampleRow, RaiseError
<1> DEFINE r == NextRow
           cells == RowCells(r)
<1>1. /\ phase = "rows" /\ phase' \in {"rows", "raised"} /\ r <= Height
      /\ UNCHANGED <<call, cols, index, states, root, draws, todo, held, rng, slot>>
  OBVIOUS
<1>2. /\ call \in CallType /\ WellFormed(call) /\ call.kind = "sample"
      /\ Height = RowCount(call) /\ Height \in Nat
      /\ Len(rows) \in Nat /\ r \in 1 .. Height
      /\ root \in Roots
  BY <1>1 DEF IInv, TypeOK, PhaseOfCall, InputsAligned, RootResolved, RootsOf, Height, NextRow, CallType
<1>3. /\ cells = RowParams(call, r) /\ cells \in [Params -> Values \cup {NULL}]
      /\ index[r] = RowKey(call, r) /\ index[r] \in Nat
  BY <1>1, <1>2 DEF IInv, InputsAligned, TypeOK, Height
<1>4. PoolParts'
  BY <1>1, PoolUntouched
<1> DEFINE answer == IF Present(cells) THEN <<draw(cells, row_rng(root, index[r]))>> ELSE NULL
<1>5. answer = OwedRow(call, root, r)
  BY <1>2, <1>3, SingleDraw DEF OwedRow
<1>6. answer \in {NULL} \cup Seq({NULL, Zero} \cup Draw)
  <2>1. CASE Present(cells)
    <3>1. draw(cells, row_rng(root, index[r])) \in Draw
      BY <1>2, <1>3, <2>1, StateOfCells, StreamTypes
    <3> QED BY <2>1, <3>1
  <2>2. CASE ~ Present(cells)
    BY <2>2
  <2> QED BY <2>1, <2>2
<1>7. \/ phase' = "rows" /\ CanBuild(cells) /\ rows' = Append(rows, answer)
      \/ phase' = "raised" /\ rows' = <<>>
  BY <1>1
<1>8. rows' \in Seq({NULL} \cup Seq({NULL, Zero} \cup Draw))
  <2> DEFINE Answers == {NULL} \cup Seq({NULL, Zero} \cup Draw)
  <2>1. rows \in Seq(Answers) /\ answer \in Answers
    BY <1>6 DEF IInv, TypeOK
  <2>2. rows' = Append(rows, answer) \/ rows' = <<>>
    BY <1>7
  <2> HIDE DEF answer, Answers
  <2>3. Append(rows, answer) \in Seq(Answers) /\ <<>> \in Seq(Answers)
    BY <2>1
  <2>4. rows' \in Seq(Answers)
    BY <2>2, <2>3
  <2> QED BY <2>4 DEF Answers
<1>9. TypeOK'
  BY <1>1, <1>8 DEF IInv, TypeOK, Phases
<1>10. PhaseOfCall' /\ RootResolved' /\ StatesBuilt'
  BY <1>1 DEF IInv, PhaseOfCall, RootResolved, StatesBuilt
<1>11. InputsAligned' /\ ChecksPassed'
  BY <1>1 DEF IInv, InputsAligned, Height, RowCells, ChecksPassed, Built
<1>12. RowsOwed'
  <2>1. CASE phase' = "raised"
    BY <2>1 DEF RowsOwed, AnswerIsOwed
  <2>2. CASE phase' = "rows"
    <3> HIDE DEF answer, r, cells
    <3>1. CanBuild(cells) /\ rows' = Append(rows, answer)
      BY <1>7, <2>2
    <3>2. Len(rows') = r /\ rows'[r] = answer /\ \A q \in 1 .. Len(rows) : rows'[q] = rows[q]
      BY <1>2, <3>1 DEF r, NextRow, IInv, TypeOK
    <3>3. ASSUME NEW q \in 1 .. Len(rows')
          PROVE  rows'[q] = OwedRow(call, root, q) /\ CanBuild(RowParams(call, q))
      <4>1. CASE q = r
        BY <1>3, <1>5, <3>1, <3>2, <4>1
      <4>2. CASE q # r
        <5>1. q \in 1 .. Len(rows)
          BY <1>2, <3>2, <4>2 DEF r, NextRow
        <5> QED BY <1>1, <3>2, <5>1 DEF IInv, RowsOwed
      <4> QED BY <4>1, <4>2
    <3> QED BY <1>1, <1>2, <2>2, <3>2, <3>3 DEF RowsOwed, AnswerIsOwed
  <2> QED BY <1>1, <2>1, <2>2
<1> QED BY <1>4, <1>9, <1>10, <1>11, <1>12 DEF IInv, PoolParts

LEMMA CollectRowsStep == IInv /\ CollectRows => IInv'
<1> SUFFICES ASSUME IInv, CollectRows PROVE IInv'
  OBVIOUS
<1> USE DEF CollectRows
<1>1. /\ phase = "rows" /\ phase' = "done" /\ NextRow > Height
      /\ UNCHANGED <<call, cols, index, states, root, draws, todo, held, rng, slot, rows>>
  OBVIOUS
<1>2. /\ call \in CallType /\ call.kind = "sample" /\ Height = RowCount(call)
      /\ Height \in Nat /\ Len(rows) = Height
      /\ \A r \in 1 .. Height :
           rows[r] = OwedRow(call, root, r) /\ CanBuild(RowParams(call, r))
  BY <1>1 DEF IInv, TypeOK, PhaseOfCall, InputsAligned, RowsOwed, Height, NextRow
<1>3. PoolParts'
  BY <1>1, PoolUntouched
<1>4. TypeOK'
  BY <1>1 DEF IInv, TypeOK, Phases
<1>5. PhaseOfCall' /\ RootResolved' /\ StatesBuilt'
  BY <1>1 DEF IInv, PhaseOfCall, RootResolved, StatesBuilt
<1>6. InputsAligned'
  BY <1>1 DEF IInv, InputsAligned, Height, RowCells
<1>7. ChecksPassed'
  <2>1. Built
    <3>1. CASE call.route = "scalar"
      BY <1>1, <3>1 DEF IInv, ChecksPassed
    <3>2. CASE call.route # "scalar"
      BY <1>2, <3>2 DEF Built, CheckedRows
    <3> QED BY <3>1, <3>2
  <2> QED BY <1>1, <1>2, <2>1 DEF IInv, ChecksPassed, Built
<1>8. RowsOwed'
  <2>1. rows = Owed(call, root)
    BY <1>2 DEF Owed, IInv, TypeOK
  <2> QED BY <1>1, <2>1 DEF RowsOwed, AnswerIsOwed
<1> QED BY <1>3, <1>4, <1>5, <1>6, <1>7, <1>8 DEF IInv, PoolParts

-----------------------------------------------------------------------------
(***************************************************************************)
(* The draw buffer: allocation, the workers, and the masked answer.        *)
(***************************************************************************)

\* What the invariant says of a multi-draw call from its allocation on.
LEMMA FillContext ==
  ASSUME IInv, phase \in {"alloc", "fill"}
  PROVE  /\ call \in CallType /\ call.kind = "samples" /\ call.size \in Nat \ {0}
         /\ RowCount(call) \in Nat /\ Height = RowCount(call)
         /\ DOMAIN states = 1 .. RowCount(call) /\ Len(states) = RowCount(call)
         /\ root \in RootsOf(call) /\ root \in Roots
         /\ \A r \in 1 .. RowCount(call) :
              /\ states[r] = StateOf(RowParams(call, r))
              /\ states[r] \in {NULL} \cup Tuples
              /\ states[r] # NULL <=> Present(RowParams(call, r))
              /\ states[r] # NULL => states[r] = RowParams(call, r)
              /\ index[r] = RowKey(call, r) /\ index[r] \in Nat
<1>1. /\ call \in CallType /\ call.kind = "samples" /\ Height = RowCount(call)
      /\ Height \in Nat /\ root \in RootsOf(call)
      /\ states = [r \in 1 .. RowCount(call) |-> StateOf(RowParams(call, r))]
  BY DEF IInv, TypeOK, PhaseOfCall, InputsAligned, RootResolved, StatesBuilt, Height
<1>2. \A r \in 1 .. RowCount(call) :
        /\ RowParams(call, r) \in [Params -> Values \cup {NULL}]
        /\ index[r] = RowKey(call, r) /\ index[r] \in Nat
  BY <1>1 DEF IInv, InputsAligned, TypeOK, Height
<1>3. call.size \in Nat \ {0} /\ RootsOf(call) \subseteq Roots
  BY <1>1 DEF CallType, RootsOf
<1> QED BY <1>1, <1>2, <1>3, StateOfCells

LEMMA AllocDrawsStep == IInv /\ AllocDraws => IInv'
<1> SUFFICES ASSUME IInv, AllocDraws PROVE IInv'
  OBVIOUS
<1> USE DEF AllocDraws, RaiseError
<1>1. /\ phase = "alloc" /\ phase' \in {"fill", "raised"}
      /\ UNCHANGED <<call, cols, index, states, root, held, rng, slot, rows>>
      /\ phase' = "fill" => /\ draws' = [s \in 1 .. DrawCount |-> Zero]
                            /\ todo' = 1 .. Len(states) /\ DrawCount <= MaxUsize
      /\ phase' = "raised" => UNCHANGED <<draws, todo>>
  OBVIOUS
<1> DEFINE h == RowCount(call)
           n == call.size
<1>2. /\ call \in CallType /\ call.kind = "samples" /\ n \in Nat \ {0} /\ h \in Nat
      /\ DOMAIN states = 1 .. h /\ Len(states) = h /\ held = Idle
  BY <1>1, FillContext DEF IInv, PoolIdle
<1>3. DrawCount = h * n /\ DrawCount \in Nat
  BY <1>2 DEF DrawCount
<1>4. TypeOK'
  <2>1. todo' \subseteq Nat /\ phase' \in Phases
    <3>1. CASE phase' = "fill"
      BY <1>1, <1>2, <3>1 DEF Phases
    <3>2. CASE phase' = "raised"
      BY <1>1, <3>2 DEF IInv, TypeOK, Phases
    <3> QED BY <1>1, <3>1, <3>2
  <2>2. draws' \in Seq({Zero} \cup Draw)
    <3> DEFINE Slots == {Zero} \cup Draw
    <3>1. Zero \in Slots /\ draws \in Seq(Slots)
      BY DEF IInv, TypeOK
    <3> HIDE DEF Slots
    <3>2. phase' = "fill" => draws' \in Seq(Slots)
      BY <1>1, <1>3, <3>1
    <3> QED BY <1>1, <3>1, <3>2 DEF Slots
  <2> QED BY <1>1, <2>1, <2>2 DEF IInv, TypeOK
<1>5. PhaseOfCall' /\ RootResolved' /\ StatesBuilt' /\ RowsOwed'
  BY <1>1, <1>2 DEF IInv, PhaseOfCall, RootResolved, StatesBuilt, RowsOwed, AnswerIsOwed
<1>6. InputsAligned'
  BY <1>1 DEF IInv, InputsAligned, Height, RowCells
<1>7. ChecksPassed'
  BY <1>1, <1>3 DEF IInv, ChecksPassed, Built
<1>8. PoolIdle' /\ ChunksDisjoint'
  BY <1>1, <1>2 DEF PoolIdle, ChunksDisjoint, Idle
<1>9. WorkersOnCourse'
  BY <1>1, <1>2, <1>3 DEF WorkersOnCourse, Idle
<1>10. BufferHoldsPrefixes'
  <2> SUFFICES ASSUME phase' = "fill", NEW r \in 1 .. h, NEW k \in 1 .. n
               PROVE  /\ draws'[Slot(r, k)'] = Zero
                      /\ ~ Written(r, k)'
    BY <1>1, <1>2 DEF BufferHoldsPrefixes
  <2>1. Slot(r, k)' \in 1 .. h * n
    BY <1>1, <1>2, SlotInBuffer DEF Slot
  <2> QED BY <1>1, <1>2, <1>3, <2>1 DEF Written
<1> QED BY <1>4, <1>5, <1>6, <1>7, <1>8, <1>9, <1>10 DEF IInv

\* What neither a claim nor a draw touches.
LEMMA FillLeavesAlone ==
  ASSUME IInv, phase = "fill", UNCHANGED <<call, phase, cols, index, states, root, rows>>
  PROVE  /\ PhaseOfCall' /\ RootResolved' /\ StatesBuilt' /\ RowsOwed'
         /\ InputsAligned' /\ ChecksPassed' /\ PoolIdle'
<1>1. PhaseOfCall' /\ RootResolved' /\ StatesBuilt' /\ RowsOwed' /\ PoolIdle'
  BY DEF IInv, PhaseOfCall, RootResolved, StatesBuilt, RowsOwed, AnswerIsOwed, PoolIdle
<1>2. InputsAligned' /\ ChecksPassed'
  BY DEF IInv, InputsAligned, Height, RowCells, ChecksPassed, Built
<1> QED BY <1>1, <1>2

LEMMA ClaimRowStep ==
  ASSUME IInv, NEW w \in Workers, NEW r \in todo, ClaimRow(w, r)
  PROVE  IInv'
<1> DEFINE h == RowCount(call)
           n == call.size
<1>1. /\ phase = "fill" /\ held[w] = 0 /\ todo' = todo \ {r}
      /\ UNCHANGED <<call, phase, cols, index, states, root, draws, rows>>
      /\ states[r] = NULL => held' = held /\ rng' = rng /\ slot' = slot
      /\ states[r] # NULL => /\ held' = [held EXCEPT ![w] = r]
                             /\ rng' = [rng EXCEPT ![w] = row_rng(root, index[r])]
                             /\ slot' = [slot EXCEPT ![w] = 0]
  BY DEF ClaimRow
<1>2. /\ n \in Nat \ {0} /\ h \in Nat /\ DOMAIN states = 1 .. h /\ root \in Roots
      /\ \A q \in 1 .. h : index[q] \in Nat
  BY <1>1, FillContext
<1>3. /\ todo \subseteq 1 .. h /\ r \in 1 .. h
      /\ held \in [Workers -> Nat] /\ rng \in [Workers -> Stream] /\ slot \in [Workers -> Nat]
  BY <1>1 DEF IInv, WorkersOnCourse, TypeOK
<1>4. row_rng(root, index[r]) \in Stream
  BY <1>2, <1>3 DEF row_rng, Stream
<1>5. TypeOK'
  BY <1>1, <1>3, <1>4 DEF IInv, TypeOK
<1>6. /\ PhaseOfCall' /\ RootResolved' /\ StatesBuilt' /\ RowsOwed'
      /\ InputsAligned' /\ ChecksPassed' /\ PoolIdle'
  BY <1>1, FillLeavesAlone
<1>7. WorkersOnCourse'
  <2>1. ASSUME NEW v \in Workers, held'[v] # 0
        PROVE  /\ held'[v] \in 1 .. h /\ states[held'[v]] # NULL
               /\ rng'[v] = [root |-> root, index |-> index[held'[v]], used |-> slot'[v]]
               /\ slot'[v] < n
    <3>1. CASE v = w /\ states[r] # NULL
      BY <1>1, <1>2, <1>3, <3>1 DEF row_rng
    <3>2. CASE ~ (v = w /\ states[r] # NULL)
      <4>1. held'[v] = held[v] /\ rng'[v] = rng[v] /\ slot'[v] = slot[v]
        BY <1>1, <1>3, <3>2
      <4> QED BY <1>1, <2>1, <4>1 DEF IInv, WorkersOnCourse
    <3> QED BY <3>1, <3>2
  <2>2. Len(draws) = h * n
    BY <1>1 DEF IInv, WorkersOnCourse
  <2> QED BY <1>1, <1>3, <2>1, <2>2 DEF WorkersOnCourse
<1>8. ChunksDisjoint'
  <2>1. \A v \in Workers : held'[v] = held[v] \/ (v = w /\ held'[v] = r)
    BY <1>1, <1>3
  <2>2. r \in todo /\ todo' = todo \ {r} /\ r # 0
    BY <1>1, <1>3
  <2> QED BY <2>1, <2>2 DEF IInv, ChunksDisjoint
<1>9. BufferHoldsPrefixes'
  <2> SUFFICES ASSUME NEW q \in 1 .. h, NEW k \in 1 .. n
               PROVE  draws[Slot(q, k)]
                        = IF Written(q, k)' THEN NthDraw(call, root, q, k) ELSE Zero
    BY <1>1, <1>2 DEF BufferHoldsPrefixes, Slot
  <2>1. draws[Slot(q, k)] = IF Written(q, k) THEN NthDraw(call, root, q, k) ELSE Zero
    BY <1>1, <1>2 DEF IInv, BufferHoldsPrefixes
  <2>2. Written(q, k)' <=> Written(q, k)
    <3>1. CASE q = r /\ states[r] # NULL
      <4>1. ~ Written(q, k)
        BY <3>1 DEF Written
      <4>2. held'[w] = q /\ slot'[w] = 0
        BY <1>1, <1>3, <3>1
      <4> QED BY <1>2, <4>1, <4>2 DEF Written
    <3>2. CASE q = r /\ states[r] = NULL
      BY <1>1, <3>2 DEF Written
    <3>3. CASE q # r
      <4>1. \A v \in Workers : held'[v] = q <=> held[v] = q
        BY <1>1, <1>3, <3>3
      <4>2. \A v \in Workers : held[v] = q => slot'[v] = slot[v]
        BY <1>1, <1>3, <3>3
      <4> QED BY <1>1, <3>3, <4>1, <4>2 DEF Written
    <3> QED BY <3>1, <3>2, <3>3
  <2> QED BY <2>1, <2>2
<1> QED BY <1>5, <1>6, <1>7, <1>8, <1>9 DEF IInv

LEMMA DrawSlotStep ==
  ASSUME IInv, NEW w \in Workers, DrawSlot(w)
  PROVE  IInv' /\ \A s \in DOMAIN draws : draws[s] # Zero => draws'[s] = draws[s]
<1> DEFINE h == RowCount(call)
           n == call.size
           r == held[w]
           u == slot[w]
           value == draw(states[r], rng[w])
<1>1. /\ phase = "fill" /\ r # 0
      /\ UNCHANGED <<call, phase, cols, index, states, root, todo, rows>>
      /\ draws' = [draws EXCEPT ![Slot(r, u + 1)] = value]
      /\ rng' = [rng EXCEPT ![w] = Advanced(@)]
      /\ slot' = [slot EXCEPT ![w] = u + 1]
      /\ held' = [held EXCEPT ![w] = IF u + 1 = n THEN 0 ELSE @]
  BY DEF DrawSlot
<1>2. /\ n \in Nat \ {0} /\ h \in Nat /\ DOMAIN states = 1 .. h /\ root \in Roots
      /\ \A q \in 1 .. h : /\ states[q] \in {NULL} \cup Tuples
                           /\ states[q] # NULL => states[q] = RowParams(call, q)
                           /\ index[q] = RowKey(call, q)
  BY <1>1, FillContext
<1>3. /\ held \in [Workers -> Nat] /\ rng \in [Workers -> Stream] /\ slot \in [Workers -> Nat]
      /\ draws \in Seq({Zero} \cup Draw) /\ Len(draws) = h * n
      /\ r \in 1 .. h /\ states[r] # NULL /\ u \in Nat /\ u < n /\ r \notin todo
      /\ rng[w] = [root |-> root, index |-> RowKey(call, r), used |-> u]
  BY <1>1, <1>2 DEF IInv, WorkersOnCourse, ChunksDisjoint, TypeOK, Stream
<1>4. value \in Draw /\ value = NthDraw(call, root, r, u + 1) /\ value # Zero
  <2>1. value \in Draw
    BY <1>2, <1>3, StreamTypes
  <2>2. value = NthDraw(call, root, r, u + 1)
    BY <1>2, <1>3 DEF NthDraw, draw
  <2> QED BY <2>1, <2>2, WorkersAssumption
<1>5. /\ rng'[w] = [rng[w] EXCEPT !.used = u + 1] /\ slot'[w] = u + 1
      /\ \A v \in Workers : v # w => rng'[v] = rng[v] /\ slot'[v] = slot[v] /\ held'[v] = held[v]
      /\ held'[w] = (IF u + 1 = n THEN 0 ELSE r)
  BY <1>1, <1>3 DEF Advanced, Stream
<1> HIDE DEF value
<1>6. TypeOK'
  <2>1. draws' \in Seq({Zero} \cup Draw)
    <3> DEFINE Slots == {Zero} \cup Draw
    <3>1. value \in Slots /\ draws \in Seq(Slots)
      BY <1>3, <1>4
    <3> HIDE DEF Slots
    <3>2. draws' \in Seq(Slots)
      BY <1>1, <3>1, SlotOverwritten
    <3> QED BY <3>2 DEF Slots
  <2>2. rng' \in [Workers -> Stream] /\ held' \in [Workers -> Nat] /\ slot' \in [Workers -> Nat]
    <3>1. Advanced(rng[w]) \in Stream
      BY <1>2, <1>3, StreamTypes
    <3>2. rng' \in [Workers -> Stream]
      BY <1>1, <1>3, <3>1
    <3>3. held' \in [Workers -> Nat] /\ slot' \in [Workers -> Nat]
      BY <1>1, <1>3
    <3> QED BY <3>2, <3>3
  <2> QED BY <1>1, <2>1, <2>2 DEF IInv, TypeOK
<1>7. /\ PhaseOfCall' /\ RootResolved' /\ StatesBuilt' /\ RowsOwed'
      /\ InputsAligned' /\ ChecksPassed' /\ PoolIdle'
  BY <1>1, FillLeavesAlone
<1>8. WorkersOnCourse'
  <2>1. ASSUME NEW v \in Workers, held'[v] # 0
        PROVE  /\ held'[v] \in 1 .. h /\ states[held'[v]] # NULL
               /\ rng'[v] = [root |-> root, index |-> index[held'[v]], used |-> slot'[v]]
               /\ slot'[v] < n
    <3>1. CASE v = w
      <4>1. u + 1 # n /\ held'[v] = r
        BY <1>5, <2>1, <3>1
      <4>2. u + 1 < n
        BY <1>2, <1>3, <4>1
      <4>3. rng'[v] = [root |-> root, index |-> index[r], used |-> u + 1]
        BY <1>2, <1>3, <1>5, <3>1
      <4>4. slot'[v] = u + 1
        BY <1>5, <3>1
      <4> QED BY <1>3, <4>1, <4>2, <4>3, <4>4
    <3>2. CASE v # w
      BY <1>1, <1>5, <2>1, <3>2 DEF IInv, WorkersOnCourse
    <3> QED BY <3>1, <3>2
  <2>2. Len(draws') = h * n
    BY <1>1, <1>3
  <2> QED BY <1>1, <2>1, <2>2 DEF IInv, WorkersOnCourse
<1>9. ChunksDisjoint'
  BY <1>1, <1>3, <1>5 DEF IInv, ChunksDisjoint
<1>10. ASSUME NEW q \in 1 .. h, NEW k \in 1 .. n
       PROVE  /\ Slot(q, k) \in DOMAIN draws
              /\ Slot(q, k) = Slot(r, u + 1) => q = r /\ k = u + 1
  <2>1. Slot(q, k) \in 1 .. h * n
    BY <1>2, SlotInBuffer DEF Slot
  <2>2. Slot(q, k) = Slot(r, u + 1) => q = r /\ k = u + 1
    <3>1. u + 1 \in 1 .. n /\ q \in Nat \ {0} /\ r \in Nat \ {0} /\ n \in Nat \ {0}
      BY <1>2, <1>3
    <3>2. Slot(q, k) = (q - 1) * n + k /\ Slot(r, u + 1) = (r - 1) * n + (u + 1)
      BY DEF Slot
    <3> DEFINE l == u + 1
    <3> HIDE DEF n, r, l
    <3>3. l \in 1 .. n /\ k \in 1 .. n
      BY <3>1 DEF l, n
    <3>4. (q - 1) * n + k = (r - 1) * n + l => q = r /\ k = l
      BY <3>1, <3>3, SlotsDisjoint
    <3> QED BY <3>2, <3>4 DEF l, n
  <2> QED BY <1>3, <2>1, <2>2
<1>11. draws[Slot(r, u + 1)] = Zero /\ Slot(r, u + 1) \in DOMAIN draws
  <2>1. u + 1 \in 1 .. n /\ ~ Written(r, u + 1)
    BY <1>2, <1>3 DEF Written
  <2> QED BY <1>1, <1>2, <1>3, <1>10, <2>1 DEF IInv, BufferHoldsPrefixes
<1>12. BufferHoldsPrefixes'
  <2> SUFFICES ASSUME NEW q \in 1 .. h, NEW k \in 1 .. n
               PROVE  draws'[Slot(q, k)]
                        = IF Written(q, k)' THEN NthDraw(call, root, q, k) ELSE Zero
    BY <1>1, <1>2 DEF BufferHoldsPrefixes, Slot
  <2>1. draws[Slot(q, k)] = IF Written(q, k) THEN NthDraw(call, root, q, k) ELSE Zero
    BY <1>1, <1>2 DEF IInv, BufferHoldsPrefixes
  <2>2. \A v \in Workers : v # w => held[v] # r
    BY <1>1, <1>3 DEF IInv, ChunksDisjoint
  <2>3. CASE q = r /\ k = u + 1
    <3>1. Written(q, k)'
      BY <1>1, <1>3, <1>5, <2>2, <2>3 DEF Written
    <3>2. draws'[Slot(q, k)] = value
      BY <1>1, <1>11, <2>3
    <3> QED BY <1>4, <2>3, <3>1, <3>2
  <2>4. CASE ~ (q = r /\ k = u + 1)
    <3>1. draws'[Slot(q, k)] = draws[Slot(q, k)]
      BY <1>1, <1>10, <2>4
    <3>2. Written(q, k)' <=> Written(q, k)
      <4>1. CASE q = r
        <5>1. Written(q, k) <=> k <= u
          BY <1>3, <2>2, <4>1 DEF Written
        <5>2. k <= u <=> k <= u + 1
          BY <1>2, <1>3, <2>4, <4>1
        <5>3. CASE u + 1 = n
          <6>1. \A v \in Workers : held'[v] # r
            <7>1. held'[w] = 0 /\ r # 0
              BY <1>1, <1>5, <5>3
            <7>2. \A v \in Workers : v # w => held'[v] = held[v]
              BY <1>5
            <7> QED BY <2>2, <7>1, <7>2
          <6>2. k <= u + 1
            BY <5>3
          <6> QED BY <1>1, <1>3, <4>1, <5>1, <5>2, <6>1, <6>2 DEF Written
        <5>4. CASE u + 1 # n
          <6>1. Written(q, k)' <=> k <= u + 1
            BY <1>1, <1>3, <1>5, <2>2, <4>1, <5>4 DEF Written
          <6> QED BY <5>1, <5>2, <6>1
        <5> QED BY <5>3, <5>4
      <4>2. CASE q # r
        <5>1. q # 0
          OBVIOUS
        <5>2. \A v \in Workers : (held'[v] = q <=> held[v] = q) /\ (held[v] = q => slot'[v] = slot[v])
          BY <1>3, <1>5, <4>2, <5>1
        <5> QED BY <1>1, <5>2 DEF Written
      <4> QED BY <4>1, <4>2
    <3> QED BY <2>1, <3>1, <3>2
  <2> QED BY <2>3, <2>4
<1>13. \A s \in DOMAIN draws : draws[s] # Zero => draws'[s] = draws[s]
  BY <1>1, <1>11
<1> QED BY <1>6, <1>7, <1>8, <1>9, <1>12, <1>13 DEF IInv

LEMMA MaskRowsStep == IInv /\ MaskRows => IInv'
<1> SUFFICES ASSUME IInv, MaskRows PROVE IInv'
  OBVIOUS
<1> DEFINE h == RowCount(call)
           n == call.size
<1>1. /\ phase = "fill" /\ phase' = "done" /\ todo = {} /\ held = Idle /\ rows' = MaskedRows
      /\ UNCHANGED <<call, cols, index, states, root, draws, todo, held, rng, slot>>
  BY DEF MaskRows, Filled
<1>2. /\ call \in CallType /\ call.kind = "samples" /\ n \in Nat \ {0} /\ h \in Nat
      /\ DOMAIN states = 1 .. h /\ root \in Roots
      /\ \A q \in 1 .. h : states[q] # NULL <=> Present(RowParams(call, q))
  BY <1>1, FillContext
<1>3. Len(draws) = h * n /\ draws \in Seq({Zero} \cup Draw)
  BY <1>1 DEF IInv, WorkersOnCourse, TypeOK
<1>4. ASSUME NEW r \in 1 .. h, NEW k \in 1 .. n, states[r] # NULL
      PROVE  /\ InnerValidity[Slot(r, k)]
             /\ draws[Slot(r, k)] = NthDraw(call, root, r, k)
             /\ draws[Slot(r, k)] \in {Zero} \cup Draw
  <2>1. Slot(r, k) \in DOMAIN draws
    <3>1. Slot(r, k) \in 1 .. h * n
      BY <1>2, SlotInBuffer DEF Slot
    <3> QED BY <1>3, <3>1
  <2>2. RowOf(Slot(r, k)) = r
    <3>1. r - 1 \in Nat /\ k - 1 \in 0 .. n - 1 /\ Slot(r, k) - 1 = (r - 1) * n + (k - 1)
      BY <1>2 DEF Slot
    <3>2. ((r - 1) * n + (k - 1)) \div n = r - 1
      BY <1>2, <3>1, RowOfSlot
    <3> QED BY <1>2, <3>1, <3>2 DEF RowOf
  <2>3. Written(r, k)
    BY <1>1, <1>4 DEF Written, Idle
  <2>4. InnerValidity[Slot(r, k)]
    BY <1>4, <2>1, <2>2 DEF InnerValidity
  <2>5. draws[Slot(r, k)] = NthDraw(call, root, r, k)
    BY <1>1, <1>2, <2>3 DEF IInv, BufferHoldsPrefixes
  <2>6. draws[Slot(r, k)] \in {Zero} \cup Draw
    BY <1>3, <2>1
  <2> QED BY <2>4, <2>5, <2>6
<1>5. ASSUME NEW r \in 1 .. h
      PROVE  /\ MaskedRows[r] = OwedRow(call, root, r)
             /\ MaskedRows[r] \in {NULL} \cup Seq({NULL, Zero} \cup Draw)
  <2>1. CASE states[r] = NULL
    BY <1>2, <2>1 DEF MaskedRows, OuterValidity, OwedRow
  <2>2. CASE states[r] # NULL
    <3>1. MaskedRows[r] = [k \in 1 .. n |-> draws[Slot(r, k)]]
      BY <1>2, <1>4, <2>2 DEF MaskedRows, OuterValidity
    <3>2. OwedRow(call, root, r) = [k \in 1 .. n |-> NthDraw(call, root, r, k)]
      BY <1>2, <2>2 DEF OwedRow
    <3>3. [k \in 1 .. n |-> draws[Slot(r, k)]] \in Seq({NULL, Zero} \cup Draw)
      BY <1>2, <1>4, <2>2
    <3> QED BY <1>4, <2>2, <3>1, <3>2, <3>3
  <2> QED BY <2>1, <2>2
<1>6. rows' = Owed(call, root) /\ rows' \in Seq({NULL} \cup Seq({NULL, Zero} \cup Draw))
  <2>1. MaskedRows = [r \in 1 .. h |-> MaskedRows[r]]
    BY <1>2 DEF MaskedRows
  <2> DEFINE Answers == {NULL} \cup Seq({NULL, Zero} \cup Draw)
  <2>2. \A r \in 1 .. h : MaskedRows[r] = OwedRow(call, root, r) /\ MaskedRows[r] \in Answers
    BY <1>5
  <2> HIDE DEF Answers
  <2>3. MaskedRows \in Seq(Answers)
    BY <1>2, <2>1, <2>2
  <2>4. MaskedRows = Owed(call, root)
    BY <2>1, <2>2 DEF Owed
  <2> QED BY <1>1, <2>3, <2>4 DEF Answers
<1>7. TypeOK'
  BY <1>1, <1>6 DEF IInv, TypeOK, Phases
<1>8. PhaseOfCall' /\ RootResolved' /\ StatesBuilt'
  BY <1>1 DEF IInv, PhaseOfCall, RootResolved, StatesBuilt
<1>9. InputsAligned' /\ ChecksPassed'
  BY <1>1 DEF IInv, InputsAligned, Height, RowCells, ChecksPassed, Built
<1>10. RowsOwed'
  BY <1>1, <1>6 DEF RowsOwed, AnswerIsOwed
<1>11. PoolIdle' /\ WorkersOnCourse' /\ ChunksDisjoint' /\ BufferHoldsPrefixes'
  BY <1>1 DEF PoolIdle, WorkersOnCourse, ChunksDisjoint, BufferHoldsPrefixes, Idle
<1> QED BY <1>7, <1>8, <1>9, <1>10, <1>11 DEF IInv

-----------------------------------------------------------------------------
(***************************************************************************)
(* The theorems.                                                           *)
(***************************************************************************)

\* Every step, and every stutter, preserves the invariant.
LEMMA NextIInv == IInv /\ [Next]_vars => IInv'
<1> SUFFICES ASSUME IInv, [Next]_vars PROVE IInv'
  OBVIOUS
<1>1. CASE Align \/ Coerce \/ CheckParams
  BY <1>1, AlignStep, CheckStep
<1>2. CASE BuildStates \/ BuildOnce \/ ResolveRoot
  BY <1>2, BuildStatesStep, BuildOnceStep, ResolveRootStep
<1>3. CASE SampleRow \/ CollectRows
  BY <1>3, SampleRowStep, CollectRowsStep
<1>4. CASE AllocDraws \/ MaskRows
  BY <1>4, AllocDrawsStep, MaskRowsStep
<1>5. CASE Fill
  <2>1. PICK w \in Workers : DrawSlot(w) \/ \E r \in todo : ClaimRow(w, r)
    BY <1>5 DEF Fill
  <2> QED BY <2>1, DrawSlotStep, ClaimRowStep
<1>6. CASE Finished \/ UNCHANGED vars
  <2>1. UNCHANGED vars
    BY <1>6 DEF Finished
  <2>2. /\ TypeOK' /\ PhaseOfCall' /\ InputsAligned' /\ ChecksPassed' /\ StatesBuilt'
        /\ RootResolved' /\ RowsOwed'
    BY <2>1 DEF vars, IInv, TypeOK, PhaseOfCall, InputsAligned, Height, RowCells, ChecksPassed,
       Built, StatesBuilt, RootResolved, RowsOwed, AnswerIsOwed
  <2>3. PoolIdle' /\ WorkersOnCourse' /\ ChunksDisjoint' /\ BufferHoldsPrefixes'
    BY <2>1 DEF vars, IInv, PoolIdle, WorkersOnCourse, ChunksDisjoint, BufferHoldsPrefixes,
       Slot, Written, Idle
  <2> QED BY <2>2, <2>3 DEF IInv
<1> QED BY <1>1, <1>2, <1>3, <1>4, <1>5, <1>6 DEF Next

(***************************************************************************)
(* The inductive invariant holds in every reachable state of a call.       *)
(***************************************************************************)
THEOREM InductiveInvariant == Spec => []IInv
BY InitIInv, NextIInv, PTL DEF Spec

(***************************************************************************)
(* Every variable of a sampler call has its type: the buffer holds zeroes  *)
(* and draws only, a stream is one of the call's, an answer one per row.   *)
(***************************************************************************)
THEOREM TypeCorrect == Spec => []TypeOK
<1>1. IInv => TypeOK
  BY DEF IInv
<1> QED BY <1>1, InductiveInvariant, PTL

(***************************************************************************)
(* While the rayon workers of fill_rows are at work, each row's chunk is a *)
(* prefix of what the row owes and zeroes after it, a null row's all zero. *)
(***************************************************************************)
THEOREM PrefixesInBuffer == Spec => []BufferHoldsPrefixes
<1>1. IInv => BufferHoldsPrefixes
  BY DEF IInv
<1> QED BY <1>1, InductiveInvariant, PTL

(***************************************************************************)
(* No chunk of the draw buffer is ever in two workers' hands.              *)
(***************************************************************************)
THEOREM ChunksNeverShared == Spec => []ChunksDisjoint
<1>1. IInv => ChunksDisjoint
  BY DEF IInv
<1> QED BY <1>1, InductiveInvariant, PTL

(***************************************************************************)
(* What sample and samples return is a function of the arguments and the   *)
(* root seed: worker order, serial or parallel fill, and route never show. *)
(***************************************************************************)
THEOREM AnswerDetermined == Spec => []AnswerIsOwed
<1>1. IInv => AnswerIsOwed
  BY DEF IInv, RowsOwed
<1> QED BY <1>1, InductiveInvariant, PTL

(***************************************************************************)
(* No draw in the buffer is ever replaced by another.                      *)
(***************************************************************************)
THEOREM DrawsNeverReplaced == Spec => DrawsWrittenOnce
<1> DEFINE Kept == phase = "fill" /\ phase' = "fill" =>
                     \A s \in DOMAIN draws : draws[s] # Zero => draws'[s] = draws[s]
<1>1. IInv /\ [Next]_vars => Kept
  <2> SUFFICES ASSUME IInv, [Next]_vars, phase = "fill", phase' = "fill"
               PROVE  \A s \in DOMAIN draws : draws[s] # Zero => draws'[s] = draws[s]
    OBVIOUS
  <2>1. CASE \E w \in Workers : DrawSlot(w)
    BY <2>1, DrawSlotStep
  <2>2. CASE \E w \in Workers : \E r \in todo : ClaimRow(w, r)
    BY <2>2 DEF ClaimRow
  <2>3. CASE UNCHANGED vars
    BY <2>3 DEF vars
  <2>4. ~ (Align \/ Coerce \/ CheckParams \/ BuildStates \/ BuildOnce \/ ResolveRoot)
    BY DEF Align, Coerce, CheckParams, BuildStates, BuildOnce, ResolveRoot
  <2>5. ~ (SampleRow \/ CollectRows \/ AllocDraws \/ MaskRows \/ Finished)
    BY DEF SampleRow, CollectRows, AllocDraws, MaskRows, Finished
  <2> QED BY <2>1, <2>2, <2>3, <2>4, <2>5 DEF Next, Fill
<1> QED BY <1>1, InductiveInvariant, PTL DEF DrawsWrittenOnce, Spec

-----------------------------------------------------------------------------
(***************************************************************************)
(* The stepwise call implements the one-step contract.  Every step but the *)
(* last is a stutter of the contract; the invariant says why the last one  *)
(* is allowed: a call that raises had cause to, and one that answers had   *)
(* passed every check on the way.                                          *)
(***************************************************************************)

\* The contract speaks of the same calls, rows and checks.
LEMMA SameWords ==
  /\ Contract!CallType = CallType
  /\ \A c, r : Contract!RowParams(c, r) = RowParams(c, r)
  /\ \A c, x : Contract!Owed(c, x) = Owed(c, x)
  /\ \A c : /\ Contract!WellFormed(c) <=> WellFormed(c)
            /\ Contract!Aligned(c) <=> Aligned(c)
            /\ Contract!RowCount(c) = RowCount(c)
            /\ Contract!CheckedRows(c) = CheckedRows(c)
            /\ Contract!RootsOf(c) = RootsOf(c)
            /\ Contract!MustRaise(c) <=> MustRaise(c)
            /\ Contract!MayRaise(c) <=> MayRaise(c)
<1>1. \A c : Contract!Spans(c) = Spans(c)
  BY DEF Contract!Spans, Spans
<1>2. \A c : Contract!RowCount(c) = RowCount(c)
  BY DEF Contract!RowCount, RowCount, Contract!Spans, Spans
<1>3. \A column, r : Contract!At(column, r) = At(column, r)
  BY DEF Contract!At, At
<1>4. \A c, r : /\ Contract!RowParams(c, r) = RowParams(c, r)
                /\ Contract!RowKey(c, r) = RowKey(c, r)
  BY <1>3 DEF Contract!RowParams, RowParams, Contract!RowKey, RowKey
<1>5. \A cells : Contract!Present(cells) <=> Present(cells)
  BY DEF Contract!Present, Present
<1>6. \A c : /\ Contract!DomainHolds(c) <=> DomainHolds(c)
             /\ Contract!CanBuild(c) <=> CanBuild(c)
  BY <1>5 DEF Contract!DomainHolds, DomainHolds, Contract!OwnRuleHolds, OwnRuleHolds,
     Contract!JointRuleHolds, JointRuleHolds, Contract!CanBuild, CanBuild
<1>7. \A c, x, r, k : Contract!NthDraw(c, x, r, k) = NthDraw(c, x, r, k)
  BY <1>4 DEF Contract!NthDraw, NthDraw, Contract!draw, draw
<1>8. \A c, x, r : Contract!OwedRow(c, x, r) = OwedRow(c, x, r)
  BY <1>4, <1>5, <1>7 DEF Contract!OwedRow, OwedRow
<1>9. \A c, x : Contract!Owed(c, x) = Owed(c, x)
  BY <1>2, <1>8 DEF Contract!Owed, Owed
<1>10. Contract!CallType = CallType
  BY DEF Contract!CallType, CallType
<1>11. \A c : /\ Contract!WellFormed(c) <=> WellFormed(c)
              /\ Contract!Aligned(c) <=> Aligned(c)
              /\ Contract!CheckedRows(c) = CheckedRows(c)
              /\ Contract!RootsOf(c) = RootsOf(c)
  BY <1>1, <1>2 DEF Contract!WellFormed, WellFormed, Contract!Aligned, Aligned,
     Contract!CheckedRows, CheckedRows, Contract!RootsOf, RootsOf
<1>12. \A c : /\ Contract!MustRaise(c) <=> MustRaise(c)
              /\ Contract!MayRaise(c) <=> MayRaise(c)
  BY <1>2, <1>4, <1>6, <1>11 DEF Contract!MustRaise, MustRaise, Contract!Invalid, Invalid,
     Contract!TooLarge, TooLarge, Contract!MayRaise, MayRaise
<1> QED BY <1>4, <1>9, <1>10, <1>11, <1>12, <1>2

\* A step that raises has cause to.
LEMMA RaiseHasCause ==
  ASSUME IInv, Next, phase \notin {"done", "raised"}, phase' = "raised"
  PROVE  Contract!MustRaise(call) \/ Contract!MayRaise(call)
<1> USE DEF RaiseError
<1>1. call \in CallType /\ WellFormed(call)
  BY DEF IInv, TypeOK
<1>2. ASSUME \/ ~ Aligned(call)
             \/ \E p \in Params : ~ call.numeric[p]
             \/ \E r \in CheckedRows(call) : ~ DomainHolds(RowParams(call, r))
             \/ \E r \in CheckedRows(call) : ~ CanBuild(RowParams(call, r))
             \/ call.kind = "samples" /\ RowCount(call) * call.size > MaxUsize
      PROVE  Contract!MustRaise(call)
  BY <1>2, SameWords DEF MustRaise, Invalid, TooLarge
<1>3. ASSUME \/ call.seed = NoSeed
             \/ call.kind = "samples" /\ RowCount(call) > 0
      PROVE  Contract!MayRaise(call)
  BY <1>3, SameWords DEF MayRaise
<1>4. phase \notin {"align", "raised"} =>
        /\ Height = RowCount(call)
        /\ \A r \in 1 .. Height : RowCells(r) = RowParams(call, r)
  BY DEF IInv, InputsAligned
<1>5. CASE Align \/ Coerce
  BY <1>2, <1>5 DEF Align, Coerce
<1>6. CASE CheckParams
  <2>1. PICK r \in 1 .. RowCount(call) : ~ DomainHolds(RowParams(call, r))
    BY <1>4, <1>6 DEF CheckParams, ColumnsValid
  <2>2. r \in CheckedRows(call)
    BY <1>6 DEF CheckParams, IInv, PhaseOfCall, CheckedRows
  <2> QED BY <1>2, <2>1, <2>2
<1>7. CASE BuildStates
  <2>1. PICK r \in 1 .. RowCount(call) : ~ CanBuild(RowParams(call, r))
    BY <1>4, <1>7 DEF BuildStates
  <2>2. r \in CheckedRows(call)
    BY <1>7 DEF BuildStates, IInv, PhaseOfCall, CheckedRows
  <2> QED BY <1>2, <2>1, <2>2
<1>8. CASE BuildOnce
  <2>1. call.route = "scalar" /\ cols = call.cols
    BY <1>8 DEF BuildOnce, IInv, PhaseOfCall, InputsAligned
  <2>2. RowCells(1) = RowParams(call, 1) /\ 1 \in CheckedRows(call)
    BY <2>1 DEF RowCells, RowParams, CheckedRows
  <2> QED BY <1>2, <1>8, <2>2 DEF BuildOnce
<1>9. CASE ResolveRoot
  <2>1. call.seed = NoSeed
    BY <1>9 DEF ResolveRoot
  <2> QED BY <1>3, <2>1
<1>10. CASE SampleRow
  <2> DEFINE r == NextRow
  <2>1. /\ phase = "rows" /\ r \in 1 .. RowCount(call) /\ ~ CanBuild(RowParams(call, r))
    BY <1>4, <1>10 DEF SampleRow, IInv, TypeOK, Height, NextRow
  <2>2. call.route # "scalar"
    <3> SUFFICES ASSUME call.route = "scalar" PROVE FALSE
      OBVIOUS
    <3>1. CanBuild(RowParams(call, 1))
      BY <2>1 DEF IInv, ChecksPassed, Built, CheckedRows
    <3>2. RowParams(call, r) = RowParams(call, 1)
      BY <1>1, <2>1, ScalarAligned DEF RowParams
    <3> QED BY <2>1, <3>1, <3>2
  <2> QED BY <1>2, <2>1, <2>2 DEF CheckedRows
<1>11. CASE AllocDraws
  <2>1. DrawCount > MaxUsize \/ DrawCount > 0
    BY <1>11 DEF AllocDraws
  <2>2. /\ call.kind = "samples" /\ RowCount(call) \in Nat /\ call.size \in Nat
        /\ DrawCount = RowCount(call) * call.size
    BY <1>11, FillContext DEF AllocDraws, DrawCount
  <2>3. CASE DrawCount > MaxUsize
    BY <1>2, <2>2, <2>3
  <2>4. CASE DrawCount > 0
    BY <1>3, <2>2, <2>4
  <2> QED BY <2>1, <2>3, <2>4, <1>11 DEF AllocDraws
<1>12. ~ (CollectRows \/ MaskRows \/ Fill \/ Finished)
  BY DEF CollectRows, MaskRows, Fill, DrawSlot, ClaimRow, Finished, vars
<1> QED BY <1>5, <1>6, <1>7, <1>8, <1>9, <1>10, <1>11, <1>12 DEF Next

LEMMA ProductIsNat ==
  ASSUME NEW h \in Nat, NEW s \in Nat
  PROVE  h * s \in Nat
OBVIOUS

\* A step that answers owes that answer, and nothing forbade it.
LEMMA AnswerIsAllowed ==
  ASSUME IInv', call' = call, phase' = "done"
  PROVE  /\ ~ Contract!MustRaise(call)
         /\ \E x \in Contract!RootsOf(call) : rows' = Contract!Owed(call, x)
<1>1. /\ Aligned(call) /\ \A p \in Params : call.numeric[p]
      /\ \A r \in CheckedRows(call) : DomainHolds(RowParams(call, r)) /\ CanBuild(RowParams(call, r))
      /\ call.kind = "samples" => ~ RowCount(call) * call.size > MaxUsize
  <2>1. call \in CallType /\ Aligned(call)
    BY DEF IInv, TypeOK, ChecksPassed
  <2>2. RowCount(call) \in Nat /\ call.size \in Nat
    <3>1. /\ call.size \in Nat /\ Len(call.key) \in Nat
          /\ \A p \in Params : Len(call.cols[p]) \in Nat
      BY <2>1 DEF CallType
    <3> QED BY <2>1, <3>1, AlignedLengths
  <2>3. RowCount(call) * call.size \in Nat
    BY <2>2, ProductIsNat
  <2> QED BY <2>1, <2>3, ConstantsAssumption DEF IInv, ChecksPassed, Built
<1>2. ~ Contract!MustRaise(call)
  BY <1>1, SameWords DEF MustRaise, Invalid, TooLarge
<1>3. root' \in RootsOf(call) /\ rows' = Owed(call, root')
  BY DEF IInv, RootResolved, RowsOwed, AnswerIsOwed
<1> QED BY <1>2, <1>3, SameWords

LEMMA StepRefines ==
  IInv /\ IInv' /\ [Next]_vars => [Contract!ContractNext]_<<call, Outcome>>
<1> SUFFICES ASSUME IInv, IInv', [Next]_vars
             PROVE  Contract!ContractNext \/ UNCHANGED <<call, Outcome>>
  OBVIOUS
<1>1. CASE UNCHANGED vars
  BY <1>1 DEF vars, Outcome
<1>2. CASE Next
  <2>1. call' = call
    BY <1>2 DEF Next, Align, Coerce, CheckParams, BuildStates, BuildOnce, ResolveRoot, SampleRow,
       CollectRows, AllocDraws, Fill, ClaimRow, DrawSlot, MaskRows, Finished, vars
  <2>2. CASE phase \in {"done", "raised"}
    <3>1. UNCHANGED vars
      BY <1>2, <2>2 DEF Next, Align, Coerce, CheckParams, BuildStates, BuildOnce, ResolveRoot,
         SampleRow, CollectRows, AllocDraws, Fill, ClaimRow, DrawSlot, MaskRows, Finished
    <3> QED BY <1>1, <3>1
  <2>3. CASE phase \notin {"done", "raised"}
    <3>1. Outcome = Contract!Pending
      BY <2>3 DEF Outcome, Contract!Pending
    <3>2. CASE phase' = "raised"
      <4>1. Outcome' = Contract!Raised
        BY <3>2 DEF Outcome, Contract!Raised
      <4>2. Contract!Raise
        BY <1>2, <2>1, <2>3, <3>1, <3>2, <4>1, RaiseHasCause DEF Contract!Raise
      <4> QED BY <4>2 DEF Contract!ContractNext
    <3>3. CASE phase' = "done"
      <4>1. Outcome' = Contract!Returned(rows')
        BY <3>3 DEF Outcome, Contract!Returned
      <4>2. Contract!Return
        BY <2>1, <3>1, <3>3, <4>1, AnswerIsAllowed DEF Contract!Return
      <4> QED BY <4>2 DEF Contract!ContractNext
    <3>4. CASE phase' \notin {"done", "raised"}
      BY <2>1, <2>3, <3>4 DEF Outcome
    <3> QED BY <3>2, <3>3, <3>4
  <2> QED BY <2>2, <2>3
<1> QED BY <1>1, <1>2

(***************************************************************************)
(* A sampler call, with its checks, its row loop, its draw buffer and its  *)
(* pool of workers, does what the one-step contract says: it raises only   *)
(* with cause, and otherwise returns each row's own draws.                 *)
(***************************************************************************)
THEOREM CallImplementsContract == Spec => ImplementsContract
<1>1. Init => Contract!ContractInit
  <2> SUFFICES ASSUME Init PROVE Contract!ContractInit
    OBVIOUS
  <2>1. call \in CallType /\ WellFormed(call)
    BY CallsAssumption DEF Init
  <2>2. Outcome = Contract!Pending
    BY DEF Init, Outcome, Contract!Pending
  <2> QED BY <2>1, <2>2, SameWords DEF Contract!ContractInit
<1>2. IInv /\ IInv' /\ [Next]_vars => [Contract!ContractNext]_(Contract!contractVars)
  BY StepRefines DEF Contract!contractVars
<1> QED BY <1>1, <1>2, InductiveInvariant, PTL DEF Spec, ImplementsContract, Contract!ContractSpec

=============================================================================
