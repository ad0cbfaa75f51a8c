----------------------------- MODULE ValueProofs -----------------------------
(***************************************************************************)
(* What holds of every value-keyed call, for every distribution, point     *)
(* column and height: the inductive invariant IInv, and the refinement of  *)
(* ValueContract it gives.                                                 *)
(***************************************************************************)
EXTENDS ValueKeyed, TLAPS

-----------------------------------------------------------------------------
(***************************************************************************)
(* Alignment: what align_inputs leaves of a column.                        *)
(***************************************************************************)

\* An aligned call has one row count, and every input has it or length 1.
LEMMA AlignedLengths ==
  ASSUME NEW c, Aligned(c), Len(c.key) \in Nat, \A p \in Params : Len(c.cols[p]) \in Nat
  PROVE  /\ RowCount(c) \in Nat
         /\ Len(c.key) \in {1, RowCount(c)}
         /\ \A p \in Params : Len(c.cols[p]) \in {1, RowCount(c)}
<1>1. Spans(c) \subseteq Nat
  BY DEF Spans
<1>2. CASE Spans(c) = {}
  BY <1>2 DEF Spans, RowCount
<1>3. CASE Spans(c) # {}
  <2>1. RowCount(c) \in Spans(c)
    BY <1>3 DEF RowCount
  <2>2. \A n \in Spans(c) : n = RowCount(c)
    BY <2>1 DEF Aligned
  <2> QED BY <1>1, <2>1, <2>2 DEF Spans
<1> QED BY <1>2, <1>3

\* Broadcasting a length-1 column changes its height and none of its cells.
LEMMA BroadcastKeepsCells ==
  ASSUME NEW S, NEW column \in Seq(S), NEW n \in Nat, Len(column) \in {1, n}
  PROVE  /\ Broadcast(column, n) \in Seq(S)
         /\ Len(Broadcast(column, n)) = n
         /\ \A r \in 1 .. n : /\ Broadcast(column, n)[r] = At(column, r)
                              /\ At(Broadcast(column, n), r) = At(column, r)
                              /\ At(column, r) \in S
<1>1. CASE Len(column) = 1
  BY <1>1 DEF Broadcast, At
<1>2. CASE Len(column) # 1
  BY <1>2 DEF Broadcast, At
<1> QED BY <1>1, <1>2

\* An aligned call's row r, and what the broadcast columns show of it.
LEMMA BroadcastKeepsRows ==
  ASSUME NEW c, NEW K, Aligned(c), c.key \in Seq(K),
         c.cols \in [Params -> Seq(Values \cup {NULL})]
  PROVE  LET n == RowCount(c)
             spread == [p \in Params |-> Broadcast(c.cols[p], n)]
             keyed == Broadcast(c.key, n)
         IN  /\ n \in Nat
             /\ keyed \in Seq(K) /\ Len(keyed) = n
             /\ spread \in [Params -> Seq(Values \cup {NULL})]
             /\ \A p \in Params : Len(spread[p]) = n
             /\ \A r \in 1 .. n :
                  /\ keyed[r] = RowKey(c, r) /\ keyed[r] \in K
                  /\ [p \in Params |-> spread[p][r]] = RowParams(c, r)
                  /\ RowParams(c, r) \in [Params -> Values \cup {NULL}]
<1> DEFINE n == RowCount(c)
<1>1. Len(c.key) \in Nat /\ \A p \in Params : Len(c.cols[p]) \in Nat
  OBVIOUS
<1>2. n \in Nat /\ Len(c.key) \in {1, n} /\ \A p \in Params : Len(c.cols[p]) \in {1, n}
  BY <1>1, AlignedLengths
<1> HIDE DEF n
<1>3. /\ Broadcast(c.key, n) \in Seq(K) /\ Len(Broadcast(c.key, n)) = n
      /\ \A r \in 1 .. n : /\ Broadcast(c.key, n)[r] = RowKey(c, r)
                           /\ Broadcast(c.key, n)[r] \in K
  BY <1>2, BroadcastKeepsCells DEF RowKey
<1>4. ASSUME NEW p \in Params
      PROVE  /\ Broadcast(c.cols[p], n) \in Seq(Values \cup {NULL})
             /\ Len(Broadcast(c.cols[p], n)) = n
             /\ \A r \in 1 .. n : /\ Broadcast(c.cols[p], n)[r] = At(c.cols[p], r)
                                  /\ At(c.cols[p], r) \in Values \cup {NULL}
  <2> DEFINE column == c.cols[p]
  <2>1. column \in Seq(Values \cup {NULL}) /\ Len(column) \in {1, n}
    BY <1>2
  <2> HIDE DEF column
  <2>2. /\ Broadcast(column, n) \in Seq(Values \cup {NULL})
        /\ Len(Broadcast(column, n)) = n
        /\ \A r \in 1 .. n : Broadcast(column, n)[r] = At(column, r)
        /\ \A r \in 1 .. n : At(column, r) \in Values \cup {NULL}
    BY <1>2, <2>1, BroadcastKeepsCells
  <2> QED BY <2>2 DEF column
<1>5. [p \in Params |-> Broadcast(c.cols[p], n)] \in [Params -> Seq(Values \cup {NULL})]
  BY <1>4
<1>6. ASSUME NEW r \in 1 .. n
      PROVE  /\ [p \in Params |-> Broadcast(c.cols[p], n)[r]] = RowParams(c, r)
             /\ RowParams(c, r) \in [Params -> Values \cup {NULL}]
  BY <1>4 DEF RowParams
<1> QED BY <1>2, <1>3, <1>4, <1>5, <1>6 DEF n

\* A constant parameterisation shows every row the same cells, and the points set the height.
LEMMA ConstantRows ==
  ASSUME NEW c \in CallType, ConstantParams(c)
  PROVE  /\ Aligned(c)
         /\ RowCount(c) = Len(c.key) /\ Len(c.key) \in Nat
         /\ \A r : RowParams(c, r) = [p \in Params |-> c.cols[p][1]]
         /\ RowParams(c, 1) \in [Params -> Values \cup {NULL}]
         /\ \A r \in 1 .. Len(c.key) : c.key[r] = RowKey(c, r) /\ c.key[r] \in Points \cup {NULL}
<1>1. \A p \in Params : Len(c.cols[p]) = 1
  BY DEF ConstantParams
<1>2. /\ c.key \in Seq(Points \cup {NULL}) /\ Len(c.key) \in Nat
      /\ c.cols \in [Params -> Seq(Values \cup {NULL})]
  BY DEF CallType
<1>3. Spans(c) = {Len(c.key)} \ {1}
  BY <1>1 DEF Spans
<1>4. Aligned(c) /\ RowCount(c) = Len(c.key)
  BY <1>3 DEF Aligned, RowCount
<1>5. \A p \in Params : c.cols[p][1] \in Values \cup {NULL}
  BY <1>1, <1>2
<1>6. \A r : RowParams(c, r) = [p \in Params |-> c.cols[p][1]]
  BY <1>1 DEF RowParams, At
<1>7. \A r \in 1 .. Len(c.key) : c.key[r] = RowKey(c, r) /\ c.key[r] \in Points \cup {NULL}
  BY <1>2 DEF RowKey, At
<1> QED BY <1>2, <1>4, <1>5, <1>6, <1>7

\* The scalar twin's parameters are constant, present and of their dtype.
LEMMA ScalarIsConstant ==
  ASSUME NEW c \in CallType, WellFormed(c), c.route = "scalar"
  PROVE  /\ ConstantParams(c) /\ \A p \in Params : c.numeric[p]
         /\ Present(RowParams(c, 1)) /\ c.driver # "param"
<1>1. \A p \in Params : Len(c.cols[p]) = 1 /\ c.cols[p][1] \in Values /\ c.numeric[p]
  BY DEF WellFormed
<1>2. c.driver # "param"
  BY DEF WellFormed
<1>3. ConstantParams(c)
  BY <1>1 DEF ConstantParams
<1>4. Present(RowParams(c, 1))
  BY <1>1, DomainAssumption DEF RowParams, At, Present
<1> QED BY <1>1, <1>2, <1>3, <1>4

\* Cells with none missing are a tuple, and no tuple is NULL.
LEMMA PresentCells ==
  ASSUME NEW cells \in [Params -> Values \cup {NULL}], Present(cells)
  PROVE  cells \in Tuples /\ cells # NULL
BY DomainAssumption DEF Present, Tuples

\* Both closures give a row what it is owed.
LEMMA AnswersAreOwed ==
  ASSUME NEW cells \in [Params -> Values \cup {NULL}], NEW point \in Points \cup {NULL}
  PROVE  /\ RowAnswer(cells, point) = OwedRow(cells, point)
         /\ state = cells /\ Present(cells) => SharedAnswer(point) = OwedRow(cells, point)
         /\ OwedRow(cells, point) \in Answers \cup {NaN, NULL}
<1>1. NULL \notin Points /\ NaN # NULL
  BY PointsAssumption
<1>2. point # NULL /\ Present(cells) => Body(cells, point) \in Answers \cup {NULL}
  BY PresentCells DEF Body, Answers
<1>3. CASE point = NULL \/ ~ Present(cells)
  BY <1>1, <1>3 DEF RowAnswer, SharedAnswer, OwedRow
<1>4. CASE point = NaN /\ Present(cells)
  BY <1>1, <1>4 DEF RowAnswer, SharedAnswer, OwedRow
<1>5. CASE point \notin {NULL, NaN} /\ Present(cells)
  BY <1>1, <1>2, <1>5 DEF RowAnswer, SharedAnswer, OwedRow
<1> QED BY <1>3, <1>4, <1>5

\* What the kernel walks, once a call has aligned or has its one state.
LEMMA WalksEveryRow ==
  ASSUME IInv, phase \in {"check", "rows", "done"}
  PROVE  /\ Height = RowCount(call) /\ RowCount(call) \in Nat
         /\ \A r \in 1 .. RowCount(call) :
              /\ keys[r] = RowKey(call, r) /\ keys[r] \in Points \cup {NULL}
              /\ RowParams(call, r) \in [Params -> Values \cup {NULL}]
              /\ IF state # NULL THEN state = RowParams(call, r) /\ Present(state)
                                 ELSE RowCells(r) = RowParams(call, r)
<1>1. call \in CallType /\ keys \in Seq(Points \cup {NULL})
  BY DEF IInv, TypeOK
<1>2. CASE state # NULL
  <2>1. ConstantParams(call) /\ state = RowParams(call, 1) /\ keys = call.key
    BY <1>2 DEF IInv, StateIsConstant
  <2>2. state \in Tuples /\ NULL \notin Values
    BY <1>2, DomainAssumption DEF IInv, TypeOK
  <2>3. Present(state)
    BY <2>2 DEF Tuples, Present
  <2>4. Height = Len(keys)
    BY <1>2 DEF Height
  <2> QED BY <1>1, <1>2, <2>1, <2>3, <2>4, ConstantRows
<1>3. CASE state = NULL
  <2>1. /\ Aligned(call) /\ Len(keys) = RowCount(call)
        /\ \A p \in Params : Len(cols[p]) = RowCount(call)
        /\ \A r \in 1 .. RowCount(call) : RowCells(r) = RowParams(call, r) /\ keys[r] = RowKey(call, r)
    BY <1>3 DEF IInv, InputsAligned
  <2>2. {Len(keys)} \cup {Len(cols[p]) : p \in Params} = {RowCount(call)}
    BY <2>1
  <2>3. Len(keys) \in Nat /\ \A r \in 1 .. Len(keys) : keys[r] \in Points \cup {NULL}
    BY <1>1
  <2>4. Min({RowCount(call)}) = RowCount(call)
    BY <2>1, <2>3 DEF Min
  <2>5. Height = RowCount(call)
    BY <1>3, <2>2, <2>4 DEF Height
  <2>6. \A r \in 1 .. RowCount(call) : RowParams(call, r) \in [Params -> Values \cup {NULL}]
    <3>1. call.key \in Seq(Points \cup {NULL}) /\ call.cols \in [Params -> Seq(Values \cup {NULL})]
      BY <1>1 DEF CallType
    <3> QED BY <2>1, <3>1, BroadcastKeepsRows
  <2> QED BY <1>3, <2>1, <2>3, <2>5, <2>6
<1> QED BY <1>2, <1>3

-----------------------------------------------------------------------------
(***************************************************************************)
(* The initial states, and one lemma per action.                           *)
(***************************************************************************)
LEMMA InitIInv == Init => IInv
<1> SUFFICES ASSUME Init PROVE IInv
  OBVIOUS
<1>1. call \in CallType /\ WellFormed(call)
  BY CallsAssumption DEF Init
<1>2. TypeOK
  BY <1>1 DEF Init, Entry, TypeOK, Phases, CallType
<1>3. RouteOfCall
  BY <1>1, ScalarIsConstant DEF Init, Entry, RouteOfCall, CallType
<1>4. ChecksPassed
  BY DEF Init, Entry, ChecksPassed
<1>5. InputsAligned /\ RowsOwed
  BY DEF Init, Entry, InputsAligned, RowsOwed
<1>6. StateIsConstant /\ ErrorRaised /\ ErrorIsReal /\ ValueDriversReportInOrder
  BY DEF Init, Entry, StateIsConstant, ErrorRaised, ErrorIsReal, ValueDriversReportInOrder,
         ReportsAsDocumented
<1> QED BY <1>2, <1>3, <1>4, <1>5, <1>6 DEF IInv

\* A call that raises keeps the invariant if the error is real and reported in order.
LEMMA RaiseStep ==
  ASSUME IInv, NEW kind \in {"shape", "key", "param", "domain"}, RaiseError(kind),
         UNCHANGED <<call, keys, cols, state, rows>>, phase \notin {"rows", "done", "raised"},
         ErrorIsReal', ValueDriversReportInOrder'
  PROVE  IInv'
<1>1. phase' = "raised" /\ error' = kind
  BY DEF RaiseError
<1>2. TypeOK'
  BY <1>1 DEF IInv, TypeOK, Phases
<1>3. RouteOfCall'
  BY <1>1 DEF IInv, RouteOfCall
<1>4. StateIsConstant' /\ InputsAligned'
  BY <1>1 DEF IInv, StateIsConstant, InputsAligned
<1>5. ChecksPassed'
  BY <1>1 DEF IInv, ChecksPassed
<1>6. RowsOwed' /\ ErrorRaised'
  BY <1>1 DEF IInv, RowsOwed, ErrorRaised
<1> QED BY <1>2, <1>3, <1>4, <1>5, <1>6 DEF IInv

\* Before a call aligns, row 1 of its columns is row 1 of the call.
LEMMA FirstRow ==
  ASSUME IInv, phase \in {"once", "constCoerce", "constCheck"}
  PROVE  /\ call \in CallType /\ ConstantParams(call) /\ state = NULL
         /\ keys = call.key /\ cols = call.cols
         /\ RowCells(1) = RowParams(call, 1)
         /\ RowCells(1) \in [Params -> Values \cup {NULL}]
         /\ ReadRows(call) = {1}
<1>1. call \in CallType /\ ConstantParams(call) /\ state = NULL
  BY DEF IInv, TypeOK, RouteOfCall
<1>2. keys = call.key /\ cols = call.cols
  BY DEF IInv, InputsAligned
<1>3. RowCells(1) = RowParams(call, 1)
  BY <1>1, <1>2, ConstantRows DEF RowCells
<1> QED BY <1>1, <1>2, <1>3, ConstantRows DEF ReadRows

\* The one build: of the kwargs, or of a constant parameterisation with nothing missing.
LEMMA BuildStep ==
  ASSUME IInv, phase \in {"once", "constCheck"}, \A p \in Params : call.numeric[p],
         DomainHolds(RowCells(1)), Present(RowCells(1)), state' = RowCells(1), Proceed("gate"),
         UNCHANGED <<call, keys, cols, rows>>, call.driver # "param"
  PROVE  IInv'
<1>1. phase' = "gate" /\ error' = error
  BY DEF Proceed
<1>2. /\ state' = RowParams(call, 1) /\ state' \in Tuples /\ state' # NULL
      /\ ConstantParams(call) /\ keys = call.key /\ ReadRows(call) = {1}
  BY FirstRow, PresentCells
<1>3. TypeOK'
  BY <1>1, <1>2 DEF IInv, TypeOK, Phases
<1>4. RouteOfCall' /\ StateIsConstant'
  BY <1>1, <1>2 DEF IInv, RouteOfCall, StateIsConstant
<1>5. InputsAligned'
  BY <1>1, <1>2 DEF IInv, InputsAligned
<1>6. ~ ParamsInvalid(call)
  BY <1>2, FirstRow DEF ParamsInvalid
<1>7. ChecksPassed'
  BY <1>1, <1>6 DEF IInv, ChecksPassed
<1>8. RowsOwed' /\ ErrorRaised'
  BY <1>1 DEF IInv, RowsOwed, ErrorRaised
<1>9. ErrorIsReal' /\ ValueDriversReportInOrder'
  BY <1>1 DEF IInv, ErrorIsReal, ErrorRaised, ValueDriversReportInOrder, ReportsAsDocumented
<1> QED BY <1>3, <1>4, <1>5, <1>7, <1>8, <1>9 DEF IInv

LEMMA BuildOnceStep == IInv /\ BuildOnce => IInv'
<1> SUFFICES ASSUME IInv, BuildOnce PROVE IInv'
  OBVIOUS
<1>1. phase = "once" /\ UNCHANGED <<call, keys, cols, rows>>
  BY DEF BuildOnce
<1>2. /\ \A p \in Params : call.numeric[p]
      /\ Present(RowCells(1)) /\ call.driver # "param"
      /\ RowCells(1) = RowParams(call, 1) /\ ReadRows(call) = {1} /\ ConstantParams(call)
  BY <1>1, FirstRow, ScalarIsConstant DEF IInv, TypeOK, RouteOfCall
<1>3. CASE DomainHolds(RowCells(1))
  BY <1>1, <1>2, <1>3, BuildStep DEF BuildOnce
<1>4. CASE ~ DomainHolds(RowCells(1))
  <2>1. RaiseError("domain") /\ state' = state
    BY <1>4 DEF BuildOnce
  <2>2. ErrorIsReal' /\ ValueDriversReportInOrder'
    BY <1>1, <1>2, <1>4, <2>1
       DEF ErrorIsReal, ValueDriversReportInOrder, ReportsAsDocumented, RaiseError
  <2> QED BY <1>1, <2>1, <2>2, RaiseStep
<1> QED BY <1>3, <1>4

LEMMA CoerceConstantStep == IInv /\ CoerceConstant => IInv'
<1> SUFFICES ASSUME IInv, CoerceConstant PROVE IInv'
  OBVIOUS
<1>1. phase = "constCoerce" /\ UNCHANGED <<call, keys, cols, state, rows>>
  BY DEF CoerceConstant
<1>2. CASE \A p \in Params : call.numeric[p]
  <2>1. phase' = "constCheck" /\ error' = error
    BY <1>2 DEF CoerceConstant, Proceed
  <2>2. TypeOK' /\ RouteOfCall' /\ StateIsConstant' /\ InputsAligned'
    BY <1>1, <2>1 DEF IInv, TypeOK, Phases, RouteOfCall, StateIsConstant, InputsAligned
  <2>3. ChecksPassed' /\ RowsOwed' /\ ErrorRaised'
    BY <1>1, <1>2, <2>1 DEF IInv, ChecksPassed, RowsOwed, ErrorRaised
  <2>4. ErrorIsReal' /\ ValueDriversReportInOrder'
    BY <1>1, <2>1 DEF IInv, ErrorIsReal, ErrorRaised, ValueDriversReportInOrder, ReportsAsDocumented
  <2> QED BY <2>2, <2>3, <2>4 DEF IInv
<1>3. CASE ~ \A p \in Params : call.numeric[p]
  <2>1. RaiseError("param")
    BY <1>3 DEF CoerceConstant
  <2>2. ErrorIsReal' /\ ValueDriversReportInOrder'
    BY <1>1, <1>3, <2>1, FirstRow
       DEF ErrorIsReal, ValueDriversReportInOrder, ReportsAsDocumented, RaiseError
  <2> QED BY <1>1, <2>1, <2>2, RaiseStep
<1> QED BY <1>2, <1>3

LEMMA CheckConstantStep == IInv /\ CheckConstant => IInv'
<1> SUFFICES ASSUME IInv, CheckConstant PROVE IInv'
  OBVIOUS
<1>1. phase = "constCheck" /\ UNCHANGED <<call, keys, cols, rows>>
  BY DEF CheckConstant
<1>2. /\ \A p \in Params : call.numeric[p]
      /\ ConstantParams(call) /\ state = NULL
      /\ RowCells(1) = RowParams(call, 1) /\ ReadRows(call) = {1}
  BY <1>1, FirstRow DEF IInv, ChecksPassed
<1>3. CASE ~ DomainHolds(RowCells(1))
  <2>1. RaiseError("domain") /\ state' = state
    BY <1>3 DEF CheckConstant
  <2>2. ErrorIsReal' /\ ValueDriversReportInOrder'
    BY <1>1, <1>2, <1>3, <2>1
       DEF ErrorIsReal, ValueDriversReportInOrder, ReportsAsDocumented, RaiseError
  <2> QED BY <1>1, <2>1, <2>2, RaiseStep
<1>4. CASE DomainHolds(RowCells(1)) /\ Present(RowCells(1))
  <2>1. state' = RowCells(1) /\ Proceed("gate")
    BY <1>4 DEF CheckConstant
  <2>2. CASE call.driver # "param"
    BY <1>1, <1>2, <1>4, <2>1, <2>2, BuildStep
  <2>3. CASE call.driver = "param"
    BY <1>1, <2>3 DEF IInv, RouteOfCall
  <2> QED BY <2>2, <2>3
<1>5. CASE DomainHolds(RowCells(1)) /\ ~ Present(RowCells(1))
  <2>1. phase' = "align" /\ error' = error /\ state' = state
    BY <1>5 DEF CheckConstant, Proceed
  <2>2. ~ ParamsInvalid(call)
    BY <1>2, <1>5 DEF ParamsInvalid
  <2>3. TypeOK' /\ RouteOfCall' /\ StateIsConstant' /\ InputsAligned'
    BY <1>1, <1>2, <2>1 DEF IInv, TypeOK, Phases, RouteOfCall, StateIsConstant, InputsAligned
  <2>4. ChecksPassed' /\ RowsOwed' /\ ErrorRaised'
    BY <1>1, <1>2, <2>1, <2>2 DEF IInv, ChecksPassed, RowsOwed, ErrorRaised
  <2>5. ErrorIsReal' /\ ValueDriversReportInOrder'
    BY <1>1, <2>1 DEF IInv, ErrorIsReal, ErrorRaised, ValueDriversReportInOrder, ReportsAsDocumented
  <2> QED BY <2>3, <2>4, <2>5 DEF IInv
<1> QED BY <1>3, <1>4, <1>5

LEMMA AlignStep == IInv /\ Align => IInv'
<1> SUFFICES ASSUME IInv, Align PROVE IInv'
  OBVIOUS
<1>1. /\ phase = "align" /\ UNCHANGED <<call, state, rows>>
      /\ state = NULL /\ keys = call.key /\ cols = call.cols
      /\ call \in CallType
  BY DEF Align, IInv, TypeOK, RouteOfCall, InputsAligned
<1>2. CASE Aligned(call)
  <2>1. /\ phase' = (IF call.driver = "value" THEN "gate" ELSE "coerce") /\ error' = error
        /\ keys' = Broadcast(call.key, RowCount(call))
        /\ cols' = [p \in Params |-> Broadcast(call.cols[p], RowCount(call))]
    BY <1>1, <1>2 DEF Align, Proceed
  <2>2. call.key \in Seq(Points \cup {NULL}) /\ call.cols \in [Params -> Seq(Values \cup {NULL})]
    BY <1>1 DEF CallType
  <2>3. /\ keys' \in Seq(Points \cup {NULL}) /\ Len(keys') = RowCount(call)
        /\ cols' \in [Params -> Seq(Values \cup {NULL})]
        /\ \A p \in Params : Len(cols'[p]) = RowCount(call)
        /\ \A r \in 1 .. RowCount(call) :
             keys'[r] = RowKey(call, r) /\ [p \in Params |-> cols'[p][r]] = RowParams(call, r)
    BY <1>2, <2>1, <2>2, BroadcastKeepsRows
  <2>4. TypeOK' /\ RouteOfCall' /\ StateIsConstant'
    BY <1>1, <2>1, <2>3 DEF IInv, TypeOK, Phases, RouteOfCall, StateIsConstant
  <2>5. InputsAligned'
    BY <1>1, <1>2, <2>1, <2>3 DEF InputsAligned, RowCells
  <2>6. ChecksPassed' /\ RowsOwed' /\ ErrorRaised'
    BY <1>1, <2>1 DEF IInv, ChecksPassed, RowsOwed, ErrorRaised
  <2>7. ErrorIsReal' /\ ValueDriversReportInOrder'
    BY <1>1, <2>1 DEF IInv, ErrorIsReal, ErrorRaised, ValueDriversReportInOrder, ReportsAsDocumented
  <2> QED BY <2>4, <2>5, <2>6, <2>7 DEF IInv
<1>3. CASE ~ Aligned(call)
  <2>1. RaiseError("shape") /\ keys' = keys /\ cols' = cols
    BY <1>3 DEF Align
  <2>2. ErrorIsReal' /\ ValueDriversReportInOrder'
    BY <1>1, <1>3, <2>1 DEF ErrorIsReal, ValueDriversReportInOrder, ReportsAsDocumented, RaiseError
  <2> QED BY <1>1, <2>1, <2>2, RaiseStep
<1> QED BY <1>2, <1>3

LEMMA GateKeyStep == IInv /\ GateKey => IInv'
<1> SUFFICES ASSUME IInv, GateKey PROVE IInv'
  OBVIOUS
<1>1. phase = "gate" /\ UNCHANGED <<call, keys, cols, state, rows>> /\ call.driver \in {"value", "point"}
  BY DEF GateKey, IInv, TypeOK, CallType, RouteOfCall
<1>2. CASE call.keyNumeric
  <2>1. /\ phase' = IF state = NULL /\ call.driver = "value" THEN "coerce" ELSE "rows"
        /\ error' = error
    BY <1>2 DEF GateKey, Proceed
  <2>2. TypeOK' /\ RouteOfCall' /\ StateIsConstant' /\ InputsAligned'
    <3>1. TypeOK'
      BY <1>1, <2>1 DEF IInv, TypeOK, Phases
    <3>2. RouteOfCall' /\ StateIsConstant'
      BY <1>1, <2>1 DEF IInv, RouteOfCall, StateIsConstant
    <3>3. InputsAligned'
      BY <1>1, <2>1 DEF IInv, InputsAligned, RowCells
    <3> QED BY <3>1, <3>2, <3>3
  <2>3. ~ (state = NULL /\ call.driver = "value") => ~ ParamsInvalid(call)
    BY <1>1 DEF IInv, ChecksPassed
  <2>4. ChecksPassed' /\ ErrorRaised'
    BY <1>1, <1>2, <2>1, <2>3 DEF IInv, ChecksPassed, ErrorRaised, ParamsInvalid
  <2>5. RowCount(call) \in Nat
    <3>1. CASE state = NULL
      <4>1. Len(keys) \in Nat
        BY DEF IInv, TypeOK
      <4> QED BY <1>1, <3>1, <4>1 DEF IInv, InputsAligned
    <3>2. CASE state # NULL
      BY <3>2, ConstantRows DEF IInv, TypeOK, StateIsConstant
    <3> QED BY <3>1, <3>2
  <2>6. RowsOwed'
    BY <1>1, <2>1, <2>5 DEF IInv, RowsOwed
  <2>7. ErrorIsReal' /\ ValueDriversReportInOrder'
    BY <1>1, <2>1 DEF IInv, ErrorIsReal, ErrorRaised, ValueDriversReportInOrder, ReportsAsDocumented
  <2> QED BY <2>2, <2>4, <2>6, <2>7 DEF IInv
<1>3. CASE ~ call.keyNumeric
  <2>1. RaiseError("key")
    BY <1>3 DEF GateKey
  <2>2. call.driver = "value" /\ ConstantParams(call) => ~ ParamsInvalid(call)
    BY <1>1 DEF IInv, ChecksPassed
  <2>3. ErrorIsReal' /\ ValueDriversReportInOrder'
    BY <1>1, <1>3, <2>1, <2>2 DEF ErrorIsReal, ValueDriversReportInOrder, ReportsAsDocumented, RaiseError
  <2> QED BY <1>1, <2>1, <2>3, RaiseStep
<1> QED BY <1>2, <1>3

LEMMA CoerceColumnsStep == IInv /\ CoerceColumns => IInv'
<1> SUFFICES ASSUME IInv, CoerceColumns PROVE IInv'
  OBVIOUS
<1>1. phase = "coerce" /\ UNCHANGED <<call, keys, cols, state, rows>>
  BY DEF CoerceColumns
<1>2. CASE \A p \in Params : call.numeric[p]
  <2>1. phase' = "check" /\ error' = error
    BY <1>2 DEF CoerceColumns, Proceed
  <2>2. TypeOK' /\ RouteOfCall' /\ StateIsConstant'
    BY <1>1, <2>1 DEF IInv, TypeOK, Phases, RouteOfCall, StateIsConstant
  <2>3. InputsAligned'
    BY <1>1, <2>1 DEF IInv, InputsAligned, RowCells
  <2>4. ChecksPassed' /\ RowsOwed' /\ ErrorRaised'
    BY <1>1, <1>2, <2>1 DEF IInv, ChecksPassed, RowsOwed, ErrorRaised, RouteOfCall
  <2>5. ErrorIsReal' /\ ValueDriversReportInOrder'
    BY <1>1, <2>1 DEF IInv, ErrorIsReal, ErrorRaised, ValueDriversReportInOrder, ReportsAsDocumented
  <2> QED BY <2>2, <2>3, <2>4, <2>5 DEF IInv
<1>3. CASE ~ \A p \in Params : call.numeric[p]
  <2>1. RaiseError("param")
    BY <1>3 DEF CoerceColumns
  <2>2. call.driver = "value" => call.keyNumeric
    BY <1>1 DEF IInv, ChecksPassed
  <2>3. ErrorIsReal' /\ ValueDriversReportInOrder'
    BY <1>1, <1>3, <2>1, <2>2
       DEF ErrorIsReal, ValueDriversReportInOrder, ReportsAsDocumented, RaiseError
  <2> QED BY <1>1, <2>1, <2>3, RaiseStep
<1> QED BY <1>2, <1>3

\* The pass over the columns is a pass over the call's rows, one of which stands for a constant's all.
LEMMA PassReadsTheCall ==
  ASSUME IInv, phase = "check"
  PROVE  /\ \A p \in Params : call.numeric[p]
         /\ ColumnsValid => (ConstantParams(call) /\ RowCount(call) = 0) \/ ~ ParamsInvalid(call)
         /\ ~ ColumnsValid => \E r \in ReadRows(call) : ~ DomainHolds(RowParams(call, r))
<1>1. /\ \A p \in Params : call.numeric[p]
      /\ Height = RowCount(call) /\ RowCount(call) \in Nat
      /\ \A r \in 1 .. RowCount(call) : RowCells(r) = RowParams(call, r)
      /\ call \in CallType
  BY WalksEveryRow DEF IInv, TypeOK, ChecksPassed, RouteOfCall
<1>2. CASE ConstantParams(call)
  <2>1. ReadRows(call) = {1} /\ \A r : RowParams(call, r) = RowParams(call, 1)
    BY <1>1, <1>2, ConstantRows DEF ReadRows
  <2>2. RowCount(call) # 0 => 1 \in 1 .. RowCount(call)
    BY <1>1
  <2> QED BY <1>1, <1>2, <2>1, <2>2 DEF ColumnsValid, ParamsInvalid
<1>3. CASE ~ ConstantParams(call)
  BY <1>1, <1>3 DEF ReadRows, ColumnsValid, ParamsInvalid
<1> QED BY <1>2, <1>3

LEMMA CheckColumnsStep == IInv /\ CheckColumns => IInv'
<1> SUFFICES ASSUME IInv, CheckColumns PROVE IInv'
  OBVIOUS
<1>1. /\ phase = "check" /\ UNCHANGED <<call, keys, cols, state, rows>>
      /\ state = NULL /\ call \in CallType /\ WellFormed(call)
      /\ \A p \in Params : call.numeric[p]
  BY DEF CheckColumns, IInv, TypeOK, RouteOfCall, ChecksPassed
<1>2. CASE ColumnsValid
  <2>1. /\ phase' = (IF call.driver = "point" THEN "gate" ELSE "rows") /\ error' = error
    BY <1>1, <1>2 DEF CheckColumns, Proceed
  <2>2. ~ ParamsInvalid(call)
    <3>1. CASE ConstantParams(call) /\ call.driver # "param"
      BY <1>1, <3>1 DEF IInv, ChecksPassed
    <3>2. CASE ConstantParams(call) /\ call.driver = "param"
      <4>1. RowCount(call) = 1
        BY <1>1, <3>2, ConstantRows DEF WellFormed
      <4> QED BY <1>1, <1>2, <4>1, PassReadsTheCall
    <3>3. CASE ~ ConstantParams(call)
      BY <1>1, <1>2, <3>3, PassReadsTheCall
    <3> QED BY <3>1, <3>2, <3>3
  <2>3. call.driver # "point" => call.keyNumeric
    BY <1>1 DEF IInv, ChecksPassed, WellFormed, CallType
  <2>4. TypeOK'
    BY <1>1, <2>1 DEF IInv, TypeOK, Phases
  <2>5. RouteOfCall' /\ StateIsConstant'
    BY <1>1, <2>1 DEF IInv, RouteOfCall, StateIsConstant
  <2>6. InputsAligned'
    BY <1>1, <2>1 DEF IInv, InputsAligned, RowCells
  <2>7. ChecksPassed' /\ ErrorRaised'
    BY <1>1, <2>1, <2>2, <2>3 DEF IInv, ChecksPassed, ErrorRaised
  <2>8. RowsOwed'
    BY <1>1, <2>1, WalksEveryRow DEF IInv, RowsOwed
  <2>9. ErrorIsReal' /\ ValueDriversReportInOrder'
    BY <1>1, <2>1 DEF IInv, ErrorIsReal, ErrorRaised, ValueDriversReportInOrder, ReportsAsDocumented
  <2> QED BY <2>4, <2>5, <2>6, <2>7, <2>8, <2>9 DEF IInv
<1>3. CASE ~ ColumnsValid
  <2>1. RaiseError("domain")
    BY <1>3 DEF CheckColumns
  <2>2. call.driver = "value" => call.keyNumeric
    BY <1>1 DEF IInv, ChecksPassed
  <2>3. \E r \in ReadRows(call) : ~ DomainHolds(RowParams(call, r))
    BY <1>1, <1>3, PassReadsTheCall
  <2>4. ErrorIsReal' /\ ValueDriversReportInOrder'
    BY <1>1, <2>1, <2>2, <2>3
       DEF ErrorIsReal, ValueDriversReportInOrder, ReportsAsDocumented, RaiseError
  <2> QED BY <1>1, <2>1, <2>4, RaiseStep
<1> QED BY <1>2, <1>3

LEMMA AnswerRowStep == IInv /\ AnswerRow => IInv'
<1> SUFFICES ASSUME IInv, AnswerRow PROVE IInv'
  OBVIOUS
<1> DEFINE owed(r) == OwedRow(RowParams(call, r), RowKey(call, r))
<1>1. phase = "rows" /\ UNCHANGED <<call, phase, keys, cols, state, error>>
  BY DEF AnswerRow
<1>2. rows \in Seq(Answers \cup {NaN, NULL}) /\ NextRow \in Nat /\ NextRow = Len(rows) + 1
  BY DEF IInv, TypeOK, NextRow
<1>3. Height = RowCount(call) /\ RowCount(call) \in Nat /\ NextRow \in 1 .. RowCount(call)
  BY <1>1, <1>2, WalksEveryRow DEF AnswerRow
<1>4. rows' = Append(rows, owed(NextRow)) /\ owed(NextRow) \in Answers \cup {NaN, NULL}
  <2>1. /\ keys[NextRow] = RowKey(call, NextRow) /\ keys[NextRow] \in Points \cup {NULL}
        /\ RowParams(call, NextRow) \in [Params -> Values \cup {NULL}]
    BY <1>1, <1>3, WalksEveryRow
  <2>2. owed(NextRow) \in Answers \cup {NaN, NULL}
    BY <2>1, AnswersAreOwed
  <2>3. CASE state # NULL
    <3>1. state = RowParams(call, NextRow) /\ Present(state)
      BY <1>1, <1>3, <2>3, WalksEveryRow
    <3>2. SharedAnswer(keys[NextRow]) = owed(NextRow)
      BY <2>1, <3>1, AnswersAreOwed
    <3> QED BY <2>2, <2>3, <3>2 DEF AnswerRow
  <2>4. CASE state = NULL
    <3>1. RowCells(NextRow) = RowParams(call, NextRow)
      BY <1>1, <1>3, <2>4, WalksEveryRow
    <3>2. RowAnswer(RowCells(NextRow), keys[NextRow]) = owed(NextRow)
      BY <2>1, <3>1, AnswersAreOwed
    <3> QED BY <2>2, <2>4, <3>2 DEF AnswerRow
  <2> QED BY <2>3, <2>4
<1> HIDE DEF owed
<1>5. /\ rows' \in Seq(Answers \cup {NaN, NULL})
      /\ Len(rows') = Len(rows) + 1 /\ rows'[Len(rows) + 1] = owed(NextRow)
      /\ \A r \in 1 .. Len(rows) : rows'[r] = rows[r]
  BY <1>2, <1>4
<1>6. RowsOwed'
  <2>1. \A r \in 1 .. Len(rows) : rows[r] = owed(r)
    BY <1>1 DEF IInv, RowsOwed, owed
  <2>2. Len(rows') <= RowCount(call) /\ \A r \in 1 .. Len(rows') : rows'[r] = owed(r)
    BY <1>2, <1>3, <1>5, <2>1
  <2> QED BY <1>1, <2>2 DEF RowsOwed, owed
<1>7. TypeOK'
  BY <1>1, <1>5 DEF IInv, TypeOK
<1>8. RouteOfCall' /\ StateIsConstant' /\ ChecksPassed' /\ ErrorRaised'
  BY <1>1 DEF IInv, RouteOfCall, StateIsConstant, ChecksPassed, ErrorRaised
<1>9. InputsAligned'
  BY <1>1 DEF IInv, InputsAligned, RowCells
<1>10. ErrorIsReal' /\ ValueDriversReportInOrder'
  BY <1>1 DEF IInv, ErrorIsReal, ValueDriversReportInOrder, ReportsAsDocumented
<1> QED BY <1>6, <1>7, <1>8, <1>9, <1>10 DEF IInv

LEMMA CollectRowsStep == IInv /\ CollectRows => IInv'
<1> SUFFICES ASSUME IInv, CollectRows PROVE IInv'
  OBVIOUS
<1>1. phase = "rows" /\ phase' = "done" /\ UNCHANGED <<call, keys, cols, state, rows, error>>
  BY DEF CollectRows, Proceed
<1>2. Len(rows) = RowCount(call)
  <2>1. Height = RowCount(call) /\ RowCount(call) \in Nat
    BY <1>1, WalksEveryRow
  <2>2. Len(rows) \in Nat /\ Len(rows) <= RowCount(call)
    BY <1>1 DEF IInv, TypeOK, RowsOwed
  <2> QED BY <2>1, <2>2 DEF CollectRows, NextRow
<1>3. rows = Owed(call)
  <2>1. rows \in Seq(Answers \cup {NaN, NULL})
    BY DEF IInv, TypeOK
  <2>2. rows = [r \in 1 .. Len(rows) |-> rows[r]]
    BY <2>1
  <2> QED BY <1>1, <1>2, <2>2 DEF IInv, RowsOwed, Owed
<1>4. RowsOwed'
  BY <1>1, <1>3 DEF IInv, RowsOwed
<1>5. TypeOK'
  BY <1>1 DEF IInv, TypeOK, Phases
<1>6. RouteOfCall' /\ StateIsConstant' /\ ChecksPassed' /\ ErrorRaised'
  BY <1>1 DEF IInv, RouteOfCall, StateIsConstant, ChecksPassed, ErrorRaised
<1>7. InputsAligned'
  BY <1>1 DEF IInv, InputsAligned, RowCells
<1>8. ErrorIsReal' /\ ValueDriversReportInOrder'
  BY <1>1 DEF IInv, ErrorIsReal, ErrorRaised, ValueDriversReportInOrder, ReportsAsDocumented
<1> QED BY <1>4, <1>5, <1>6, <1>7, <1>8 DEF IInv

LEMMA NextIInv == IInv /\ [Next]_vars => IInv'
<1> SUFFICES ASSUME IInv, [Next]_vars PROVE IInv'
  OBVIOUS
<1>1. CASE BuildOnce \/ CoerceConstant \/ CheckConstant
  BY <1>1, BuildOnceStep, CoerceConstantStep, CheckConstantStep
<1>2. CASE Align \/ GateKey \/ CoerceColumns \/ CheckColumns
  BY <1>2, AlignStep, GateKeyStep, CoerceColumnsStep, CheckColumnsStep
<1>3. CASE AnswerRow \/ CollectRows
  BY <1>3, AnswerRowStep, CollectRowsStep
<1>4. CASE Finished \/ UNCHANGED vars
  <2>1. UNCHANGED vars
    BY <1>4 DEF Finished
  <2>2. TypeOK' /\ RouteOfCall' /\ StateIsConstant' /\ ChecksPassed' /\ ErrorRaised'
    BY <2>1 DEF vars, IInv, TypeOK, RouteOfCall, StateIsConstant, ChecksPassed, ErrorRaised
  <2>3. InputsAligned' /\ RowsOwed'
    BY <2>1 DEF vars, IInv, InputsAligned, RowCells, RowsOwed
  <2>4. ErrorIsReal' /\ ValueDriversReportInOrder'
    BY <2>1 DEF vars, IInv, ErrorIsReal, ValueDriversReportInOrder, ReportsAsDocumented
  <2> QED BY <2>2, <2>3, <2>4 DEF IInv
<1> QED BY <1>1, <1>2, <1>3, <1>4 DEF Next

(***************************************************************************)
(* The inductive invariant holds in every reachable state of a call.       *)
(***************************************************************************)
THEOREM InductiveInvariant == Spec => []IInv
BY InitIInv, NextIInv, PTL DEF Spec

(***************************************************************************)
(* Whatever route a value-keyed call takes, the error it raises is one its *)
(* inputs have.                                                            *)
(***************************************************************************)
THEOREM ErrorsAreReal == Spec => []ErrorIsReal
<1>1. IInv => ErrorIsReal
  BY DEF IInv
<1> QED BY <1>1, InductiveInvariant, PTL

(***************************************************************************)
(* The drivers of mod.rs report an invalid constant parameterisation       *)
(* before an invalid value column, and a parameter column after it.        *)
(***************************************************************************)
THEOREM ReportsInOrder == Spec => []ValueDriversReportInOrder
<1>1. IInv => ValueDriversReportInOrder
  BY DEF IInv
<1> QED BY <1>1, InductiveInvariant, PTL

(***************************************************************************)
(* No value-keyed call answers, not even with no rows, under a constant    *)
(* parameterisation that is invalid.                                       *)
(***************************************************************************)
THEOREM ConstantsChecked == Spec => []ConstantsAlwaysChecked
<1>1. IInv => ConstantsAlwaysChecked
  BY DEF IInv, ChecksPassed, ParamsInvalid, ReadRows, ConstantsAlwaysChecked
<1> QED BY <1>1, InductiveInvariant, PTL

-----------------------------------------------------------------------------
(***************************************************************************)
(* The refinement.                                                         *)
(***************************************************************************)

\* The contract's words mean in ValueContract what they mean here.
LEMMA SameWords ==
  /\ Contract!CallType = CallType
  /\ \A c : Contract!WellFormed(c) <=> WellFormed(c)
  /\ \A c : Contract!Invalid(c) <=> Invalid(c)
  /\ \A c : Contract!Owed(c) = Owed(c)
<1>1. \A c : Contract!Spans(c) = Spans(c)
  BY DEF Contract!Spans, Spans
<1>2. \A c : Contract!RowCount(c) = RowCount(c) /\ (Contract!Aligned(c) <=> Aligned(c))
  BY <1>1 DEF Contract!RowCount, RowCount, Contract!Aligned, Aligned, Contract!Spans, Spans
<1>3. \A column, r : Contract!At(column, r) = At(column, r)
  BY DEF Contract!At, At
<1>4. \A c, r : Contract!RowParams(c, r) = RowParams(c, r) /\ Contract!RowKey(c, r) = RowKey(c, r)
  BY <1>3 DEF Contract!RowParams, RowParams, Contract!RowKey, RowKey
<1>5. \A cells : Contract!Present(cells) <=> Present(cells)
  BY DEF Contract!Present, Present
<1>6. \A cells : Contract!DomainHolds(cells) <=> DomainHolds(cells)
  BY <1>5 DEF Contract!DomainHolds, DomainHolds, Contract!OwnRuleHolds, OwnRuleHolds,
     Contract!JointRuleHolds, JointRuleHolds
<1>7. \A cells, point : Contract!Body(cells, point) = Body(cells, point)
  BY DEF Contract!Body, Body
<1>8. \A cells, point : Contract!OwedRow(cells, point) = OwedRow(cells, point)
  BY <1>5, <1>7 DEF Contract!OwedRow, OwedRow
<1>9. \A c : Contract!Owed(c) = Owed(c)
  BY <1>2, <1>4, <1>8 DEF Contract!Owed, Owed
<1>10. \A c : Contract!ReadRows(c) = ReadRows(c)
  BY <1>2 DEF Contract!ReadRows, ReadRows, Contract!ConstantParams, ConstantParams
<1>11. \A c : Contract!Invalid(c) <=> Invalid(c)
  BY <1>2, <1>4, <1>6, <1>10 DEF Contract!Invalid, Invalid, Contract!ParamsInvalid, ParamsInvalid
<1>12. Contract!CallType = CallType /\ \A c : Contract!WellFormed(c) <=> WellFormed(c)
  BY DEF Contract!CallType, CallType, Contract!WellFormed, WellFormed
<1> QED BY <1>9, <1>11, <1>12

\* A step that raises has a reason.
LEMMA RaiseHasCause ==
  ASSUME IInv', call' = call, phase' = "raised"
  PROVE  Invalid(call)
<1>1. error' \in {"shape", "key", "param", "domain"}
  BY DEF IInv, TypeOK, ErrorRaised
<1> QED BY <1>1 DEF IInv, ErrorIsReal, Invalid, ParamsInvalid

\* A step that answers owes that answer, and nothing is invalid.
LEMMA AnswerIsAllowed ==
  ASSUME IInv', call' = call, phase' = "done"
  PROVE  ~ Invalid(call) /\ rows' = Owed(call)
<1>1. Aligned(call)
  BY ConstantRows DEF IInv, TypeOK, InputsAligned, StateIsConstant
<1> QED BY <1>1 DEF IInv, ChecksPassed, RowsOwed, Invalid

LEMMA StepRefines ==
  IInv /\ IInv' /\ [Next]_vars => [Contract!ContractNext]_<<call, Outcome>>
<1> SUFFICES ASSUME IInv, IInv', [Next]_vars
             PROVE  Contract!ContractNext \/ UNCHANGED <<call, Outcome>>
  OBVIOUS
<1>1. CASE UNCHANGED vars
  BY <1>1 DEF vars, Outcome
<1>2. CASE Next
  <2>1. call' = call
    BY <1>2 DEF Next, BuildOnce, CoerceConstant, CheckConstant, Align, GateKey, CoerceColumns,
       CheckColumns, AnswerRow, CollectRows, Finished, vars
  <2>2. CASE phase \in {"done", "raised"}
    <3>1. UNCHANGED vars
      BY <1>2, <2>2 DEF Next, BuildOnce, CoerceConstant, CheckConstant, Align, GateKey,
         CoerceColumns, CheckColumns, AnswerRow, CollectRows, Finished
    <3> QED BY <1>1, <3>1
  <2>3. CASE phase \notin {"done", "raised"}
    <3>1. Outcome = Contract!Pending
      BY <2>3 DEF Outcome, Contract!Pending
    <3>2. CASE phase' = "raised"
      <4>1. Outcome' = Contract!Raised
        BY <3>2 DEF Outcome, Contract!Raised
      <4>2. Contract!Raise
        BY <2>1, <3>1, <3>2, <4>1, RaiseHasCause, SameWords DEF Contract!Raise
      <4> QED BY <4>2 DEF Contract!ContractNext
    <3>3. CASE phase' = "done"
      <4>1. Outcome' = Contract!Returned(rows')
        BY <3>3 DEF Outcome, Contract!Returned
      <4>2. Contract!Return
        BY <2>1, <3>1, <3>3, <4>1, AnswerIsAllowed, SameWords DEF Contract!Return
      <4> QED BY <4>2 DEF Contract!ContractNext
    <3>4. CASE phase' \notin {"done", "raised"}
      BY <2>1, <2>3, <3>4 DEF Outcome
    <3> QED BY <3>2, <3>3, <3>4
  <2> QED BY <2>2, <2>3
<1> QED BY <1>1, <1>2

(***************************************************************************)
(* A value-keyed call, by whichever route its parameters take and in       *)
(* whatever order a driver checks its inputs, does what the one-step       *)
(* contract says: it raises exactly when an input is invalid, and          *)
(* otherwise answers each row from that row alone.                         *)
(***************************************************************************)
THEOREM CallImplementsContract == Spec => ImplementsContract
<1>1. Init => Contract!ContractInit
  <2> SUFFICES ASSUME Init PROVE Contract!ContractInit
    OBVIOUS
  <2>1. call \in CallType /\ WellFormed(call)
    BY CallsAssumption DEF Init
  <2>2. Outcome = Contract!Pending
    BY DEF Init, Entry, Outcome, Contract!Pending
  <2> QED BY <2>1, <2>2, SameWords DEF Contract!ContractInit
<1>2. IInv /\ IInv' /\ [Next]_vars => [Contract!ContractNext]_(Contract!contractVars)
  BY StepRefines DEF Contract!contractVars
<1> QED BY <1>1, <1>2, InductiveInvariant, PTL DEF Spec, ImplementsContract, Contract!ContractSpec

=============================================================================
