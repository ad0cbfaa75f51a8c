----------------------------- MODULE CheckProofs ----------------------------
(***************************************************************************)
(* What the checks around the computations are worth, for every call and   *)
(* every registry.  In Python: what reaches a plugin fits the wire, a draw *)
(* does not show the engine, and a moment or value-keyed method follows    *)
(* the parameters of its own row.  In Rust: the domain passes accept       *)
(* exactly the columns whose every row holds to its domain, for every      *)
(* rule, length, null and chunk layout; the invariant carries a reading    *)
(* from chunk to chunk: what lies before it is accepted, and once it is    *)
(* alarmed the cause lies ahead.  In the accuracy audit: its searches      *)
(* return the smallest point, its verdicts are fair, each point of the     *)
(* sweep is probed once and in order, and the exit code is honest.         *)
(***************************************************************************)
EXTENDS PythonCalls, ParamCheck, Audit, FiniteSetTheorems, SequenceTheorems, WellFoundedInduction, TLAPS

-----------------------------------------------------------------------------
(***************************************************************************)
(* The least and the greatest of a set of naturals.                        *)
(***************************************************************************)

Earlier == {p \in Nat \X Nat : p[1] < p[2]}

\* The least-number principle, about a set: what induction over the naturals rests on here.
LEMMA LeastNatural ==
  ASSUME NEW T \in SUBSET Nat, T # {}
  PROVE  \E x \in T : \A y \in T : x <= y
<1>1. IsWellFoundedOn(Earlier, Nat)
  BY NatLessThanWellFounded, Zenon DEF OpToRel, Earlier
<1>2. \E x \in T : \A y \in T : ~ (<<y, x>> \in Earlier)
  <2>. HIDE DEF Earlier
  <2>. QED BY <1>1, WFMin
<1>3. \A x, y \in T : ~ (<<y, x>> \in Earlier) => x <= y
  BY DEF Earlier
<1> QED BY <1>2, <1>3

\* A set of naturals with 0 and every successor of a member is all of them.
LEMMA NaturalsBySuccessor ==
  ASSUME NEW T, 0 \in T, \A n \in Nat : n \in T => n + 1 \in T
  PROVE  Nat \subseteq T
<1>1. SUFFICES ASSUME Nat \ T # {} PROVE FALSE
  OBVIOUS
<1>2. PICK x \in Nat \ T : \A y \in Nat \ T : x <= y
  <2>1. Nat \ T \in SUBSET Nat
    OBVIOUS
  <2> QED BY <1>1, <2>1, LeastNatural
<1>3. x # 0 /\ x - 1 \in Nat /\ ~ x <= x - 1
  BY <1>2
<1>4. x - 1 \in T
  BY <1>2, <1>3
<1> QED BY <1>2, <1>3, <1>4

\* A finite set of naturals has a greatest member.
LEMMA GreatestNatural ==
  ASSUME NEW S \in SUBSET Nat, IsFiniteSet(S), S # {}
  PROVE  \E x \in S : \A y \in S : x >= y
<1> DEFINE Sized(n) == {R \in SUBSET Nat : IsFiniteSet(R) /\ R # {} /\ Cardinality(R) = n}
           Good == {n \in Nat : \A R \in Sized(n) : \E x \in R : \A y \in R : x >= y}
<1>1. 0 \in Good
  BY FS_EmptySet
<1>2. ASSUME NEW n \in Nat, n \in Good
      PROVE  n + 1 \in Good
  <2>1. SUFFICES ASSUME NEW R \in Sized(n + 1)
                 PROVE  \E x \in R : \A y \in R : x >= y
    OBVIOUS
  <2>2. PICK z \in R : TRUE
    BY <2>1
  <2> DEFINE Rest == R \ {z}
  <2>3. IsFiniteSet(Rest) /\ Cardinality(Rest) = n /\ Rest \in SUBSET Nat
    <3>1. IsFiniteSet(R) /\ Cardinality(R) = n + 1 /\ R \in SUBSET Nat
      BY <2>1
    <3>2. /\ IsFiniteSet(Rest)
          /\ Cardinality(Rest) = IF z \in R THEN Cardinality(R) - 1 ELSE Cardinality(R)
      BY <3>1, FS_RemoveElement
    <3> QED BY <2>2, <3>1, <3>2
  <2>4. CASE Rest = {}
    BY <2>1, <2>2, <2>4
  <2>5. CASE Rest # {}
    <3>1. Rest \in Sized(n)
      BY <2>3, <2>5
    <3>2. PICK x \in Rest : \A y \in Rest : x >= y
      BY <1>2, <3>1
    <3>3. CASE z >= x
      BY <2>1, <2>2, <3>2, <3>3
    <3>4. CASE ~ z >= x
      BY <2>1, <2>2, <3>2, <3>4
    <3> QED BY <3>3, <3>4
  <2> QED BY <2>4, <2>5
<1>3. Cardinality(S) \in Good
  <2>1. Cardinality(S) \in Nat
    BY FS_CardinalityType
  <2> HIDE DEF Good
  <2> QED BY <1>1, <1>2, <2>1, NaturalsBySuccessor
<1> QED BY <1>3

-----------------------------------------------------------------------------
(***************************************************************************)
(* The frame.  A call over a morsel owes for its rows what one call over   *)
(* the whole frame owes for them, raises for no other reason, and the      *)
(* morsels leave no row out.                                               *)
(***************************************************************************)

\* The row index is at least as tall as the frame, and as any parameter that is not a bare column.
LEMMA IndexSpans ==
  ASSUME NEW f, GoodFrame(f)
  PROVE  /\ IndexHeight(f) \in Nat
         /\ IndexHeight(f) \in {f.height} \cup SpansOf(f)
         /\ f.height <= IndexHeight(f)
         /\ \A p \in Params : Len(f.cols[p]) <= IndexHeight(f) \/ Len(f.cols[p]) = 1
<1>1. /\ f.height \in Nat /\ f.bare \in [Params -> BOOLEAN]
      /\ \A p \in Params : Len(f.cols[p]) \in Nat
      /\ \A p \in Params : f.bare[p] => Len(f.cols[p]) = f.height
      /\ f.route = "scalar" => \A p \in Params : Len(f.cols[p]) = 1
  BY DEF GoodFrame, FrameType
<1>2. CASE f.route = "scalar"
  BY <1>1, <1>2 DEF IndexHeight
<1>3. CASE f.route # "scalar"
  <2> DEFINE SpanOf(p) == IF Len(f.cols[p]) = 1 THEN 0 ELSE Len(f.cols[p])
             loose == {q \in Params : ~ f.bare[q]}
             S == {f.height} \cup SpansOf(f)
  <2>1. SpansOf(f) = {SpanOf(p) : p \in loose}
    BY DEF SpansOf
  <2>2. IsFiniteSet(SpansOf(f))
    <3>1. IsFiniteSet(loose)
      BY DomainAssumption, FS_Subset
    <3> DEFINE length == [p \in loose |-> SpanOf(p)]
    <3>2. length \in Surjection(loose, SpansOf(f))
      BY <2>1 DEF Surjection
    <3> HIDE DEF length, loose
    <3> QED BY <3>1, <3>2, FS_Surjection
  <2>3. S \in SUBSET Nat /\ S # {} /\ IsFiniteSet(S)
    <3>1. IsFiniteSet(SpansOf(f) \cup {f.height})
      BY <2>2, FS_AddElement
    <3>2. S = SpansOf(f) \cup {f.height}
      OBVIOUS
    <3>3. S \in SUBSET Nat
      BY <1>1, <2>1
    <3> QED BY <3>1, <3>2, <3>3
  <2>4. \E x \in S : \A y \in S : x >= y
    <3> HIDE DEF S
    <3> QED BY <2>3, GreatestNatural
  <2>5. IndexHeight(f) = Max(S)
    BY <1>3 DEF IndexHeight
  <2>6. Max(S) \in S /\ \A y \in S : Max(S) >= y
    <3> HIDE DEF S
    <3> QED BY <2>4 DEF Max
  <2>7. \A p \in loose : SpanOf(p) \in S
    BY <2>1
  <2> QED BY <1>1, <2>3, <2>5, <2>6, <2>7
<1> QED BY <1>2, <1>3

\* One call over the whole frame: its index counts the rows, and no call of two rows has another height.
LEMMA WholeCallRows ==
  ASSUME NEW f, GoodFrame(f)
  PROVE  LET c == WholeCall(f) IN
         /\ c.cols \in [Params -> Seq(Values \cup {NULL})]
         /\ c.key \in Seq(Nat) /\ Len(c.key) = IndexHeight(f)
         /\ \A r \in 1 .. IndexHeight(f) : c.key[r] = r - 1
         /\ Spans(c) \subseteq Nat /\ RowCount(c) \in Nat
         /\ Aligned(c) => RowCount(c) \in {0, 1, IndexHeight(f)}
<1> DEFINE c == WholeCall(f)
           H == IndexHeight(f)
<1>1. H \in Nat /\ \A p \in Params : Len(f.cols[p]) <= H \/ Len(f.cols[p]) = 1
  BY IndexSpans
<1>2. /\ c.cols = f.cols /\ f.cols \in [Params -> Seq(Values \cup {NULL})]
      /\ c.key = [r \in 1 .. H |-> r - 1]
  BY DEF WholeCall, row_index_expr, GoodFrame, FrameType
<1>3. c.key \in Seq(Nat) /\ Len(c.key) = H /\ \A r \in 1 .. H : c.key[r] = r - 1
  <2> HIDE DEF H, c
  <2> QED BY <1>1, <1>2
<1>4. Spans(c) \subseteq Nat /\ \A n \in Spans(c) : n <= H
  <2>1. \A p \in Params : Len(c.cols[p]) \in Nat /\ (Len(c.cols[p]) <= H \/ Len(c.cols[p]) = 1)
    BY <1>1, <1>2
  <2> HIDE DEF H, c
  <2>2. \A n \in Spans(c) : n # 1 /\ (n = Len(c.key) \/ \E p \in Params : n = Len(c.cols[p]))
    BY DEF Spans
  <2>3. ASSUME NEW n \in Spans(c)
        PROVE  n \in Nat /\ n <= H
    BY <1>1, <1>3, <2>1, <2>2
  <2> QED BY <2>3
<1>5. Spans(c) = {} \/ RowCount(c) \in Spans(c)
  BY DEF RowCount
<1>6. RowCount(c) \in Nat /\ (RowCount(c) = 1 \/ RowCount(c) \in Spans(c))
  BY <1>4, <1>5 DEF RowCount
<1>7. ASSUME Aligned(c)
      PROVE  RowCount(c) \in {0, 1, H}
  <2>1. H = 1 \/ H \in Spans(c)
    BY <1>3 DEF Spans
  <2> HIDE DEF H, c
  <2>2. CASE H = 1
    BY <1>1, <1>4, <1>6, <2>2
  <2>3. CASE H \in Spans(c)
    BY <1>6, <1>7, <2>3 DEF Aligned
  <2> QED BY <2>1, <2>2, <2>3
<1> QED BY <1>2, <1>3, <1>4, <1>6, <1>7

\* A morsel's call has the morsel's rows, each with the parameters and the index it has in the whole call.
LEMMA MorselRows ==
  ASSUME GoodFrame(frame), engine = "streaming", Aligned(WholeCall(frame)),
         NEW m \in Intervals(RowCount(WholeCall(frame)))
  PROVE  LET c == WholeCall(frame)
             d == MorselCall(m)
             n == m.to - m.from + 1
         IN  /\ Aligned(d) /\ RowCount(d) = n
             /\ d.kind = c.kind /\ d.route = c.route /\ d.numeric = c.numeric
             /\ d.seed = c.seed /\ d.size = c.size
             /\ \A i \in 1 .. n : /\ RowParams(d, i) = RowParams(c, m.from + i - 1)
                                   /\ RowKey(d, i) = RowKey(c, m.from + i - 1)
<1> DEFINE c == WholeCall(frame)
           d == MorselCall(m)
           n == m.to - m.from + 1
           cut == [p \in Params |-> Slice(c.cols[p], m)]
           cols == IF c.route = "scalar" THEN c.cols ELSE cut
<1>1. m.from \in Nat /\ m.to \in Nat /\ n \in Nat /\ n # 0
  <2>1. RowCount(c) \in Nat
    BY WholeCallRows
  <2> QED BY <2>1 DEF Intervals
<1>2. /\ d.kind = c.kind /\ d.route = c.route /\ d.numeric = c.numeric
      /\ d.seed = c.seed /\ d.size = c.size
      /\ d.key = Slice(c.key, m) /\ d.cols = cols
  BY DEF MorselCall, WholeCall
<1>3. \A column : Slice(column, m) = [i \in 1 .. n |-> At(column, m.from + i - 1)]
  BY DEF Slice
<1>4. \A column : Len(Slice(column, m)) = n
  <2> HIDE DEF n
  <2> QED BY <1>1, <1>3
<1>5. \A column : \A i \in 1 .. n : At(Slice(column, m), i) = At(column, m.from + i - 1)
  <2> HIDE DEF n
  <2>1. ASSUME NEW column, NEW i \in 1 .. n
        PROVE  At(Slice(column, m), i) = Slice(column, m)[i]
    BY <1>1, <1>4 DEF At
  <2> QED BY <1>3, <2>1
<1>6. c.route = "scalar" => \A p \in Params : Len(c.cols[p]) = 1
  BY DEF WholeCall, GoodFrame
<1>7. \A p \in Params : Len(d.cols[p]) \in {1, n}
  BY <1>2, <1>4, <1>6
<1>8. Spans(d) = {n} \ {1}
  <2> HIDE DEF n, c, d
  <2> QED BY <1>2, <1>4, <1>7 DEF Spans
<1>9. Aligned(d) /\ RowCount(d) = n
  <2> HIDE DEF n, c, d
  <2>1. CASE n = 1
    BY <1>8, <2>1 DEF Aligned, RowCount
  <2>2. CASE n # 1
    BY <1>8, <2>2 DEF Aligned, RowCount
  <2> QED BY <2>1, <2>2
<1>10. ASSUME NEW i \in 1 .. n
       PROVE  /\ RowParams(d, i) = RowParams(c, m.from + i - 1)
              /\ RowKey(d, i) = RowKey(c, m.from + i - 1)
  <2>1. \A p \in Params : At(d.cols[p], i) = At(c.cols[p], m.from + i - 1)
    <3>1. CASE c.route = "scalar"
      BY <1>2, <1>6, <3>1 DEF At
    <3>2. CASE c.route # "scalar"
      <4> HIDE DEF n, c, d
      <4> QED BY <1>2, <1>5, <3>2
    <3> QED BY <3>1, <3>2
  <2> HIDE DEF n, c, d
  <2> QED BY <1>2, <1>5, <2>1 DEF RowParams, RowKey
<1> QED BY <1>2, <1>9, <1>10

\* Call d over morsel m agrees with call c over the whole frame, row by row and on what may be raised.
Agrees(d, c, m) ==
  /\ m.from \in Nat \ {0} /\ m.to \in Nat /\ m.to <= RowCount(c)
  /\ \A r \in 1 .. RowCount(c) :
       Covers(m, r) =>
         /\ r - m.from + 1 \in 1 .. RowCount(d)
         /\ r - m.from + 1 \in CheckedRows(d) \/ c.route = "scalar"
         /\ RowParams(d, r - m.from + 1) = RowParams(c, r)
         /\ \A root : OwedRow(d, root, r - m.from + 1) = OwedRow(c, root, r)
  /\ Invalid(d) => Invalid(c)
  /\ TooLarge(d) => TooLarge(c)
  /\ MayRaise(d) => MayRaise(c)

\* A morsel's call owes what the whole call owes, and raises only if that must or may.
LEMMA MorselCallsAgree ==
  ASSUME GoodFrame(frame), MorselsMakeTheFrame, NEW m \in morsels
  PROVE  Agrees(MorselCall(m), WholeCall(frame), m)
<1> DEFINE c == WholeCall(frame)
           d == MorselCall(m)
           N == RowCount(c)
<1>1. N \in Nat /\ c.size \in Nat
  BY WholeCallRows DEF WholeCall, GoodFrame, FrameType
<1>2. CASE engine = "in-memory"
  <2>1. d = c /\ m = [from |-> 1, to |-> N]
    BY <1>2 DEF MorselCall, MorselsMakeTheFrame, Whole
  <2>2. CheckedRows(c) = IF c.route = "scalar" THEN {1} ELSE 1 .. N
    BY DEF CheckedRows
  <2> HIDE DEF c, d, N
  <2>3. m.from = 1 /\ m.to = N
    BY <2>1
  <2>4. \A r \in 1 .. N :
          r - m.from + 1 = r /\ (r \in CheckedRows(c) \/ c.route = "scalar")
    BY <1>1, <2>2, <2>3
  <2>5. Agrees(d, c, m)
    BY <1>1, <2>1, <2>3, <2>4 DEF N, Agrees
  <2> QED BY <2>5 DEF c, d
<1>3. CASE engine # "in-memory"
  <2>1. engine = "streaming" /\ Aligned(c) /\ N > 0 /\ m \in Intervals(N)
    BY <1>3 DEF MorselsMakeTheFrame, Cuts
  <2> DEFINE n == m.to - m.from + 1
  <2>2. /\ m.from \in 1 .. N /\ m.to \in 1 .. N /\ m.from <= m.to
        /\ n \in Nat /\ n # 0 /\ n <= N
    BY <1>1, <2>1 DEF Intervals
  <2>3. /\ Aligned(d) /\ RowCount(d) = n
        /\ d.kind = c.kind /\ d.route = c.route /\ d.numeric = c.numeric
        /\ d.seed = c.seed /\ d.size = c.size
        /\ \A i \in 1 .. n : /\ RowParams(d, i) = RowParams(c, m.from + i - 1)
                              /\ RowKey(d, i) = RowKey(c, m.from + i - 1)
    BY <2>1, MorselRows
  <2> HIDE DEF c, d
  <2>4. \A i \in 1 .. n : \A root : OwedRow(d, root, i) = OwedRow(c, root, m.from + i - 1)
    BY <2>3 DEF OwedRow, NthDraw
  <2>5. ASSUME NEW r \in 1 .. N, Covers(m, r)
        PROVE  /\ r - m.from + 1 \in 1 .. n
               /\ r - m.from + 1 \in CheckedRows(d) \/ c.route = "scalar"
               /\ RowParams(d, r - m.from + 1) = RowParams(c, r)
               /\ \A root : OwedRow(d, root, r - m.from + 1) = OwedRow(c, root, r)
    <3>1. r - m.from + 1 \in 1 .. n /\ m.from + (r - m.from + 1) - 1 = r
      BY <2>2, <2>5 DEF Covers
    <3> QED BY <2>3, <2>4, <3>1 DEF CheckedRows
  <2>6. \A i \in CheckedRows(d) : \E r \in CheckedRows(c) : RowParams(d, i) = RowParams(c, r)
    <3>1. CASE c.route = "scalar"
      <4>1. \A i, r : RowParams(c, i) = RowParams(c, r)
        BY <3>1 DEF c, WholeCall, GoodFrame, RowParams, At
      <4>2. 1 \in 1 .. n
        BY <2>2
      <4> QED BY <2>3, <3>1, <4>1, <4>2 DEF CheckedRows
    <3>2. CASE c.route # "scalar"
      <4>1. \A i \in 1 .. n : m.from + i - 1 \in 1 .. N
        BY <1>1, <2>2
      <4> QED BY <2>3, <3>2, <4>1 DEF CheckedRows
    <3> QED BY <3>1, <3>2
  <2>7. Invalid(d) => Invalid(c)
    BY <2>3, <2>6 DEF Invalid
  <2>8. TooLarge(d) => TooLarge(c)
    <3>1. n * c.size <= N * c.size
      BY <1>1, <2>2
    <3>2. n * c.size \in Nat /\ N * c.size \in Nat
      BY <1>1, <2>2
    <3> DEFINE drawn == n * c.size
               all == N * c.size
    <3> HIDE DEF drawn, all, n, N
    <3>3. drawn > MaxUsize => all > MaxUsize
      BY <3>1, <3>2, ConstantsAssumption DEF drawn, all
    <3> QED BY <2>3, <3>3 DEF TooLarge, drawn, all, N
  <2>9. MayRaise(d) => MayRaise(c)
    BY <1>1, <2>1, <2>2, <2>3 DEF MayRaise
  <2>10. Agrees(d, c, m)
    BY <1>1, <2>2, <2>3, <2>5, <2>7, <2>8, <2>9 DEF N, Agrees
  <2> QED BY <2>10 DEF c, d
<1> QED BY <1>2, <1>3

-----------------------------------------------------------------------------
\* No query yet.
LEMMA FrameStarts == FrameInit => FrameIInv
  BY DEF FrameInit, FrameIInv

\* A query starts over any frame _draw can make: nothing is answered yet.
LEMMA SubmitKeepsFrame ==
  ASSUME FrameIInv, NEW f, GoodFrame(f), Submit(f)
  PROVE  FrameIInv'
<1>1. status = "idle" /\ status' = "running" /\ frame' = f /\ answered' = answered
  BY DEF Submit
<1>2. DOMAIN answered' = {}
  BY <1>1 DEF FrameIInv
<1>3. MorselsMakeTheFrame'
  BY <1>1 DEF Submit, MorselsMakeTheFrame
<1>4. AnsweredAsOwed'
  BY <1>2 DEF AnsweredAsOwed
<1> QED BY <1>1, <1>3, <1>4 DEF FrameIInv

\* What an answered call returned stays what it owes; the query ends with all of them or with a cause.
LEMMA ProceedKeepsFrame ==
  ASSUME FrameIInv, Proceed
  PROVE  FrameIInv'
<1>1. status = "running" /\ UNCHANGED <<frame, engine, morsels>>
  BY DEF Proceed, AnswerMorsel, FailMorsel, Concatenate
<1>2. GoodFrame(frame)' /\ MorselsMakeTheFrame'
  BY <1>1 DEF FrameIInv, MorselsMakeTheFrame
<1>3. ASSUME NEW m \in morsels, AnswerMorsel(m)
      PROVE  FrameIInv'
  <2>1. PICK root \in RootsOf(frame) :
          answered' = [a \in DOMAIN answered \cup {m} |->
                         IF a = m THEN Owed(MorselCall(m), root) ELSE answered[a]]
    BY <1>3 DEF AnswerMorsel
  <2>2. status' = "running" /\ ~ MustRaise(MorselCall(m))
    BY <1>1, <1>3 DEF AnswerMorsel
  <2>3. AnsweredAsOwed
    BY <1>1 DEF FrameIInv
  <2>4. \A a : MorselCall(a)' = MorselCall(a)
    BY <1>1 DEF MorselCall
  <2>5. AnsweredAsOwed'
    BY <1>1, <1>3, <2>1, <2>2, <2>3, <2>4 DEF AnsweredAsOwed
  <2> QED BY <1>2, <2>2, <2>5 DEF FrameIInv
<1>4. ASSUME NEW m \in morsels, FailMorsel(m)
      PROVE  FrameIInv'
  <2>1. status' = "raised" /\ answered' = answered
    BY <1>4 DEF FailMorsel
  <2>2. MustRaise(MorselCall(m)) \/ MayRaise(MorselCall(m))
    BY <1>4 DEF FailMorsel
  <2>3. \A a : MorselCall(a)' = MorselCall(a)
    BY <1>1 DEF MorselCall
  <2>4. AnsweredAsOwed'
    BY <1>1, <2>1, <2>3 DEF AnsweredAsOwed, FrameIInv
  <2> QED BY <1>1, <1>2, <2>1, <2>2, <2>3, <2>4 DEF FrameIInv
<1>5. CASE Concatenate
  <2>1. status' = "done" /\ answered' = answered /\ morsels \subseteq DOMAIN answered
    BY <1>5 DEF Concatenate, Waiting
  <2>2. AnsweredAsOwed'
    BY <1>1, <2>1 DEF AnsweredAsOwed, FrameIInv, MorselCall
  <2> QED BY <1>1, <1>2, <2>1, <2>2 DEF FrameIInv
<1> QED BY <1>3, <1>4, <1>5 DEF Proceed

\* Nothing about a frame changes while none of its variables does.
LEMMA StutterKeepsFrame ==
  ASSUME FrameIInv, UNCHANGED frameVars
  PROVE  FrameIInv'
<1>1. UNCHANGED <<frame, engine, morsels, answered, status>>
  BY DEF frameVars
<1>2. MorselsMakeTheFrame' <=> MorselsMakeTheFrame
  BY <1>1 DEF MorselsMakeTheFrame
<1>3. AnsweredAsOwed' <=> AnsweredAsOwed
  BY <1>1 DEF AnsweredAsOwed, MorselCall
<1> QED BY <1>1, <1>2, <1>3 DEF FrameIInv, MorselCall

-----------------------------------------------------------------------------
\* A query that is done has answered each of its rows in exactly one morsel, with what the row is owed.
LEMMA DoneAnswers ==
  ASSUME FrameIInv, status = "done"
  PROVE  /\ Aligned(WholeCall(frame)) /\ ~ Invalid(WholeCall(frame))
         /\ \A r \in FrameRows : \E root \in RootsOf(frame) : Answer(r) = OwedRow(WholeCall(frame), root, r)
<1> DEFINE c == WholeCall(frame)
           N == RowCount(c)
<1>1. GoodFrame(frame) /\ MorselsMakeTheFrame /\ AnsweredAsOwed /\ morsels \subseteq DOMAIN answered
  BY DEF FrameIInv
<1>2. N \in Nat
  BY <1>1, WholeCallRows
<1>3. \A m \in morsels : Agrees(MorselCall(m), c, m) /\ ~ Invalid(MorselCall(m))
  BY <1>1, MorselCallsAgree DEF AnsweredAsOwed, MustRaise
<1>4. \A r \in 1 .. N : \E m \in morsels : Covers(m, r)
  <2> HIDE DEF c
  <2>1. CASE morsels = Whole(N)
    BY <2>1 DEF Whole, Covers
  <2>2. CASE morsels \in Cuts(N)
    BY <2>2 DEF Cuts
  <2> QED BY <1>1, <2>1, <2>2 DEF MorselsMakeTheFrame, c
<1>5. Aligned(c) /\ ~ Invalid(c)
  <2>1. CASE engine = "in-memory"
    <3>1. [from |-> 1, to |-> N] \in morsels
      BY <1>1, <2>1 DEF MorselsMakeTheFrame, Whole
    <3>2. ~ Invalid(c)
      BY <1>3, <2>1, <3>1 DEF MorselCall
    <3> QED BY <3>2 DEF Invalid
  <2>2. CASE engine # "in-memory"
    <3>1. engine = "streaming" /\ Aligned(c) /\ N > 0 /\ morsels \in Cuts(N)
      BY <1>1, <2>2 DEF MorselsMakeTheFrame
    <3>2. \A m \in morsels : m \in Intervals(N)
      BY <3>1 DEF Cuts
    <3>3. PICK first \in morsels : Covers(first, 1)
      BY <1>2, <1>4, <3>1
    <3>4. \A p \in Params : c.numeric[p]
      <4>1. MorselCall(first).numeric = c.numeric
        BY <1>1, <3>1, <3>2, <3>3, MorselRows
      <4> QED BY <1>3, <3>3, <4>1 DEF Invalid
    <3>5. ASSUME NEW r \in CheckedRows(c)
          PROVE  DomainHolds(RowParams(c, r)) /\ CanBuild(RowParams(c, r))
      <4>1. r \in 1 .. N
        BY <1>2, <3>1, <3>5 DEF CheckedRows
      <4>2. PICK m \in morsels : Covers(m, r)
        BY <1>4, <4>1
      <4> DEFINE d == MorselCall(m)
                 i == r - m.from + 1
      <4>3. Agrees(d, c, m) /\ ~ Invalid(d) /\ d.route = c.route
        BY <1>1, <1>3, <3>1, <3>2, <4>2, MorselRows
      <4>4. RowParams(d, i) = RowParams(c, r) /\ (i \in CheckedRows(d) \/ c.route = "scalar")
        BY <4>1, <4>2, <4>3 DEF Agrees
      <4>5. c.route = "scalar" => 1 \in CheckedRows(d) /\ RowParams(d, 1) = RowParams(d, i)
        <5>1. c.route = "scalar" => d.cols = c.cols /\ \A p \in Params : Len(c.cols[p]) = 1
          BY <1>1, <2>2 DEF MorselCall, WholeCall, GoodFrame
        <5> HIDE DEF d, c, i
        <5> QED BY <4>3, <5>1 DEF CheckedRows, RowParams, At
      <4> HIDE DEF d, c, i
      <4> QED BY <4>3, <4>4, <4>5 DEF Invalid
    <3> QED BY <3>1, <3>4, <3>5 DEF Invalid
  <2> QED BY <2>1, <2>2
<1>6. ASSUME NEW r \in 1 .. N
      PROVE  \E root \in RootsOf(frame) : Answer(r) = OwedRow(c, root, r)
  <2> DEFINE m == CHOOSE m \in morsels : Covers(m, r)
             i == r - m.from + 1
  <2>1. m \in morsels /\ Covers(m, r)
    BY <1>4
  <2>2. Answer(r) = answered[m][i]
    BY DEF Answer
  <2> HIDE DEF m
  <2>3. PICK root \in RootsOf(frame) : answered[m] = Owed(MorselCall(m), root)
    BY <1>1, <2>1 DEF AnsweredAsOwed
  <2>4. i \in 1 .. RowCount(MorselCall(m)) /\ OwedRow(MorselCall(m), root, i) = OwedRow(c, root, r)
    BY <1>3, <2>1 DEF Agrees
  <2> HIDE DEF i
  <2> QED BY <2>2, <2>3, <2>4 DEF Owed
<1> QED BY <1>5, <1>6 DEF FrameRows

\* The rows of an answer are as many as the frame's, where no parameter has another length.
LEMMA RowsAreTheFrames ==
  ASSUME NEW f, GoodFrame(f), \A p \in Params : Len(f.cols[p]) \in {1, f.height}
  PROVE  RowCount(WholeCall(f)) = f.height
<1> DEFINE c == WholeCall(f)
<1>1. IndexHeight(f) = f.height
  <2>1. \A n \in SpansOf(f) : n \in {0, f.height}
    BY DEF SpansOf
  <2>2. f.height \in Nat
    BY DEF GoodFrame, FrameType
  <2> QED BY <2>1, <2>2, IndexSpans
<1>2. Len(c.key) = f.height /\ c.cols = f.cols
  BY <1>1, WholeCallRows DEF WholeCall
<1> HIDE DEF c
<1>3. Spans(c) = {f.height} \ {1}
  BY <1>2 DEF Spans
<1>4. RowCount(c) = f.height
  <2>1. CASE f.height = 1
    BY <1>3, <2>1 DEF RowCount
  <2>2. CASE f.height # 1
    BY <1>3, <2>2 DEF RowCount
  <2> QED BY <2>1, <2>2
<1> QED BY <1>4 DEF c

\* What a seeded answer holds in row r does not depend on the engine, the cut or the order of the calls.
LEMMA FrameAnswers == FrameIInv => AnswerIsFrames
<1> SUFFICES ASSUME FrameIInv PROVE AnswerIsFrames
  OBVIOUS
<1>1. status = "done" =>
        \A r \in FrameRows : \E root \in RootsOf(frame) : Answer(r) = OwedRow(WholeCall(frame), root, r)
  BY DoneAnswers
<1>2. ASSUME status # "idle", \A p \in Params : Len(frame.cols[p]) \in {1, frame.height}
      PROVE  Cardinality(FrameRows) = frame.height
  <2>1. GoodFrame(frame) /\ frame.height \in Nat
    BY <1>2 DEF FrameIInv, GoodFrame, FrameType
  <2>2. FrameRows = 1 .. frame.height
    BY <1>2, <2>1, RowsAreTheFrames DEF FrameRows
  <2>3. \A n \in Nat : Cardinality(1 .. n) = n
    <3>1. ASSUME NEW n \in Nat PROVE Cardinality(1 .. n) = IF 1 > n THEN 0 ELSE n - 1 + 1
      BY FS_Interval
    <3> QED BY <3>1
  <2> QED BY <2>1, <2>2, <2>3
<1> QED BY <1>1, <1>2 DEF AnswerIsFrames

\* The index of an answered row is its position.
LEMMA FrameStreams == FrameIInv => RowsHaveOwnStreams
<1> SUFFICES ASSUME FrameIInv, status = "done",
                    NEW r \in FrameRows, NEW q \in FrameRows, r # q, Answer(r) # NULL, Answer(q) # NULL
             PROVE  Answer(r)[1].rng.index # Answer(q)[1].rng.index
  BY DEF RowsHaveOwnStreams
<1> DEFINE c == WholeCall(frame)
           N == RowCount(c)
<1>1. GoodFrame(frame) /\ Aligned(c) /\ c.size \in Nat \ {0}
  BY DoneAnswers DEF FrameIInv, GoodFrame, FrameType, WholeCall
<1>2. /\ N \in {0, 1, IndexHeight(frame)} /\ N \in Nat
      /\ Len(c.key) = IndexHeight(frame)
      /\ \A x \in 1 .. IndexHeight(frame) : c.key[x] = x - 1
  BY <1>1, WholeCallRows
<1>3. r \in 1 .. N /\ q \in 1 .. N
  BY DEF FrameRows
<1>4. N = IndexHeight(frame) /\ N # 1
  BY <1>2, <1>3
<1>5. ASSUME NEW x \in FrameRows, Answer(x) # NULL
      PROVE  Answer(x)[1].rng.index = RowKey(c, x)
  <2>1. PICK root \in RootsOf(frame) : Answer(x) = OwedRow(c, root, x)
    BY <1>5, DoneAnswers
  <2>2. 1 \in 1 .. c.size
    BY <1>1
  <2> HIDE DEF c
  <2>3. Answer(x) = [k \in 1 .. c.size |-> NthDraw(c, root, x, k)]
    BY <1>5, <2>1 DEF OwedRow
  <2> QED BY <2>2, <2>3 DEF NthDraw, draw
<1>6. \A x \in 1 .. N : RowKey(c, x) = x - 1
  BY <1>2, <1>4 DEF RowKey, At
<1> QED BY <1>2, <1>3, <1>5, <1>6

\* A query fails as one call over the whole frame would.
LEMMA FrameRaises == FrameIInv => RaisesAsOneCall
<1> SUFFICES ASSUME FrameIInv PROVE RaisesAsOneCall
  OBVIOUS
<1>1. status = "done" => ~ Invalid(WholeCall(frame))
  BY DoneAnswers
<1>2. ASSUME status = "raised"
      PROVE  MustRaise(WholeCall(frame)) \/ MayRaise(WholeCall(frame))
  <2>1. PICK m \in morsels : MustRaise(MorselCall(m)) \/ MayRaise(MorselCall(m))
    BY <1>2 DEF FrameIInv
  <2>2. Agrees(MorselCall(m), WholeCall(frame), m)
    BY <1>2, MorselCallsAgree DEF FrameIInv
  <2> QED BY <2>1, <2>2 DEF Agrees, MustRaise
<1> QED BY <1>1, <1>2 DEF RaisesAsOneCall

-----------------------------------------------------------------------------
(***************************************************************************)
(* The program: the classes' parameters and moments, the coercions, and    *)
(* what a query answers.                                                   *)
(***************************************************************************)

\* A class and its plugin agree on the parameters and their order, and each parameter has one spelling.
ParamsAgree(class, domain) ==
  /\ class.params = domain.reads
  /\ \A i \in DOMAIN class.params : i \in Nat /\ class.params[i] \in DOMAIN class.spelled
  /\ \A p \in DOMAIN class.spelled :
       class.spelled[p] \in {"float", "count", "int"} /\ \E i \in DOMAIN class.params : class.params[i] = p
  /\ class.quantity \subseteq DOMAIN class.spelled

\* The forms _moment, _validated and _param_plugin can take, over parameters of the class.
FormIsKnown(class, form) ==
  \/ form.form \in {"plugin", "half", "undefined"}
  \/ form.form \in {"gated", "validated"} /\ form.reads \subseteq DOMAIN class.spelled
  \/ form.form = "diverging" /\ form.on \in DOMAIN class.spelled /\ form.reads \subseteq DOMAIN class.spelled

\* Classes and plugins: one entry per distribution, with the same parameters in the same order.
LEMMA EveryClass ==
  ASSUME NEW c \in DOMAIN Classes
  PROVE  ParamsAgree(Classes[c], Domains[c])
<1> USE DEF ParamsAgree, OneParam, TwoParams
<1>1. ParamsAgree(Normal, NormalDomain)
  BY DEF Normal, NormalDomain
<1>2. ParamsAgree(LogNormal, LogNormalDomain)
  BY DEF LogNormal, LogNormalDomain
<1>3. ParamsAgree(Exponential, ExponentialDomain)
  BY DEF Exponential, ExponentialDomain
<1>4. ParamsAgree(Pareto, ParetoDomain)
  BY DEF Pareto, ParetoDomain
<1>5. ParamsAgree(Cauchy, CauchyDomain)
  BY DEF Cauchy, CauchyDomain
<1>6. ParamsAgree(Weibull, WeibullDomain)
  BY DEF Weibull, WeibullDomain
<1>7. ParamsAgree(Gamma, GammaDomain)
  BY DEF Gamma, GammaDomain
<1>8. ParamsAgree(Uniform, UniformDomain)
  BY DEF Uniform, UniformDomain
<1>9. ParamsAgree(Bernoulli, BernoulliDomain)
  BY DEF Bernoulli, BernoulliDomain
<1>10. ParamsAgree(Beta, BetaDomain)
  BY DEF Beta, BetaDomain
<1>11. ParamsAgree(Binomial, BinomialDomain)
  BY DEF Binomial, BinomialDomain
<1>12. ParamsAgree(Geometric, GeometricDomain)
  BY DEF Geometric, GeometricDomain
<1>13. ParamsAgree(Poisson, PoissonDomain)
  BY DEF Poisson, PoissonDomain
<1>14. ParamsAgree(DiscreteUniform, DiscreteUniformDomain)
  BY DEF DiscreteUniform, DiscreteUniformDomain
<1> HIDE DEF ParamsAgree
<1> QED
  BY <1>1, <1>2, <1>3, <1>4, <1>5, <1>6, <1>7, <1>8, <1>9, <1>10, <1>11, <1>12, <1>13, <1>14 DEF Classes, Domains

\* Every moment of every class has one of the forms, a moment of a moment included.
LEMMA EveryMoment ==
  ASSUME NEW c \in DOMAIN Classes, NEW moment \in Moments
  PROVE  FormIsKnown(Classes[c], FormOf(c, moment))
<1> DEFINE Resolved(class, f) == IF f.form = "of" THEN class.moments[f.moment] ELSE f
           Known(class) == \A m \in Moments : FormIsKnown(class, Resolved(class, class.moments[m]))
<1> USE DEF Moments
<1>1. Known(Normal)
  BY DEF Normal, FormIsKnown, Gated, Validated, Plugin, AtHalf, Of, Undefined, Diverging
<1>2. Known(LogNormal)
  BY DEF LogNormal, FormIsKnown, Gated, Validated, Plugin, AtHalf, Of, Undefined, Diverging
<1>3. Known(Exponential)
  BY DEF Exponential, FormIsKnown, Gated, Validated, Plugin, AtHalf, Of, Undefined, Diverging
<1>4. Known(Pareto)
  <2>1. Pareto.moments = [mean |-> Diverging("shape", MeanDivergesAt, {"scale", "shape"}),
        variance |-> Diverging("shape", VarianceDivergesAt, {"scale", "shape"}),
        std |-> Diverging("shape", VarianceDivergesAt, {"scale", "shape"}),
        median |-> AtHalf, entropy |-> Gated({"scale", "shape"})]
    BY DEF Pareto, Inherited, Override
  <2>2. DOMAIN Pareto.spelled = {"scale", "shape"}
    BY DEF Pareto
  <2> QED BY <2>1, <2>2 DEF FormIsKnown, Gated, Validated, Plugin, AtHalf, Of, Undefined, Diverging
<1>5. Known(Cauchy)
  <2>1. Cauchy.moments = [mean |-> Undefined, variance |-> Undefined, std |-> Of("variance"),
        median |-> Gated({"loc"}), entropy |-> Gated({"scale"})]
    BY DEF Cauchy, Inherited, Override
  <2> QED BY <2>1 DEF Cauchy, FormIsKnown, Gated, Validated, Plugin, AtHalf, Of, Undefined, Diverging
<1>6. Known(Weibull)
  <2>1. Weibull.moments = [mean |-> Plugin, variance |-> Plugin, std |-> Plugin,
        median |-> AtHalf, entropy |-> Gated({"shape", "scale"})]
    BY DEF Weibull, Inherited, Override
  <2> QED BY <2>1 DEF Weibull, FormIsKnown, Gated, Validated, Plugin, AtHalf, Of, Undefined, Diverging
<1>7. Known(Gamma)
  <2>1. Gamma.moments = [mean |-> Gated({"shape", "rate"}), variance |-> Of("std"), std |-> Gated({"shape", "rate"}),
        median |-> AtHalf, entropy |-> Plugin]
    BY DEF Gamma, Inherited, Override
  <2> QED BY <2>1 DEF Gamma, FormIsKnown, Gated, Validated, Plugin, AtHalf, Of, Undefined, Diverging
<1>8. Known(Uniform)
  BY DEF Uniform, FormIsKnown, Gated, Validated, Plugin, AtHalf, Of, Undefined, Diverging
<1>9. Known(Bernoulli)
  <2>1. Bernoulli.moments = [mean |-> Validated({}), variance |-> Gated({"p"}), std |-> Of("variance"),
        median |-> AtHalf, entropy |-> Gated({"p"})]
    BY DEF Bernoulli, Inherited, Override
  <2> QED BY <2>1 DEF Bernoulli, FormIsKnown, Gated, Validated, Plugin, AtHalf, Of, Undefined, Diverging
<1>10. Known(Beta)
  <2>1. Beta.moments = [mean |-> Gated({"a", "b"}), variance |-> Gated({"a", "b"}), std |-> Of("variance"),
        median |-> AtHalf, entropy |-> Plugin]
    BY DEF Beta, Inherited, Override
  <2> QED BY <2>1 DEF Beta, FormIsKnown, Gated, Validated, Plugin, AtHalf, Of, Undefined, Diverging
<1>11. Known(Binomial)
  <2>1. Binomial.moments = [mean |-> Gated({"n", "p"}), variance |-> Gated({"n", "p"}), std |-> Of("variance"),
        median |-> AtHalf, entropy |-> Plugin]
    BY DEF Binomial, Inherited, Override
  <2> QED BY <2>1 DEF Binomial, FormIsKnown, Gated, Validated, Plugin, AtHalf, Of, Undefined, Diverging
<1>12. Known(Geometric)
  <2>1. Geometric.moments = [mean |-> Validated({}), variance |-> Gated({"p"}), std |-> Gated({"p"}),
        median |-> AtHalf, entropy |-> Gated({"p"})]
    BY DEF Geometric, Inherited, Override
  <2> QED BY <2>1 DEF Geometric, FormIsKnown, Gated, Validated, Plugin, AtHalf, Of, Undefined, Diverging
<1>13. Known(Poisson)
  <2>1. Poisson.moments = [mean |-> Validated({}), variance |-> Validated({}), std |-> Of("variance"),
        median |-> AtHalf, entropy |-> Plugin]
    BY DEF Poisson, Inherited, Override
  <2> QED BY <2>1 DEF Poisson, FormIsKnown, Gated, Validated, Plugin, AtHalf, Of, Undefined, Diverging
<1>14. Known(DiscreteUniform)
  <2>1. DiscreteUniform.moments = [mean |-> Gated({"min", "max"}), variance |-> Validated({}), std |-> Of("variance"),
        median |-> Gated({"min", "max"}), entropy |-> Validated({})]
    BY DEF DiscreteUniform, Inherited, Override
  <2> QED BY <2>1 DEF DiscreteUniform, FormIsKnown, Gated, Validated, Plugin, AtHalf, Of, Undefined, Diverging
<1> HIDE DEF Known, Resolved
<1>15. Known(Classes[c])
  BY <1>1, <1>2, <1>3, <1>4, <1>5, <1>6, <1>7, <1>8, <1>9, <1>10, <1>11, <1>12, <1>13, <1>14 DEF Classes
<1>16. FormOf(c, moment) = Resolved(Classes[c], Classes[c].moments[moment])
  BY DEF FormOf, Resolved
<1> QED BY <1>15, <1>16 DEF Known

-----------------------------------------------------------------------------
\* A constructor call of some class, with an object for each of its parameters.
IsDistro(d) ==
  d.class \in DOMAIN Classes /\ DOMAIN d.args = DOMAIN Classes[d.class].spelled

\* By position or by name, a plugin gets every parameter under its own name.
LEMMA CellsReachPlugins ==
  ASSUME NEW d, IsDistro(d), NEW r
  PROVE  WireCells(d, r) = CellsAt(d, r) /\ PluginCells(d, r) = CellsAt(d, r)
<1> DEFINE reads == Domains[d.class].reads
           sent == Classes[d.class].params
<1>1. ParamsAgree(Classes[d.class], Domains[d.class])
  BY EveryClass DEF IsDistro
<1>2. sent = reads /\ \A p \in DOMAIN d.args : \E i \in DOMAIN reads : reads[i] = p
  BY <1>1 DEF IsDistro, ParamsAgree
<1>3. \A p \in DOMAIN d.args :
        At(d.args[sent[CHOOSE i \in DOMAIN reads : reads[i] = p]].cells, r) = At(d.args[p].cells, r)
  <2> SUFFICES ASSUME NEW p \in DOMAIN d.args
               PROVE  sent[CHOOSE i \in DOMAIN reads : reads[i] = p] = p
    OBVIOUS
  <2> QED BY <1>2
<1>4. WireCells(d, r) = CellsAt(d, r)
  <2>1. /\ WireCells(d, r) =
             [p \in DOMAIN d.args |-> At(d.args[sent[CHOOSE i \in DOMAIN reads : reads[i] = p]].cells, r)]
        /\ CellsAt(d, r) = [p \in DOMAIN d.args |-> At(d.args[p].cells, r)]
    BY DEF WireCells, CellsAt
  <2> HIDE DEF sent, reads
  <2> QED BY <1>3, <2>1
<1> QED BY <1>4 DEF PluginCells

\* Where the lengths agree, a row of the answer has a cell of every input.
LEMMA CellsAreTyped ==
  ASSUME NEW d \in Distros, NEW pt, Fits(d, pt), NEW r \in 1 .. RowsOf(d, pt)
  PROVE  /\ IsDistro(d)
         /\ DOMAIN CellsAt(d, r) = DOMAIN d.args
         /\ \A p \in DOMAIN d.args : CellsAt(d, r)[p] \in Int \cup {NaN, NULL}
<1>1. IsDistro(d) /\ \A p \in DOMAIN d.args : d.args[p].cells \in Seq(Int \cup {NaN, NULL})
  BY ObjectsAssumption DEF IsDistro, IsObject
<1>2. ASSUME NEW p \in DOMAIN d.args
      PROVE  At(d.args[p].cells, r) \in Int \cup {NaN, NULL}
  <2> DEFINE column == d.args[p].cells
             n == RowsOf(d, pt)
  <2>1. column \in Seq(Int \cup {NaN, NULL}) /\ Len(column) \in LengthsOf(d, pt)
    BY <1>1 DEF LengthsOf
  <2>2. Len(column) = 1 \/ Len(column) = n
    <3>1. CASE LengthsOf(d, pt) = {1}
      BY <2>1, <3>1
    <3>2. CASE LengthsOf(d, pt) # {1} /\ Len(column) # 1
      <4>1. Len(column) \in LengthsOf(d, pt) \ {1}
        BY <2>1, <3>2
      <4>2. n \in LengthsOf(d, pt) \ {1}
        BY <3>2, <4>1 DEF RowsOf
      <4> QED BY <4>1, <4>2 DEF Fits
    <3> QED BY <3>1, <3>2
  <2>3. r \in 1 .. n
    OBVIOUS
  <2> HIDE DEF column, n
  <2>4. At(column, r) \in Int \cup {NaN, NULL}
    BY <2>1, <2>2, <2>3 DEF At
  <2> QED BY <2>4 DEF column
<1> QED BY <1>1, <1>2 DEF CellsAt

\* A formula is null exactly where a parameter it reads is, and it changes none of them.
LEMMA ReadingFollows ==
  ASSUME NEW c \in DOMAIN Classes, NEW reads \in SUBSET DOMAIN Classes[c].spelled,
         NEW cells, \A p \in reads : cells[p] \in Int \cup {NaN, NULL}
  PROVE  LET value == Reading(reads, cells) IN
         /\ value = NULL <=> \E p \in reads : cells[p] = NULL
         /\ value # NULL => DOMAIN value = reads /\ \A p \in reads : value[p] = cells[p]
<1>1. CASE \A p \in reads : cells[p] # NULL
  <2> DEFINE value == [p \in reads |-> cells[p]]
  <2>1. Reading(reads, cells) = value
    BY <1>1 DEF Reading
  <2>2. value \in [reads -> Int \cup {NaN}]
    BY <1>1
  <2>3. value # NULL
    <3> HIDE DEF value
    <3> QED BY <2>2, AnswersAssumption
  <2>4. DOMAIN value = reads /\ \A p \in reads : value[p] = cells[p]
    OBVIOUS
  <2> HIDE DEF value
  <2> QED BY <1>1, <2>1, <2>3, <2>4
<1>2. CASE ~ \A p \in reads : cells[p] # NULL
  BY <1>2 DEF Reading
<1> QED BY <1>1, <1>2

\* An answer that is computed from its row's cells, and null exactly if asked to be.
Follows(value, cells, missing) ==
  /\ value = NULL <=> missing
  /\ value \notin {NULL, NaN, Infinite} => \A p \in DOMAIN value : value[p] = cells[p]

\* The cells of a row, none of them absent, are an answer.
LEMMA CellsAreAnAnswer ==
  ASSUME NEW d, IsDistro(d), NEW r,
         \A p \in DOMAIN d.args : CellsAt(d, r)[p] \in Int \cup {NaN, NULL},
         Complete(CellsAt(d, r))
  PROVE  CellsAt(d, r) # NULL
<1> DEFINE cells == CellsAt(d, r)
           params == DOMAIN Classes[d.class].spelled
<1>1. cells = [p \in params |-> At(d.args[p].cells, r)]
  BY DEF CellsAt, IsDistro
<1>2. \A p \in params : cells[p] \in Int \cup {NaN}
  BY <1>1 DEF IsDistro, Complete
<1> HIDE DEF cells
<1>3. cells \in [params -> Int \cup {NaN}]
  BY <1>1, <1>2
<1> QED BY <1>3, AnswersAssumption DEF IsDistro, cells

\* A value-keyed method is null where its point or a parameter is; it is NaN at NaN, and computed from the rest.
LEMMA ValueFollows ==
  ASSUME NEW d, IsDistro(d), NEW r, NEW pt,
         \A p \in DOMAIN d.args : CellsAt(d, r)[p] \in Int \cup {NaN, NULL}
  PROVE  Follows(ValueAt(d, r, pt), CellsAt(d, r), pt = NULL \/ ~ Complete(CellsAt(d, r)))
<1> DEFINE cells == CellsAt(d, r)
<1>1. PluginCells(d, r) = cells
  BY CellsReachPlugins
<1>2. Complete(cells) => cells # NULL
  BY CellsAreAnAnswer
<1> HIDE DEF cells
<1>3. CASE pt = NULL \/ ~ Complete(cells)
  BY <1>1, <1>3 DEF ValueAt, Follows, cells
<1>4. CASE ~ (pt = NULL \/ ~ Complete(cells)) /\ pt = NaN
  BY <1>1, <1>4, AnswersAssumption DEF ValueAt, Follows, cells
<1>5. CASE ~ (pt = NULL \/ ~ Complete(cells)) /\ pt # NaN
  BY <1>1, <1>2, <1>5 DEF ValueAt, Follows, cells
<1> QED BY <1>3, <1>4, <1>5

\* A moment of any form is null exactly where a parameter is, or where it is undefined.
LEMMA MomentFollows ==
  ASSUME NEW d, IsDistro(d), NEW r, NEW f, FormIsKnown(Classes[d.class], f),
         DOMAIN CellsAt(d, r) = DOMAIN d.args,
         \A p \in DOMAIN d.args : CellsAt(d, r)[p] \in Int \cup {NaN, NULL}
  PROVE  Follows(FormAt(d, r, f), CellsAt(d, r), ~ Complete(CellsAt(d, r)) \/ f.form = "undefined")
<1> DEFINE cells == CellsAt(d, r)
           params == DOMAIN Classes[d.class].spelled
<1>1. /\ WireCells(d, r) = cells /\ PluginCells(d, r) = cells
      /\ DOMAIN cells = params /\ \A p \in params : cells[p] \in Int \cup {NaN, NULL}
      /\ d.class \in DOMAIN Classes
  BY CellsReachPlugins DEF IsDistro
<1>2. Complete(cells) <=> \A p \in params : cells[p] # NULL
  BY <1>1 DEF Complete
<1>3. \A value : _moment(d, r, value) = IF Complete(cells) THEN value ELSE NULL
  BY <1>1 DEF _moment, Passes
<1>4. \A reads \in SUBSET params :
        LET value == Reading(reads, cells) IN
        /\ value = NULL <=> \E p \in reads : cells[p] = NULL
        /\ value # NULL => DOMAIN value = reads /\ \A p \in reads : value[p] = cells[p]
  <2> HIDE DEF cells
  <2> QED BY <1>1, ReadingFollows
<1>6. Complete(cells) => cells # NULL
  BY CellsAreAnAnswer
<1>7. Quantity(d, r) = IF Complete(cells) THEN Reading(Classes[d.class].quantity, cells) ELSE NULL
  BY <1>1, <1>3 DEF Quantity, Passes
<1>8. Classes[d.class].quantity \in SUBSET params
  BY <1>1, EveryClass DEF ParamsAgree
<1> HIDE DEF cells, params
<1>9. CASE f.form = "gated"
  <2>1. f.reads \in SUBSET params /\ FormAt(d, r, f) = _moment(d, r, Reading(f.reads, cells))
    BY <1>9 DEF FormIsKnown, FormAt, params, cells
  <2>2. Follows(FormAt(d, r, f), cells, ~ Complete(cells))
    BY <1>2, <1>3, <1>4, <2>1 DEF Follows
  <2> QED BY <1>9, <2>2 DEF cells
<1>10. CASE f.form = "validated"
  <2> DEFINE one == Quantity(d, r)
             other == Reading(f.reads, cells)
  <2>1. f.reads \in SUBSET params /\ FormAt(d, r, f) = Joined(one, other)
    BY <1>10 DEF FormIsKnown, FormAt, params, cells
  <2>2. /\ other = NULL => ~ Complete(cells)
        /\ other # NULL => DOMAIN other = f.reads /\ \A p \in f.reads : other[p] = cells[p]
    BY <1>2, <1>4, <2>1
  <2>3. /\ one = NULL <=> ~ Complete(cells)
        /\ one # NULL => \A p \in DOMAIN one : one[p] = cells[p]
    BY <1>2, <1>4, <1>7, <1>8
  <2> HIDE DEF one, other
  <2>4. one # NULL /\ other # NULL => Joined(one, other) # NULL
    <3> SUFFICES ASSUME one # NULL, other # NULL PROVE Joined(one, other) # NULL
      OBVIOUS
    <3> DEFINE reads == DOMAIN one \cup f.reads
               both == [p \in reads |-> IF p \in f.reads THEN other[p] ELSE one[p]]
    <3>1. Complete(cells) /\ DOMAIN one = Classes[d.class].quantity
      BY <1>4, <1>7, <1>8, <2>3 DEF one
    <3>2. reads \in SUBSET params
      BY <1>8, <2>1, <3>1
    <3>3. Joined(one, other) = both
      <4>1. DOMAIN other = f.reads /\ DOMAIN one \cup DOMAIN other = reads
        BY <2>2
      <4>2. Joined(one, other) =
              [p \in DOMAIN other \cup DOMAIN one |-> IF p \in DOMAIN other THEN other[p] ELSE one[p]]
        BY DEF Joined, Override
      <4>3. DOMAIN other \cup DOMAIN one = reads
        BY <4>1
      <4> HIDE DEF reads
      <4> QED BY <4>1, <4>2, <4>3 DEF both
    <3>4. \A p \in reads : (IF p \in f.reads THEN other[p] ELSE one[p]) \in Int \cup {NaN}
      BY <1>1, <1>2, <2>2, <2>3, <3>1, <3>2
    <3>5. both \in [reads -> Int \cup {NaN}]
      BY <3>4
    <3> HIDE DEF both, reads
    <3> QED BY <1>1, <3>2, <3>3, <3>5, AnswersAssumption DEF params
  <2>5. Joined(one, other) = NULL <=> ~ Complete(cells)
    BY <2>2, <2>3, <2>4 DEF Joined
  <2>6. one # NULL /\ other # NULL => \A p \in DOMAIN Joined(one, other) : Joined(one, other)[p] = cells[p]
    BY <2>2, <2>3 DEF Joined, Override
  <2>7. Follows(FormAt(d, r, f), cells, ~ Complete(cells))
    BY <2>1, <2>2, <2>3, <2>5, <2>6 DEF Follows
  <2> QED BY <1>10, <2>7 DEF cells
<1>11. CASE f.form = "plugin"
  <2>1. FormAt(d, r, f) = IF Complete(cells) THEN cells ELSE NULL
    BY <1>1, <1>11 DEF FormAt, Passes
  <2>2. Follows(FormAt(d, r, f), cells, ~ Complete(cells))
    BY <1>6, <2>1 DEF Follows
  <2> QED BY <1>11, <2>2 DEF cells
<1>12. CASE f.form = "half"
  <2>1. FormAt(d, r, f) = ValueAt(d, r, Half)
    BY <1>12 DEF FormAt
  <2>2. Follows(FormAt(d, r, f), cells, ~ Complete(cells))
    BY <2>1, ValueFollows, AnswersAssumption DEF cells
  <2> QED BY <1>12, <2>2 DEF cells
<1>13. CASE f.form = "undefined"
  <2>1. FormAt(d, r, f) = NULL
    BY <1>3, <1>13 DEF FormAt
  <2> QED BY <1>13, <2>1 DEF Follows
<1>14. CASE f.form = "diverging"
  <2> DEFINE value == IF cells[f.on] # NULL /\ cells[f.on] > f.at THEN Reading(f.reads, cells) ELSE Infinite
  <2>1. f.reads \in SUBSET params /\ FormAt(d, r, f) = _moment(d, r, value)
    BY <1>14 DEF FormIsKnown, FormAt, params, cells
  <2>2. value \in {Infinite, Reading(f.reads, cells)}
    OBVIOUS
  <2> HIDE DEF value
  <2>3. Follows(FormAt(d, r, f), cells, ~ Complete(cells))
    BY <1>2, <1>3, <1>4, <2>1, <2>2, AnswersAssumption DEF Follows
  <2> QED BY <1>14, <2>3 DEF cells
<1> QED BY <1>9, <1>10, <1>11, <1>12, <1>13, <1>14 DEF FormIsKnown

\* What _base.py asks of the engine: a moment, which has no point, or a method at a point.
IsQuery(query) ==
  \/ query.method \in Moments /\ query.point = Object("expr", <<Half>>)
  \/ query.method \notin Moments /\ query.point \in Points

\* Either way, the answer follows the parameters of its row.
LEMMA AnswerFollows ==
  ASSUME NEW d, IsDistro(d), NEW r, NEW query, IsQuery(query),
         DOMAIN CellsAt(d, r) = DOMAIN d.args,
         \A p \in DOMAIN d.args : CellsAt(d, r)[p] \in Int \cup {NaN, NULL}
  PROVE  Follows(AnswerAt(d, query, r), CellsAt(d, r), Missing(d, query, r))
<1>1. CASE query.method \in Moments
  <2> DEFINE f == FormOf(d.class, query.method)
  <2>1. FormIsKnown(Classes[d.class], f)
    BY <1>1, EveryMoment DEF IsDistro
  <2>2. At(query.point.cells, r) # NULL
    BY <1>1, AnswersAssumption DEF IsQuery, At, Object
  <2>3. AnswerAt(d, query, r) = FormAt(d, r, f)
    BY <1>1 DEF AnswerAt
  <2>4. Missing(d, query, r) <=> ~ Complete(CellsAt(d, r)) \/ f.form = "undefined"
    BY <1>1, <2>2 DEF Missing
  <2> HIDE DEF f
  <2>5. Follows(FormAt(d, r, f), CellsAt(d, r), ~ Complete(CellsAt(d, r)) \/ f.form = "undefined")
    BY <2>1, MomentFollows
  <2> QED BY <2>3, <2>4, <2>5 DEF Follows
<1>2. CASE query.method \notin Moments
  <2>1. AnswerAt(d, query, r) = ValueAt(d, r, At(query.point.cells, r))
    BY <1>2 DEF AnswerAt
  <2>2. Missing(d, query, r) <=> At(query.point.cells, r) = NULL \/ ~ Complete(CellsAt(d, r))
    BY <1>2 DEF Missing
  <2> QED BY <2>1, <2>2, ValueFollows DEF Follows
<1> QED BY <1>1, <1>2

\* The scalar twin and the plugin that reads columns answer alike.
LEMMA LiteralsAgree ==
  ASSUME NEW d, IsDistro(d), NEW r, NEW query
  PROVE  AnswerAt(AsLiterals(d), query, r) = AnswerAt(d, query, r)
<1> DEFINE e == AsLiterals(d)
<1>1. /\ e.class = d.class /\ DOMAIN e.args = DOMAIN d.args /\ IsDistro(e)
      /\ \A p \in DOMAIN d.args : e.args[p].cells = d.args[p].cells
  BY DEF AsLiterals, Object, IsDistro
<1> HIDE DEF e
<1>2. CellsAt(e, r) = CellsAt(d, r)
  BY <1>1 DEF CellsAt
<1>3. /\ WireCells(e, r) = CellsAt(d, r) /\ PluginCells(e, r) = CellsAt(d, r)
      /\ WireCells(d, r) = CellsAt(d, r) /\ PluginCells(d, r) = CellsAt(d, r)
  BY <1>1, <1>2, CellsReachPlugins
<1>4. \A pt : ValueAt(e, r, pt) = ValueAt(d, r, pt)
  BY <1>3 DEF ValueAt
<1>5. Passes(e, r) = Passes(d, r) /\ \A value : _moment(e, r, value) = _moment(d, r, value)
  BY <1>3 DEF Passes, _moment
<1>6. Quantity(e, r) = Quantity(d, r)
  BY <1>1, <1>2, <1>3, <1>5 DEF Quantity, _moment
<1>7. ASSUME NEW f, FormIsKnown(Classes[d.class], f)
      PROVE  FormAt(e, r, f) = FormAt(d, r, f)
  <2>1. CASE f.form \in {"plugin", "half", "undefined"}
    BY <1>3, <1>4, <1>5, <2>1 DEF FormAt
  <2>2. CASE f.form = "gated"
    BY <1>2, <1>5, <2>2 DEF FormAt
  <2>3. CASE f.form = "validated"
    BY <1>2, <1>6, <2>3 DEF FormAt
  <2>4. CASE f.form = "diverging"
    BY <1>2, <1>5, <2>4 DEF FormAt
  <2> QED BY <1>7, <2>1, <2>2, <2>3, <2>4 DEF FormIsKnown
<1>8. CASE query.method \in Moments
  BY <1>1, <1>7, <1>8, EveryMoment DEF AnswerAt, IsDistro, e
<1>9. CASE query.method \notin Moments
  BY <1>1, <1>4, <1>9 DEF AnswerAt, e
<1> QED BY <1>8, <1>9

\* A call over some rows raises over the parameters of the rows it checks, under whatever names it got them.
LEMMA RaisesOverCells ==
  ASSUME NEW d, IsDistro(d), NEW query, NEW some
  PROVE  QueryRaises(d, query, some) <=> PluginRaises(d, {CellsAt(d, r) : r \in RowsChecked(d, some)})
<1>1. \A r : WireCells(d, r) = CellsAt(d, r) /\ PluginCells(d, r) = CellsAt(d, r)
  BY CellsReachPlugins
<1>2. {IF query.method \notin Moments \/ FormOf(d.class, query.method).form = "half"
       THEN PluginCells(d, r) ELSE WireCells(d, r) : r \in RowsChecked(d, some)}
      = {CellsAt(d, r) : r \in RowsChecked(d, some)}
  BY <1>1
<1> QED BY <1>2 DEF QueryRaises

\* Aligned inputs have a number of rows.
LEMMA RowsAreNatural ==
  ASSUME NEW d \in Distros, NEW pt, Len(pt.cells) \in Nat
  PROVE  RowsOf(d, pt) \in Nat
<1>1. \A p \in DOMAIN d.args : Len(d.args[p].cells) \in Nat
  BY ObjectsAssumption DEF IsObject
<1>2. LengthsOf(d, pt) \subseteq Nat /\ LengthsOf(d, pt) # {}
  BY <1>1 DEF LengthsOf
<1>3. LengthsOf(d, pt) # {1} => \E n \in LengthsOf(d, pt) \ {1} : TRUE
  BY <1>2
<1> QED BY <1>2, <1>3 DEF RowsOf

\* However the rows are cut, each of them is some call's, and no call has a row the frame has not.
LEMMA CutsAreTheRows ==
  ASSUME NEW count \in Nat, NEW cut \in {Whole(count)} \cup (IF count > 0 THEN Cuts(count) ELSE {})
  PROVE  /\ \A r \in 1 .. count : \E m \in cut : r \in m.from .. m.to
         /\ \A m \in cut : m.from .. m.to \subseteq 1 .. count
<1>1. CASE cut = Whole(count)
  BY <1>1 DEF Whole
<1>2. CASE cut \in Cuts(count)
  <2>1. \A m \in cut : m \in [from : 1 .. count, to : 1 .. count]
    BY <1>2 DEF Cuts, Intervals
  <2>2. \A r \in 1 .. count : \E m \in cut : Covers(m, r)
    BY <1>2 DEF Cuts
  <2> QED BY <2>1, <2>2 DEF Covers
<1> QED BY <1>1, <1>2

\* A row of an answer was valid wherever a call over its morsel did not raise.
LEMMA AnsweredRowsAreValid ==
  ASSUME NEW d, IsDistro(d), NEW query, NEW some, NEW r \in some, ~ QueryRaises(d, query, some)
  PROVE  RowValid(d, CellsAt(d, r))
<1>1. \A q \in RowsChecked(d, some) : RowValid(d, CellsAt(d, q))
  BY RaisesOverCells DEF PluginRaises
<1>2. CASE \A p \in DOMAIN d.args : Len(d.args[p].cells) = 1
  <2>1. CellsAt(d, r) = CellsAt(d, 1)
    BY <1>2 DEF CellsAt, At
  <2> QED BY <1>1, <1>2, <2>1 DEF RowsChecked
<1>3. CASE ~ \A p \in DOMAIN d.args : Len(d.args[p].cells) = 1
  BY <1>1, <1>3 DEF RowsChecked
<1> QED BY <1>2, <1>3

\* A call over fewer rows raises for no other reason.
LEMMA RaisesAsTheWhole ==
  ASSUME NEW d, IsDistro(d), NEW query, NEW all, NEW some \in SUBSET all, QueryRaises(d, query, some)
  PROVE  PluginRaises(d, {CellsAt(d, r) : r \in RowsChecked(d, all)})
<1>1. PluginRaises(d, {CellsAt(d, r) : r \in RowsChecked(d, some)})
  BY RaisesOverCells
<1>2. RowsChecked(d, some) \subseteq RowsChecked(d, all)
  BY DEF RowsChecked
<1> QED BY <1>1, <1>2 DEF PluginRaises

-----------------------------------------------------------------------------
\* What the constructor did with an argument of parameter p.
Coerced(d, p) == CoerceError(Classes[d.class].spelled[p], d.args[p])

\* A constructor that built refused no argument; one that did not refused some, with its error.
LEMMA ConstructorAnswers ==
  ASSUME NEW d, IsDistro(d)
  PROVE  /\ FirstError(d) \in {"built", "TypeError", "ValueError"}
         /\ FirstError(d) = "built" => \A p \in DOMAIN d.args : Coerced(d, p) = "ok"
         /\ FirstError(d) # "built" => \E p \in DOMAIN d.args : Coerced(d, p) = FirstError(d)
<1> DEFINE params == Classes[d.class].params
           errors == [i \in DOMAIN params |-> Coerced(d, params[i])]
           refused == {i \in DOMAIN params : errors[i] # "ok"}
<1>1. /\ \A i \in DOMAIN params : i \in Nat /\ params[i] \in DOMAIN d.args
      /\ \A p \in DOMAIN d.args : \E i \in DOMAIN params : params[i] = p
  BY EveryClass DEF ParamsAgree, IsDistro
<1>2. \A p : Coerced(d, p) \in {"ok", "TypeError", "ValueError"}
  BY DEF Coerced, CoerceError
<1>3. FirstError(d) = IF refused = {} THEN "built" ELSE errors[Min(refused)]
  BY DEF FirstError, Coerced
<1>4. refused # {} => Min(refused) \in refused
  <2>1. refused \in SUBSET Nat
    BY <1>1
  <2> HIDE DEF refused
  <2>2. refused # {} => \E x \in refused : \A y \in refused : x <= y
    BY <2>1, LeastNatural
  <2> QED BY <2>2 DEF Min
<1>5. CASE refused = {}
  <2>1. \A i \in DOMAIN params : Coerced(d, params[i]) = "ok"
    BY <1>5
  <2> HIDE DEF params, errors, refused
  <2> QED BY <1>1, <1>3, <1>5, <2>1
<1>6. CASE refused # {}
  <2> DEFINE p == params[Min(refused)]
  <2>1. Min(refused) \in DOMAIN params /\ errors[Min(refused)] = Coerced(d, p) /\ Coerced(d, p) # "ok"
    BY <1>4, <1>6
  <2> HIDE DEF params, errors, refused
  <2>2. p \in DOMAIN d.args /\ FirstError(d) = Coerced(d, p)
    BY <1>1, <1>3, <1>6, <2>1
  <2> QED BY <1>2, <2>1, <2>2
<1> QED BY <1>5, <1>6

\* An integer the constructor passed is one the wire has room for, and a count is not negative.
LEMMA BuiltIsWireable ==
  ASSUME NEW d \in Distros, FirstError(d) = "built"
  PROVE  Signed(d) \subseteq WireInt /\ Counts(d) \subseteq Nat
<1>1. IsDistro(d) /\ \A p \in DOMAIN d.args : Classes[d.class].spelled[p] \in {"float", "count", "int"}
  BY ObjectsAssumption, EveryClass DEF IsDistro, ParamsAgree
<1>2. \A p \in DOMAIN d.args : Coerced(d, p) = "ok"
  BY <1>1, ConstructorAnswers
<1>3. MaxWireInt \in Nat
  BY WireAssumption
<1>4. ASSUME NEW p \in DOMAIN d.args, d.args[p].kind = "int"
      PROVE  /\ Scalar(d.args[p]) \in WireInt
             /\ Classes[d.class].spelled[p] = "count" => Scalar(d.args[p]) \in Nat
  <2>1. CASE Classes[d.class].spelled[p] = "count"
    <3>1. Scalar(d.args[p]) \in 0 .. MaxWireInt
      BY <1>2, <1>4, <2>1 DEF Coerced, CoerceError, IsColumn
    <3> QED BY <1>3, <3>1 DEF WireInt
  <2>2. CASE Classes[d.class].spelled[p] = "int"
    BY <1>2, <1>4, <2>2 DEF Coerced, CoerceError, IsColumn
  <2>3. CASE Classes[d.class].spelled[p] = "float"
    BY <1>2, <1>4, <2>3 DEF Coerced, CoerceError, IsColumn
  <2> QED BY <1>1, <2>1, <2>2, <2>3
<1> QED BY <1>4 DEF Signed, Counts

\* A ValueError names an integer that does not fit.
LEMMA RefusedIsUnwireable ==
  ASSUME NEW d \in Distros, FirstError(d) = "ValueError"
  PROVE  ~ (Signed(d) \subseteq WireInt /\ Counts(d) \subseteq Nat)
<1>1. IsDistro(d) /\ \A p \in DOMAIN d.args : IsObject(d.args[p])
  BY ObjectsAssumption DEF IsDistro
<1>2. PICK p \in DOMAIN d.args : Coerced(d, p) = "ValueError"
  BY <1>1, ConstructorAnswers
<1> DEFINE x == d.args[p]
           spelled == Classes[d.class].spelled[p]
<1>3. /\ x.kind = "int"
      /\ \/ spelled = "count" /\ Scalar(x) \notin 0 .. MaxWireInt
         \/ spelled = "int" /\ Scalar(x) \notin WireInt
  BY <1>2 DEF Coerced, CoerceError
<1>4. Scalar(x) \in Int /\ MaxWireInt \in Nat
  BY <1>1, <1>3, WireAssumption DEF IsObject
<1>5. Scalar(x) \in Signed(d) /\ (spelled = "count" => Scalar(x) \in Counts(d))
  BY <1>3 DEF Signed, Counts
<1> HIDE DEF x, spelled
<1>6. spelled = "count" => Scalar(x) \notin WireInt \/ Scalar(x) \notin Nat
  BY <1>3, <1>4 DEF WireInt
<1> QED BY <1>3, <1>5, <1>6

\* A TypeError names a scalar that is not of its parameter's type.
LEMMA RefusedIsMistyped ==
  ASSUME NEW d \in Distros, FirstError(d) = "TypeError"
  PROVE  \E p \in DOMAIN d.args :
           LET x == d.args[p] IN
           ~ IsColumn(x) /\ x.kind # (IF Classes[d.class].spelled[p] = "float" THEN "float" ELSE "int")
<1>1. IsDistro(d) /\ \A p \in DOMAIN d.args : Classes[d.class].spelled[p] \in {"float", "count", "int"}
  BY ObjectsAssumption, EveryClass DEF IsDistro, ParamsAgree
<1>2. PICK p \in DOMAIN d.args : Coerced(d, p) = "TypeError"
  BY <1>1, ConstructorAnswers
<1> DEFINE x == d.args[p]
           spelled == Classes[d.class].spelled[p]
<1>3. spelled \in {"float", "count", "int"} /\ CoerceError(spelled, x) = "TypeError"
  BY <1>1, <1>2 DEF Coerced
<1>4. ~ IsColumn(x) /\ x.kind # (IF spelled = "float" THEN "float" ELSE "int")
  <2> HIDE DEF x, spelled
  <2>0. ~ IsColumn(x)
    BY <1>3 DEF CoerceError
  <2>1. CASE spelled = "float"
    BY <1>3, <2>0, <2>1 DEF CoerceError
  <2>2. CASE spelled = "count"
    BY <1>3, <2>0, <2>2 DEF CoerceError
  <2>3. CASE spelled = "int"
    BY <1>3, <2>0, <2>3 DEF CoerceError
  <2> QED BY <1>3, <2>0, <2>1, <2>2, <2>3
<1> QED BY <1>4

\* What _draw makes of a distribution that was built and a size and a seed that were accepted.
LEMMA DrawsAreGood ==
  ASSUME NEW d \in Distros, d.class = DrawClass, NEW kind \in {"sample", "samples"},
         NEW size \in Sizes, NEW seed \in Seeds, NEW h \in Heights(d),
         DrawError(size, seed) = "ok", ~ Scalar(size) > MaxWireInt
  PROVE  LET f == DrawFrame(d, kind, Scalar(size), seed, h) IN
         GoodFrame(f) /\ f.size \in 1 .. MaxWireInt /\ f.seed \in (0 .. MaxWireInt) \cup {NoSeed}
<1> DEFINE f == DrawFrame(d, kind, Scalar(size), seed, h)
<1>1. /\ DOMAIN d.args = Params /\ \A p \in Params : d.args[p].cells \in Seq(Values \cup {NULL})
      /\ \A p \in Params : IsObject(d.args[p])
  BY ObjectsAssumption
<1>2. Scalar(size) \in 1 .. MaxWireInt
  <2>1. size.kind = "int" /\ ~ Scalar(size) <= 0
    BY DEF DrawError, SizeError
  <2>2. Scalar(size) \in Int /\ MaxWireInt \in Nat
    BY <2>1, ObjectsAssumption, WireAssumption DEF IsObject
  <2> QED BY <2>1, <2>2
<1>3. f.seed \in (0 .. MaxWireInt) \cup {NoSeed} /\ f.seed \in Roots \cup {NoSeed}
  <2>1. SeedError(seed) = "ok"
    BY DEF DrawError
  <2>2. CASE seed.kind = "none"
    BY <2>2 DEF DrawFrame
  <2>3. CASE seed.kind # "none"
    <3>1. seed.kind = "int" /\ Scalar(seed) \in 0 .. MaxWireInt
      BY <2>1, <2>3 DEF SeedError
    <3>2. Scalar(seed) \in Roots
      BY <3>1, ObjectsAssumption
    <3> QED BY <3>1, <3>2 DEF DrawFrame
  <2> QED BY <2>2, <2>3
<1>4. h \in Nat /\ \A p \in Params : d.args[p].kind = "bare" => Len(d.args[p].cells) = h
  BY <1>1, ObjectsAssumption DEF Heights
<1>5. Scalar(size) \in Nat \ {0}
  BY <1>2, WireAssumption
<1>6. f \in FrameType
  <2>1. /\ f.cols \in [Params -> Seq(Values \cup {NULL})]
        /\ f.bare \in [Params -> BOOLEAN]
        /\ f.numeric \in [Params -> BOOLEAN]
    BY <1>1 DEF DrawFrame, IsObject
  <2>2. Route(d) \in {"scalar", "columns"}
    BY DEF Route
  <2> DEFINE size0 == Scalar(size)
  <2> HIDE DEF size0
  <2> QED BY <1>3, <1>4, <1>5, <2>1, <2>2 DEF DrawFrame, FrameType
<1>7. \A p \in Params : f.bare[p] => Len(f.cols[p]) = f.height
  BY <1>4 DEF DrawFrame
<1>8. f.route = "scalar" => \A p \in Params : Len(f.cols[p]) = 1
  BY <1>1 DEF DrawFrame, Route, AllScalars, IsObject
<1>9. f.size = Scalar(size)
  BY DEF DrawFrame
<1> HIDE DEF f
<1>10. GoodFrame(f) /\ f.size \in 1 .. MaxWireInt /\ f.seed \in (0 .. MaxWireInt) \cup {NoSeed}
  BY <1>2, <1>3, <1>6, <1>7, <1>8, <1>9 DEF GoodFrame
<1> QED BY <1>10 DEF f

-----------------------------------------------------------------------------
\* An answer over some rows, each of them valid, follows the parameters.
LEMMA EvaluateFollows ==
  ASSUME PythonIInv, EvaluateQuery
  PROVE  MomentsFollowTheirParameters'
<1> DEFINE d == distro
           count == RowsOf(d, asked.point)
<1>1. /\ d \in Distros /\ IsDistro(d) /\ IsQuery(asked) /\ stage = "asked"
      /\ distro' = d /\ asked' = asked
  BY ObjectsAssumption DEF PythonIInv, EvaluateQuery, Evaluate, IsDistro, IsQuery
<1>2. count \in Nat
  <2>1. Len(asked.point.cells) \in Nat
    <3>1. CASE asked.point = Object("expr", <<Half>>)
      BY <3>1 DEF Object
    <3>2. CASE asked.point \in Points
      BY <3>2, ObjectsAssumption DEF IsObject
    <3> QED BY <1>1, <3>1, <3>2 DEF IsQuery
  <2> QED BY <1>1, <2>1, RowsAreNatural
<1>3. PICK cut \in {Whole(count)} \cup (IF count > 0 THEN Cuts(count) ELSE {}) : Evaluate(cut)
  BY DEF EvaluateQuery
<1>4. /\ \A r \in 1 .. count : \E m \in cut : r \in m.from .. m.to
      /\ \A m \in cut : m.from .. m.to \subseteq 1 .. count
  <2> HIDE DEF count
  <2> QED BY <1>2, CutsAreTheRows
<1>5. CASE ~ Fits(d, asked.point)
  <2>1. stage' = "raised"
    BY <1>3, <1>5 DEF Evaluate
  <2> QED BY <1>1, <1>5, <2>1 DEF MomentsFollowTheirParameters
<1>6. CASE \E m \in cut : QueryRaises(d, asked, m.from .. m.to)
  <2>1. stage' = "raised"
    BY <1>3, <1>6 DEF Evaluate
  <2>2. PICK m \in cut : QueryRaises(d, asked, m.from .. m.to)
    BY <1>6
  <2>3. PluginRaises(d, {CellsAt(d, r) : r \in RowsChecked(d, 1 .. count)})
    <3>1. m.from .. m.to \in SUBSET (1 .. count)
      BY <1>4
    <3> HIDE DEF count, d
    <3> QED BY <1>1, <2>2, <3>1, RaisesAsTheWhole
  <2> QED BY <1>1, <2>1, <2>3 DEF MomentsFollowTheirParameters
<1>7. CASE Fits(d, asked.point) /\ ~ \E m \in cut : QueryRaises(d, asked, m.from .. m.to)
  <2>1. stage' = "answered" /\ answer' = [r \in 1 .. count |-> AnswerAt(d, asked, r)]
    BY <1>3, <1>7 DEF Evaluate
  <2>2. ASSUME NEW r \in 1 .. count
        PROVE  /\ RowValid(d, CellsAt(d, r))
               /\ Follows(AnswerAt(d, asked, r), CellsAt(d, r), Missing(d, asked, r))
               /\ AnswerAt(d, asked, r) = AnswerAt(AsLiterals(d), asked, r)
    <3>1. RowValid(d, CellsAt(d, r))
      <4>1. PICK m \in cut : r \in m.from .. m.to
        BY <1>4
      <4> HIDE DEF d
      <4> QED BY <1>1, <1>7, <4>1, AnsweredRowsAreValid
    <3>2. /\ DOMAIN CellsAt(d, r) = DOMAIN d.args
          /\ \A p \in DOMAIN d.args : CellsAt(d, r)[p] \in Int \cup {NaN, NULL}
      BY <1>1, <1>7, CellsAreTyped
    <3> HIDE DEF d
    <3>3. Follows(AnswerAt(d, asked, r), CellsAt(d, r), Missing(d, asked, r))
      BY <1>1, <3>2, AnswerFollows
    <3> QED BY <1>1, <3>1, <3>3, LiteralsAgree
  <2>3. \A r \in DOMAIN answer' : r \in 1 .. count /\ answer'[r] = AnswerAt(d, asked, r)
    BY <2>1
  <2> QED BY <1>1, <2>1, <2>2, <2>3 DEF MomentsFollowTheirParameters, Follows
<1> QED BY <1>5, <1>6, <1>7

\* Before any call.
LEMMA PythonStart == PythonInit => PythonIInv
  BY FrameStarts DEF PythonInit, PythonIInv, Stages, MomentsFollowTheirParameters, OnlyTheWireable

\* A constructor raises with a cause, or has built what the wire has room for.
LEMMA ConstructKeeps ==
  ASSUME PythonIInv, NEW d \in Distros, Construct(d)
  PROVE  PythonIInv'
<1>1. FrameIInv'
  BY StutterKeepsFrame DEF Construct, PythonIInv
<1>2. distro' = d /\ stage' = FirstError(d)
  BY DEF Construct
<1>3. FirstError(d) \in {"built", "TypeError", "ValueError"}
  <2>1. IsDistro(d)
    BY ObjectsAssumption DEF IsDistro
  <2> QED BY <2>1, ConstructorAnswers
<1>4. MomentsFollowTheirParameters'
  BY <1>2, <1>3 DEF MomentsFollowTheirParameters
<1>5. OnlyTheWireable'
  BY <1>2, <1>3, RefusedIsUnwireable, RefusedIsMistyped DEF OnlyTheWireable
<1> QED BY <1>1, <1>2, <1>3, <1>4, <1>5 DEF PythonIInv, Stages

\* What sample and samples refuse is a size below 1 or a seed the wire has no room for.
LEMMA RefuseDrawsKeeps ==
  ASSUME PythonIInv, NEW size \in Sizes, NEW seed \in Seeds, RefuseDraws(size, seed)
  PROVE  PythonIInv'
<1>1. FrameIInv'
  BY StutterKeepsFrame DEF RefuseDraws, PythonIInv
<1>2. /\ stage = "built" /\ distro' = distro
      /\ stage' = IF DrawError(size, seed) = "TypeError" THEN "call TypeError" ELSE "call ValueError"
      /\ asked' = [method |-> "samples", size |-> size, seed |-> seed]
      /\ DrawError(size, seed) # "ok"
  BY DEF RefuseDraws
<1>3. asked'.size = size /\ asked'.seed = seed
  BY <1>2
<1>4. stage' = "call ValueError" =>
        \/ size.kind = "int" /\ Scalar(size) < 1
        \/ seed.kind = "int" /\ Scalar(seed) \notin 0 .. MaxWireInt
  <2>1. stage' = "call ValueError" => DrawError(size, seed) = "ValueError"
    BY <1>2 DEF DrawError, SizeError, SeedError
  <2>2. size.kind = "int" => Scalar(size) \in Int
    BY ObjectsAssumption DEF IsObject
  <2>3. ASSUME SizeError(size) = "ValueError"
        PROVE  size.kind = "int" /\ Scalar(size) < 1
    BY <2>2, <2>3 DEF SizeError
  <2>4. ASSUME SeedError(seed) = "ValueError"
        PROVE  seed.kind = "int" /\ Scalar(seed) \notin 0 .. MaxWireInt
    BY <2>4 DEF SeedError
  <2> QED BY <2>1, <2>3, <2>4 DEF DrawError
<1>5. stage' \in {"call TypeError", "call ValueError"}
  BY <1>2
<1>6. MomentsFollowTheirParameters'
  BY <1>5 DEF MomentsFollowTheirParameters
<1>7. OnlyTheWireable'
  BY <1>3, <1>4, <1>5 DEF OnlyTheWireable
<1> QED BY <1>1, <1>2, <1>5, <1>6, <1>7 DEF PythonIInv, Stages

\* A draw starts over a frame that is made as frames are.
LEMMA AskDrawsKeeps ==
  ASSUME PythonIInv, NEW kind \in {"sample", "samples"}, NEW size \in Sizes, NEW seed \in Seeds,
         AskDraws(kind, size, seed)
  PROVE  PythonIInv'
<1>1. /\ stage = "built" /\ distro \in Distros /\ distro' = distro /\ FirstError(distro) = "built"
      /\ distro.class = DrawClass /\ DrawError(size, seed) = "ok"
  BY DEF AskDraws, PythonIInv
<1>2. CASE Scalar(size) > MaxWireInt
  <2>1. stage' = "undeliverable" /\ UNCHANGED frameVars
    BY <1>2 DEF AskDraws
  <2>2. FrameIInv'
    BY <2>1, StutterKeepsFrame DEF PythonIInv
  <2> QED BY <1>1, <2>1, <2>2 DEF PythonIInv, Stages, MomentsFollowTheirParameters, OnlyTheWireable
<1>3. CASE ~ Scalar(size) > MaxWireInt
  <2>1. PICK h \in Heights(distro) : Submit(DrawFrame(distro, kind, Scalar(size), seed, h))
    BY <1>3 DEF AskDraws
  <2> DEFINE f == DrawFrame(distro, kind, Scalar(size), seed, h)
  <2>2. stage' = "drawing"
    BY <1>3 DEF AskDraws
  <2>3. GoodFrame(f) /\ f.size \in 1 .. MaxWireInt /\ f.seed \in (0 .. MaxWireInt) \cup {NoSeed}
    BY <1>1, <1>3, DrawsAreGood
  <2>4. FrameIInv' /\ frame' = f
    <3> HIDE DEF f
    <3>1. Submit(f)
      BY <2>1 DEF f
    <3> QED BY <2>3, <3>1, SubmitKeepsFrame DEF PythonIInv, Submit
  <2>5. Signed(distro) \subseteq WireInt /\ Counts(distro) \subseteq Nat
    BY <1>1, BuiltIsWireable
  <2> HIDE DEF f
  <2>6. MomentsFollowTheirParameters'
    BY <2>2 DEF MomentsFollowTheirParameters
  <2>7. OnlyTheWireable'
    BY <1>1, <2>2, <2>3, <2>4, <2>5 DEF OnlyTheWireable
  <2> QED BY <1>1, <2>2, <2>3, <2>4, <2>6, <2>7 DEF PythonIInv, Stages
<1> QED BY <1>2, <1>3

\* A moment is asked of what was built.
LEMMA AskMomentKeeps ==
  ASSUME PythonIInv, NEW moment \in Moments, AskMoment(moment)
  PROVE  PythonIInv'
<1>1. FrameIInv'
  BY StutterKeepsFrame DEF AskMoment, PythonIInv
<1>2. /\ distro \in Distros /\ distro' = distro /\ FirstError(distro) = "built" /\ stage' = "asked"
      /\ asked'.method = moment /\ asked'.point = Object("expr", <<Half>>)
  BY DEF AskMoment, PythonIInv
<1>3. Signed(distro) \subseteq WireInt /\ Counts(distro) \subseteq Nat
  BY <1>2, BuiltIsWireable
<1> QED BY <1>1, <1>2, <1>3 DEF PythonIInv, Stages, MomentsFollowTheirParameters, OnlyTheWireable

\* So is a value-keyed method, at any number or column.
LEMMA AskValueKeeps ==
  ASSUME PythonIInv, NEW pt \in Points, AskValue(pt)
  PROVE  PythonIInv'
<1>1. FrameIInv'
  BY StutterKeepsFrame DEF AskValue, PythonIInv
<1>2. /\ distro \in Distros /\ distro' = distro /\ FirstError(distro) = "built"
      /\ stage' \in {"asked", "call TypeError"}
      /\ asked'.method = "cdf" /\ asked'.point = pt
  BY DEF AskValue, PythonIInv
<1>3. Signed(distro) \subseteq WireInt /\ Counts(distro) \subseteq Nat
  BY <1>2, BuiltIsWireable
<1>4. "cdf" \notin Moments
  BY DEF Moments
<1> QED BY <1>1, <1>2, <1>3, <1>4 DEF PythonIInv, Stages, MomentsFollowTheirParameters, OnlyTheWireable

\* The engine answers, or raises.
LEMMA EvaluateKeeps ==
  ASSUME PythonIInv, EvaluateQuery
  PROVE  PythonIInv'
<1>1. UNCHANGED frameVars /\ distro' = distro /\ stage' \in {"raised", "answered"} /\ stage = "asked"
  BY DEF EvaluateQuery, Evaluate
<1>2. FrameIInv'
  BY <1>1, StutterKeepsFrame DEF PythonIInv
<1>3. distro \in Distros /\ FirstError(distro) = "built"
  BY <1>1 DEF PythonIInv
<1>4. Signed(distro) \subseteq WireInt /\ Counts(distro) \subseteq Nat
  BY <1>3, BuiltIsWireable
<1>5. OnlyTheWireable'
  BY <1>1, <1>4 DEF OnlyTheWireable
<1> QED BY <1>1, <1>2, <1>3, <1>5, EvaluateFollows DEF PythonIInv, Stages

\* The engine answers a draw call by call.
LEMMA DrawStepKeeps ==
  ASSUME PythonIInv, DrawStep
  PROVE  PythonIInv'
<1>1. stage = "drawing" /\ Proceed /\ UNCHANGED <<distro, stage, asked, answer>>
  BY DEF DrawStep, pythonVars
<1>2. FrameIInv'
  BY <1>1, ProceedKeepsFrame DEF PythonIInv
<1>3. frame' = frame
  BY <1>1 DEF Proceed, AnswerMorsel, FailMorsel, Concatenate
<1>4. OnlyTheWireable' /\ MomentsFollowTheirParameters'
  BY <1>1, <1>3 DEF PythonIInv, OnlyTheWireable, MomentsFollowTheirParameters
<1> QED BY <1>1, <1>2, <1>3, <1>4 DEF PythonIInv

\* Nothing changes where no variable does.
LEMMA PythonStutterKeeps ==
  ASSUME PythonIInv, UNCHANGED <<frameVars, pythonVars>>
  PROVE  PythonIInv'
<1>1. UNCHANGED frameVars /\ UNCHANGED <<distro, stage, asked, answer>>
  BY DEF pythonVars
<1>2. FrameIInv' /\ frame' = frame
  BY <1>1, StutterKeepsFrame DEF PythonIInv, frameVars
<1>3. OnlyTheWireable' /\ MomentsFollowTheirParameters'
  BY <1>1, <1>2 DEF PythonIInv, OnlyTheWireable, MomentsFollowTheirParameters
<1> QED BY <1>1, <1>2, <1>3 DEF PythonIInv

-----------------------------------------------------------------------------
\* Whatever is called, in whatever order: the invariant the results below follow from.
THEOREM PythonCallsInvariant == PythonSpec => []PythonIInv
<1>1. PythonInit => PythonIInv
  BY PythonStart
<1>2. PythonIInv /\ [PythonNext]_<<frameVars, pythonVars>> => PythonIInv'
  <2> SUFFICES ASSUME PythonIInv, [PythonNext]_<<frameVars, pythonVars>> PROVE PythonIInv'
    OBVIOUS
  <2>1. CASE UNCHANGED <<frameVars, pythonVars>>
    BY <2>1, PythonStutterKeeps
  <2>2. CASE PythonNext
    BY <2>2, ConstructKeeps, RefuseDrawsKeeps, AskDrawsKeeps, AskMomentKeeps, AskValueKeeps, EvaluateKeeps,
       DrawStepKeeps, PythonStutterKeeps DEF PythonNext
  <2> QED BY <2>1, <2>2
<1> QED BY <1>1, <1>2, PTL DEF PythonSpec

(***************************************************************************)
(* The engine, the cut into morsels and the order they are answered in do  *)
(* not show in a seeded answer, for every distribution draws are asked of  *)
(* and every frame (_draw, row_index_expr).                                *)
(***************************************************************************)
THEOREM AnswersAreTheFrames == PythonSpec => []AnswerIsFrames
<1>1. PythonIInv => AnswerIsFrames
  BY FrameAnswers DEF PythonIInv
<1> QED BY <1>1, PythonCallsInvariant, PTL

\* No two rows of an answer are drawn from one stream (row_index_expr).
THEOREM StreamsAreTheRows == PythonSpec => []RowsHaveOwnStreams
<1>1. PythonIInv => RowsHaveOwnStreams
  BY FrameStreams DEF PythonIInv
<1> QED BY <1>1, PythonCallsInvariant, PTL

\* A frame answers only if one call over it would, and raises only if one could (_draw).
THEOREM FramesRaiseAsOneCall == PythonSpec => []RaisesAsOneCall
<1>1. PythonIInv => RaisesAsOneCall
  BY FrameRaises DEF PythonIInv
<1> QED BY <1>1, PythonCallsInvariant, PTL

\* A moment or a value-keyed method follows the parameters of its own row (_moment, _validated, _param_plugin).
THEOREM MomentsFollow == PythonSpec => []MomentsFollowTheirParameters
<1>1. PythonIInv => MomentsFollowTheirParameters
  BY DEF PythonIInv
<1> QED BY <1>1, PythonCallsInvariant, PTL

\* What reaches a plugin fits the wire, and what is refused does not (coerce_n, coerce_int, _checked_seed).
THEOREM OnlyTheWireableIsSent == PythonSpec => []OnlyTheWireable
<1>1. PythonIInv => OnlyTheWireable
  BY DEF PythonIInv
<1> QED BY <1>1, PythonCallsInvariant, PTL

-----------------------------------------------------------------------------
(***************************************************************************)
(* Chunks.                                                                 *)
(***************************************************************************)

\* A chunk starts at row 1, and after every chunk but the last another one does.
LEMMA ChunkStarts ==
  ASSUME NEW n \in Nat, NEW M \in Cuts(n)
  PROVE  /\ M \subseteq [from : 1 .. n, to : 1 .. n]
         /\ \A m \in M : m.from <= m.to
         /\ n > 0 => \E m \in M : m.from = 1
         /\ \A m \in M : m.to # n => \E k \in M : k.from = m.to + 1
<1>1. M \subseteq Intervals(n) /\ \A r \in 1 .. n :
        /\ \E m \in M : Covers(m, r)
        /\ \A m, k \in M : Covers(m, r) /\ Covers(k, r) => m = k
  BY DEF Cuts
<1>2. M \subseteq [from : 1 .. n, to : 1 .. n] /\ \A m \in M : m.from <= m.to
  BY <1>1 DEF Intervals
<1>3. ASSUME n > 0 PROVE \E m \in M : m.from = 1
  <2>1. PICK m \in M : Covers(m, 1)
    BY <1>1, <1>3
  <2> QED BY <1>2, <2>1 DEF Covers
<1>4. ASSUME NEW m \in M, m.to # n PROVE \E k \in M : k.from = m.to + 1
  <2>1. m.from \in 1 .. n /\ m.to \in 1 .. n /\ m.from <= m.to
    BY <1>2
  <2>2. m.to + 1 \in 1 .. n
    BY <1>4, <2>1
  <2>3. PICK k \in M : Covers(k, m.to + 1)
    BY <1>1, <2>2
  <2>4. k.from \in 1 .. n /\ k.to \in 1 .. n
    BY <1>2
  <2>5. CASE k.from <= m.to
    <3>1. Covers(k, m.to) /\ Covers(m, m.to)
      BY <2>1, <2>3, <2>4, <2>5 DEF Covers
    <3>2. k = m
      BY <1>1, <2>1, <3>1
    <3> QED BY <2>1, <2>3, <3>2 DEF Covers
  <2> QED BY <2>1, <2>3, <2>4, <2>5 DEF Covers
<1> QED BY <1>2, <1>3, <1>4

\* A reading that stands at a chunk's start, and the one that follows it.
LEMMA NextChunk ==
  ASSUME Rows \in Nat, NEW M \in Cuts(Rows), NEW r \in 1 .. Rows, AtChunk(M, r)
  PROVE  /\ ChunkAt(M, r) \in M /\ ChunkAt(M, r).from = r
         /\ ChunkAt(M, r).to \in r .. Rows
         /\ After(ChunkAt(M, r)) \in 1 .. Rows + 1
         /\ AtChunk(M, After(ChunkAt(M, r)))
<1> DEFINE m == ChunkAt(M, r)
<1>1. m \in M /\ m.from = r
  <2>1. \E k \in M : k.from = r
    BY DEF AtChunk
  <2> QED BY <2>1 DEF ChunkAt
<1> HIDE DEF m
<1>2. m.to \in r .. Rows
  BY <1>1, ChunkStarts
<1>3. AtChunk(M, m.to + 1)
  BY <1>1, <1>2, ChunkStarts DEF AtChunk
<1> QED BY <1>1, <1>2, <1>3 DEF After, m

\* Every layout's first chunk is where a reading starts.
LEMMA FirstChunk ==
  ASSUME Rows \in Nat, NEW M \in Cuts(Rows)
  PROVE  AtChunk(M, 1)
BY ChunkStarts DEF AtChunk

-----------------------------------------------------------------------------
(***************************************************************************)
(* What a fast pass says of a chunk is what its cells say.                 *)
(***************************************************************************)

\* A cell is a value or NULL, and tells which.
LEMMA CellTypes ==
  ASSUME TypeOK, NEW p \in Params, NEW r \in 1 .. Rows
  PROVE  /\ columns[p].valid[r] \in BOOLEAN /\ columns[p].values[r] \in Values
         /\ Cells(r)[p] = (IF columns[p].valid[r] THEN columns[p].values[r] ELSE NULL)
         /\ Cells(r)[p] \in Values \cup {NULL}
         /\ Cells(r)[p] # NULL <=> columns[p].valid[r]
<1>1. columns[p] \in ColumnType(Rows)
  BY DEF TypeOK
<1>2. columns[p].valid[r] \in BOOLEAN /\ columns[p].values[r] \in Values
  BY <1>1 DEF ColumnType
<1> QED BY <1>2, DomainAssumption DEF Cells, Cell

LEMMA OwnChunk ==
  ASSUME TypeOK, NEW p \in Params, NEW m, m.from \in 1 .. Rows, m.to \in 1 .. Rows
  PROVE  ChunkAccepted(columns[p], p, m) <=> \A r \in m.from .. m.to : OwnHolds(p, r)
<1>1. \A r \in m.from .. m.to : r \in 1 .. Rows
  BY DEF TypeOK
<1>2. ASSUME NEW r \in m.from .. m.to
      PROVE  OwnHolds(p, r) <=> ~ columns[p].valid[r] \/ columns[p].values[r] \in Accepted[p]
  <2>1. r \in 1 .. Rows
    BY <1>1
  <2>2. /\ Cells(r)[p] = (IF columns[p].valid[r] THEN columns[p].values[r] ELSE NULL)
        /\ columns[p].values[r] # NULL
    BY <2>1, CellTypes, DomainAssumption
  <2> QED BY <2>2 DEF OwnHolds
<1>3. CASE HasNulls(columns[p], m)
  BY <1>2, <1>3 DEF ChunkAccepted
<1>4. CASE ~ HasNulls(columns[p], m)
  BY <1>2, <1>4 DEF ChunkAccepted, HasNulls
<1> QED BY <1>3, <1>4

LEMMA JointChunk ==
  ASSUME TypeOK, NEW m, m.from \in 1 .. Rows, m.to \in 1 .. Rows,
         NEW chunk, chunk = [p \in Params |-> m]
  PROVE  PairAccepted(chunk) <=> \A r \in m.from .. m.to : JointRuleHolds(Cells(r))
<1> DEFINE offsets == {j \in 0 .. Rows : \A p \in Params : chunk[p].from + j <= chunk[p].to}
<1>1. Rows \in Nat /\ \A p \in Params : chunk[p] = m
  BY DEF TypeOK
<1>2. Params # {}
  BY ColumnsAssumption
<1>3. \A j \in offsets : m.from + j \in m.from .. m.to
  BY <1>1, <1>2
<1>4. \A r \in m.from .. m.to : r - m.from \in offsets /\ m.from + (r - m.from) = r
  BY <1>1
<1>5. \A j \in offsets : Paired(chunk, j) = Cells(m.from + j)
  BY <1>1 DEF Paired, Cells
<1>6. ASSUME \A p \in Params : ~ HasNulls(columns[p], chunk[p]), NEW j \in offsets
      PROVE  PairedValues(chunk, j) \in Joint <=> JointRuleHolds(Cells(m.from + j))
  <2>1. m.from + j \in m.from .. m.to /\ m.from + j \in 1 .. Rows
    BY <1>1, <1>3
  <2>2. \A p \in Params : columns[p].valid[m.from + j]
    BY <1>1, <1>6, <2>1 DEF HasNulls
  <2>3. \A p \in Params : Cells(m.from + j)[p] = columns[p].values[m.from + j] /\ Cells(m.from + j)[p] # NULL
    BY <2>1, <2>2, CellTypes
  <2>4. PairedValues(chunk, j) = Cells(m.from + j) /\ Present(Cells(m.from + j))
    BY <1>1, <2>3 DEF PairedValues, Cells, Present
  <2> QED BY <2>4 DEF JointRuleHolds
<1> HIDE DEF offsets
<1>7. CASE \A p \in Params : ~ HasNulls(columns[p], chunk[p])
  <2>1. PairAccepted(chunk) <=> \A j \in offsets : PairedValues(chunk, j) \in Joint
    BY <1>7 DEF PairAccepted, offsets
  <2> QED BY <1>3, <1>4, <1>6, <1>7, <2>1
<1>8. CASE ~ \A p \in Params : ~ HasNulls(columns[p], chunk[p])
  <2>1. PairAccepted(chunk) <=> \A j \in offsets : JointRuleHolds(Paired(chunk, j))
    BY <1>8 DEF PairAccepted, offsets
  <2> QED BY <1>3, <1>4, <1>5, <2>1
<1> QED BY <1>7, <1>8

-----------------------------------------------------------------------------
(***************************************************************************)
(* The steps.                                                              *)
(***************************************************************************)
\* The verdicts are three different things.
LEMMA VerdictsDiffer ==
  /\ Pending # Valid
  /\ \A p, r : Rejected(p, r) # Pending /\ Rejected(p, r) # Valid
  /\ \A p, q, r, s : Rejected(p, r) = Rejected(q, s) => p = q /\ r = s
<1>1. Pending.kind = "pending" /\ Valid.kind = "valid"
  BY DEF Pending, Valid
<1>2. \A p, r : /\ Rejected(p, r).kind = "rejected"
              /\ Rejected(p, r).rule = p /\ Rejected(p, r).row = r
  BY DEF Rejected
<1> QED BY <1>1, <1>2

\* Reading leaves the columns as they are.
LEMMA ColumnsStay ==
  ASSUME columns' = columns
  PROVE  /\ Rows' = Rows
         /\ \A r : Cells(r)' = Cells(r)
         /\ \A p, r : OwnHolds(p, r)' <=> OwnHolds(p, r)
         /\ \A M, r : AtChunk(M, r)' <=> AtChunk(M, r)
<1>1. Rows' = Rows
  BY DEF Rows
<1>2. \A r : Cells(r)' = Cells(r)
  BY DEF Cells, Cell
<1>3. \A p, r : OwnHolds(p, r)' <=> OwnHolds(p, r)
  BY <1>2 DEF OwnHolds
<1>4. \A M, r : AtChunk(M, r)' <=> AtChunk(M, r)
  BY <1>1 DEF AtChunk
<1> QED BY <1>1, <1>2, <1>3, <1>4

LEMMA InitIInv == Init => IInv
<1> SUFFICES ASSUME Init PROVE IInv
  OBVIOUS
<1>1. Rows \in Nat /\ columns \in [Params -> ColumnType(Rows)]
  BY ColumnsAssumption DEF Init, Rows
<1>2. \A p \in Params : columns[p].chunks \in Cuts(Rows)
  BY <1>1 DEF ColumnType
<1>3. TypeOK
  BY <1>1, <1>2, ColumnsAssumption DEF Init, TypeOK, Start
<1>4. AtChunk(columns[First].chunks, 1)
  BY <1>1, <1>2, FirstChunk, ColumnsAssumption
<1>5. OwnProgress
  BY <1>4, ColumnsAssumption DEF Init, OwnProgress, Start
<1>6. EarlierPassed /\ JointProgress /\ AlarmsAreReal
  BY ColumnsAssumption DEF Init, EarlierPassed, JointProgress, AlarmsAreReal
<1>7. ValidWhenSaid /\ RejectsTheFirst
  BY VerdictsDiffer DEF Init, ValidWhenSaid, RejectsTheFirst
<1> QED BY <1>3, <1>5, <1>6, <1>7 DEF IInv

\* A pass accepts after it has read every row.
LEMMA PassAcceptsStep ==
  ASSUME IInv, PassAccepts, verdict = Pending, UNCHANGED <<columns, zipped>>,
         pass \in Params => \A r \in 1 .. Rows : OwnHolds(pass, r),
         pass = "joint" => \A r \in 1 .. Rows : JointRuleHolds(Cells(r)),
         pass = "joint" => reading # "align"
  PROVE  IInv'
<1>1. /\ Rows \in Nat /\ pass \in Params \cup {"joint"}
      /\ \A p \in Params : columns[p].chunks \in Cuts(Rows)
      /\ at' = Start
  BY DEF IInv, TypeOK, ColumnType, PassAccepts
<1>2. CASE pass = "joint"
  <2>1. verdict' = Valid /\ pass' = pass /\ reading' = reading
    BY <1>2 DEF PassAccepts
  <2>2. \A r \in 1 .. Rows : DomainHolds(Cells(r))
    BY <1>2, ColumnsAssumption
       DEF IInv, EarlierPassed, OwnHolds, DomainHolds, OwnRuleHolds
  <2>3. TypeOK'
    BY <1>1, <2>1, ColumnsStay DEF IInv, TypeOK, Start
  <2>4. EarlierPassed' /\ ValidWhenSaid'
    BY <2>1, <2>2, ColumnsStay DEF IInv, EarlierPassed, ValidWhenSaid
  <2>5. OwnProgress' /\ JointProgress' /\ RejectsTheFirst'
    BY <2>1, VerdictsDiffer DEF OwnProgress, JointProgress, RejectsTheFirst
  <2>6. AlarmsAreReal'
    BY <1>1, <2>1, ColumnsStay DEF IInv, AlarmsAreReal, Start, TypeOK
  <2> QED BY <2>3, <2>4, <2>5, <2>6 DEF IInv
<1>3. CASE pass \in Params
  <2>1. /\ verdict' = verdict /\ pass' \in {Second, "joint"}
        /\ pass = First <=> pass' = Second
        /\ reading' = IF pass' = "joint" THEN "align" ELSE "chunks"
    BY <1>3, ColumnsAssumption DEF PassAccepts, NextPass
  <2>2. TypeOK'
    BY <1>1, <2>1, ColumnsStay, ColumnsAssumption DEF IInv, TypeOK, Start
  <2>3. EarlierPassed'
    BY <1>3, <2>1, ColumnsStay, ColumnsAssumption DEF IInv, EarlierPassed
  <2>4. OwnProgress'
    BY <1>1, <1>3, <2>1, ColumnsStay, FirstChunk, ColumnsAssumption DEF IInv, OwnProgress, Start
  <2>5. JointProgress'
    BY <1>1, <2>1, ColumnsAssumption DEF JointProgress, Start
  <2>6. ValidWhenSaid' /\ RejectsTheFirst' /\ AlarmsAreReal'
    BY <2>1, VerdictsDiffer DEF ValidWhenSaid, RejectsTheFirst, AlarmsAreReal
  <2> QED BY <2>2, <2>3, <2>4, <2>5, <2>6 DEF IInv
<1> QED BY <1>1, <1>2, <1>3

\* An alarm has a cause among the rows, which the reporting pass reads from the start.
LEMMA StartReportStep ==
  ASSUME IInv, StartReport, verdict = Pending, UNCHANGED <<columns, zipped>>,
         pass \in Params => \E r \in 1 .. Rows : ~ OwnHolds(pass, r),
         pass = "joint" => \E r \in 1 .. Rows : ~ JointRuleHolds(Cells(r)),
         reading # "align"
  PROVE  IInv'
<1>1. /\ Rows \in Nat /\ pass \in Params \cup {"joint"}
      /\ reading' = "cells" /\ at' = Start /\ pass' = pass /\ verdict' = verdict
  BY DEF IInv, TypeOK, StartReport
<1>2. Rows >= 1
  BY <1>1
<1>3. TypeOK'
  BY <1>1, ColumnsStay DEF IInv, TypeOK, Start
<1>4. EarlierPassed'
  BY <1>1, ColumnsStay DEF IInv, EarlierPassed
<1>5. OwnProgress'
  BY <1>1, ColumnsStay, ColumnsAssumption DEF IInv, OwnProgress, Start
<1>6. JointProgress'
  BY <1>1, ColumnsStay, ColumnsAssumption DEF JointProgress, Start
<1>7. ValidWhenSaid' /\ RejectsTheFirst'
  BY <1>1, VerdictsDiffer DEF ValidWhenSaid, RejectsTheFirst
<1>8. AlarmsAreReal'
  BY <1>1, <1>2, ColumnsStay DEF AlarmsAreReal, Start
<1> QED BY <1>3, <1>4, <1>5, <1>6, <1>7, <1>8 DEF IInv

LEMMA ReadChunkStep == IInv /\ ReadChunk => IInv'
<1> SUFFICES ASSUME IInv, ReadChunk PROVE IInv'
  OBVIOUS
<1>1. /\ verdict = Pending /\ pass \in Params /\ pass # "joint" /\ reading = "chunks"
      /\ UNCHANGED <<columns, zipped>>
  BY ColumnsAssumption DEF ReadChunk
<1>2. /\ Rows \in Nat /\ at[pass] \in 1 .. Rows + 1 /\ at \in [Params -> 1 .. Rows + 1]
      /\ columns[pass].chunks \in Cuts(Rows) /\ TypeOK
      /\ AtChunk(columns[pass].chunks, at[pass])
      /\ \A r \in 1 .. at[pass] - 1 : OwnHolds(pass, r)
  BY <1>1 DEF IInv, TypeOK, ColumnType, OwnProgress
<1>3. CASE at[pass] > Rows
  <2>1. PassAccepts /\ \A r \in 1 .. Rows : OwnHolds(pass, r)
    BY <1>1, <1>2, <1>3 DEF ReadChunk
  <2> QED BY <1>1, <2>1, PassAcceptsStep
<1>4. CASE ~ at[pass] > Rows
  <2> DEFINE m == ChunkAt(columns[pass].chunks, at[pass])
  <2>1. /\ m.from = at[pass] /\ m.from \in 1 .. Rows /\ m.to \in m.from .. Rows
        /\ After(m) \in 1 .. Rows + 1 /\ AtChunk(columns[pass].chunks, After(m))
    BY <1>2, <1>4, NextChunk
  <2>2. ChunkAccepted(columns[pass], pass, m) <=> \A r \in m.from .. m.to : OwnHolds(pass, r)
    BY <1>1, <1>2, <2>1, OwnChunk
  <2>3. IF ChunkAccepted(columns[pass], pass, m)
        THEN Advance([at EXCEPT ![pass] = After(m)]) ELSE StartReport
    BY <1>4 DEF ReadChunk
  <2> HIDE DEF m
  <2>4. CASE ChunkAccepted(columns[pass], pass, m)
    <3>1. /\ at' = [at EXCEPT ![pass] = After(m)]
          /\ pass' = pass /\ reading' = reading /\ verdict' = verdict
      BY <2>3, <2>4 DEF Advance
    <3>2. at'[pass] = After(m) /\ \A p \in Params : p # pass => at'[p] = at[p]
      BY <1>1, <1>2, <3>1
    <3>3. \A r \in 1 .. After(m) - 1 : OwnHolds(pass, r)
      BY <1>2, <2>1, <2>2, <2>4 DEF After
    <3>4. TypeOK'
      BY <1>1, <1>2, <2>1, <3>1, ColumnsStay DEF TypeOK
    <3>5. OwnProgress'
      BY <1>1, <2>1, <3>1, <3>2, <3>3, ColumnsStay DEF IInv, OwnProgress
    <3>6. EarlierPassed' /\ JointProgress' /\ AlarmsAreReal'
      BY <1>1, <3>1, ColumnsStay DEF IInv, EarlierPassed, JointProgress, AlarmsAreReal
    <3>7. ValidWhenSaid' /\ RejectsTheFirst'
      BY <1>1, <3>1, VerdictsDiffer DEF ValidWhenSaid, RejectsTheFirst
    <3> QED BY <3>4, <3>5, <3>6, <3>7 DEF IInv
  <2>5. CASE ~ ChunkAccepted(columns[pass], pass, m)
    <3>1. \E r \in 1 .. Rows : ~ OwnHolds(pass, r)
      BY <1>2, <2>1, <2>2, <2>5
    <3> QED BY <1>1, <2>3, <2>5, <3>1, StartReportStep
  <2> QED BY <2>4, <2>5
<1> QED BY <1>3, <1>4

LEMMA ReadCellStep == IInv /\ ReadCell => IInv'
<1> SUFFICES ASSUME IInv, ReadCell PROVE IInv'
  OBVIOUS
<1>1. /\ verdict = Pending /\ pass \in Params /\ pass # "joint" /\ reading = "cells"
      /\ UNCHANGED <<columns, zipped>>
  BY ColumnsAssumption DEF ReadCell
<1>2. /\ Rows \in Nat /\ at \in [Params -> 1 .. Rows + 1] /\ at[pass] \in 1 .. Rows
      /\ \A p \in Params : at[p] <= Rows
      /\ \A r \in 1 .. at[pass] - 1 : OwnHolds(pass, r)
      /\ \A p \in Params : p # pass => at[p] = 1
  BY <1>1 DEF IInv, TypeOK, AlarmsAreReal, OwnProgress
<1>3. PICK s \in at[pass] .. Rows : ~ OwnHolds(pass, s)
  BY <1>1 DEF IInv, OwnProgress
<1>4. OwnHolds(pass, at[pass]) <=> Cell(columns[pass], at[pass]) \in Accepted[pass] \cup {NULL}
  BY <1>1 DEF OwnHolds, Cells
<1>5. CASE OwnHolds(pass, at[pass])
  <2>1. /\ at' = [at EXCEPT ![pass] = @ + 1]
        /\ pass' = pass /\ reading' = reading /\ verdict' = verdict
    BY <1>2, <1>4, <1>5 DEF ReadCell, Advance
  <2>2. at'[pass] = at[pass] + 1 /\ \A p \in Params : p # pass => at'[p] = at[p]
    BY <1>1, <1>2, <2>1
  <2>3. s \in at[pass] + 1 .. Rows
    BY <1>2, <1>3, <1>5
  <2>4. \A r \in 1 .. at[pass] : OwnHolds(pass, r)
    BY <1>2, <1>5
  <2>5. TypeOK'
    BY <1>1, <1>2, <2>1, ColumnsStay DEF IInv, TypeOK
  <2>6. OwnProgress'
    <3>1. \A r \in 1 .. at'[pass] - 1 : OwnHolds(pass, r)
      BY <1>2, <2>2, <2>4
    <3>2. \E r \in at'[pass] .. Rows : ~ OwnHolds(pass, r)
      BY <1>3, <2>2, <2>3
    <3> QED BY <1>1, <1>2, <2>1, <2>2, <3>1, <3>2, ColumnsStay DEF IInv, OwnProgress
  <2>7. AlarmsAreReal'
    <3>1. at[pass] + 1 <= Rows
      BY <1>2, <2>3
    <3>2. \A p \in Params : at'[p] <= Rows
      BY <1>2, <2>2, <3>1
    <3> QED BY <1>1, <3>2, ColumnsStay DEF AlarmsAreReal
  <2>8. EarlierPassed' /\ JointProgress'
    BY <1>1, <2>1, ColumnsStay DEF IInv, EarlierPassed, JointProgress
  <2>9. ValidWhenSaid' /\ RejectsTheFirst'
    BY <1>1, <2>1, VerdictsDiffer DEF ValidWhenSaid, RejectsTheFirst
  <2> QED BY <2>5, <2>6, <2>7, <2>8, <2>9 DEF IInv
<1>6. CASE ~ OwnHolds(pass, at[pass])
  <2>1. verdict' = Rejected(pass, at[pass]) /\ pass' = pass /\ reading' = reading /\ at' = at
    BY <1>2, <1>4, <1>6 DEF ReadCell
  <2>2. verdict' # Pending /\ verdict' # Valid /\ verdict' # Rejected("joint", at[pass])
    BY <1>1, <2>1, VerdictsDiffer
  <2>3. TypeOK'
    BY <1>1, <1>2, <2>1, ColumnsStay DEF IInv, TypeOK
  <2>4. RejectsTheFirst'
    <3>1. ASSUME NEW p, NEW r, verdict' = Rejected(p, r) PROVE p = pass /\ r = at[pass]
      <4>1. Rejected(pass, at[pass]) = Rejected(p, r)
        BY <2>1, <3>1
      <4> QED BY <4>1, VerdictsDiffer
    <3>2. \A q \in 1 .. at[pass] : OwnHolds(pass, q) <=> q # at[pass]
      BY <1>2, <1>6
    <3>3. pass = Second => \A q \in 1 .. Rows : OwnHolds(First, q)
      BY ColumnsAssumption DEF IInv, EarlierPassed
    <3> QED BY <1>1, <3>1, <3>2, <3>3, ColumnsStay DEF RejectsTheFirst, OwnHolds
  <2>5. OwnProgress' /\ JointProgress' /\ ValidWhenSaid'
    BY <2>2 DEF OwnProgress, JointProgress, ValidWhenSaid
  <2>6. EarlierPassed' /\ AlarmsAreReal'
    BY <1>1, <2>1, ColumnsStay DEF IInv, EarlierPassed, AlarmsAreReal
  <2> QED BY <2>3, <2>4, <2>5, <2>6 DEF IInv
<1> QED BY <1>5, <1>6

LEMMA AlignChunksStep == IInv /\ AlignChunks => IInv'
<1> SUFFICES ASSUME IInv, AlignChunks PROVE IInv'
  OBVIOUS
<1>1. /\ verdict = Pending /\ pass = "joint" /\ reading = "align"
      /\ zipped' \in CommonChunks(zipped, Rows) /\ reading' = "chunks"
      /\ UNCHANGED <<columns, pass, at, verdict>>
  BY DEF AlignChunks
<1>2. Rows \in Nat /\ zipped \in [Params -> Cuts(Rows)] /\ at = Start /\ pass \notin Params
  BY <1>1, ColumnsAssumption DEF IInv, TypeOK, JointProgress
<1>3. zipped' \in [Params -> Cuts(Rows)] /\ zipped'[First] = zipped'[Second]
  <2>1. CASE zipped[First] = zipped[Second]
    BY <1>1, <1>2, <2>1 DEF CommonChunks
  <2>2. CASE zipped[First] # zipped[Second]
    BY <1>1, <2>2, ColumnsAssumption DEF CommonChunks
  <2> QED BY <2>1, <2>2
<1>4. at[First] = 1 /\ at[Second] = 1 /\ AtChunk(zipped'[First], 1)
  BY <1>2, <1>3, FirstChunk, ColumnsAssumption DEF Start
<1>5. TypeOK'
  BY <1>1, <1>3, ColumnsStay DEF IInv, TypeOK
<1>6. JointProgress'
  BY <1>1, <1>3, <1>4, ColumnsStay DEF JointProgress
<1>7. EarlierPassed'
  BY <1>1, ColumnsStay DEF IInv, EarlierPassed
<1>8. OwnProgress' /\ ValidWhenSaid' /\ RejectsTheFirst' /\ AlarmsAreReal'
  BY <1>1, <1>2, VerdictsDiffer DEF OwnProgress, ValidWhenSaid, RejectsTheFirst, AlarmsAreReal
<1> QED BY <1>5, <1>6, <1>7, <1>8 DEF IInv

LEMMA ReadPairedChunksStep == IInv /\ ReadPairedChunks => IInv'
<1> SUFFICES ASSUME IInv, ReadPairedChunks PROVE IInv'
  OBVIOUS
<1> DEFINE chunk == [p \in Params |-> ChunkAt(zipped[p], at[p])]
<1>1. /\ verdict = Pending /\ pass = "joint" /\ pass \notin Params /\ reading = "chunks"
      /\ UNCHANGED <<columns, zipped>>
  BY ColumnsAssumption DEF ReadPairedChunks
<1>2. /\ IF \E p \in Params : at[p] > Rows THEN PassAccepts
         ELSE IF PairAccepted(chunk) THEN Advance([p \in Params |-> After(chunk[p])])
         ELSE StartReport
  BY DEF ReadPairedChunks
<1>3. /\ TypeOK /\ Rows \in Nat /\ at \in [Params -> 1 .. Rows + 1] /\ Params = {First, Second}
      /\ zipped[First] \in Cuts(Rows) /\ zipped[First] = zipped[Second]
      /\ at[First] = at[Second] /\ at[First] \in 1 .. Rows + 1 /\ AtChunk(zipped[First], at[First])
      /\ \A r \in 1 .. at[First] - 1 : JointRuleHolds(Cells(r))
  BY <1>1, ColumnsAssumption DEF IInv, TypeOK, JointProgress
<1>4. CASE \E p \in Params : at[p] > Rows
  <2>1. at[First] = Rows + 1
    BY <1>3, <1>4
  <2>2. PassAccepts /\ \A r \in 1 .. Rows : JointRuleHolds(Cells(r))
    BY <1>2, <1>3, <1>4, <2>1
  <2> QED BY <1>1, <2>2, PassAcceptsStep
<1>5. CASE ~ \E p \in Params : at[p] > Rows
  <2> DEFINE m == ChunkAt(zipped[First], at[First])
  <2>1. at[First] \in 1 .. Rows
    BY <1>3, <1>5
  <2>2. /\ m.from = at[First] /\ m.from \in 1 .. Rows /\ m.to \in m.from .. Rows
        /\ After(m) \in 1 .. Rows + 1 /\ AtChunk(zipped[First], After(m))
    BY <1>3, <2>1, NextChunk
  <2>3. chunk = [p \in Params |-> m]
    BY <1>3
  <2> HIDE DEF m, chunk
  <2>4. PairAccepted(chunk) <=> \A r \in m.from .. m.to : JointRuleHolds(Cells(r))
    <3>1. m.to \in 1 .. Rows
      BY <1>3, <2>2
    <3> QED BY <1>3, <2>2, <2>3, <3>1, JointChunk
  <2>5. CASE PairAccepted(chunk)
    <3>1. /\ at' = [p \in Params |-> After(m)]
          /\ pass' = pass /\ reading' = reading /\ verdict' = verdict
      BY <1>2, <1>5, <2>3, <2>5 DEF Advance
    <3>2. at'[First] = After(m) /\ at'[Second] = After(m)
      BY <1>3, <3>1
    <3>3. \A r \in 1 .. After(m) - 1 : JointRuleHolds(Cells(r))
      BY <1>3, <2>2, <2>4, <2>5 DEF After
    <3>4. TypeOK'
      BY <1>1, <1>3, <2>2, <3>1, ColumnsStay DEF TypeOK
    <3>5. JointProgress'
      BY <1>1, <1>3, <2>2, <3>1, <3>2, <3>3, ColumnsStay DEF JointProgress
    <3>6. EarlierPassed' /\ OwnProgress' /\ AlarmsAreReal'
      BY <1>1, <3>1, ColumnsStay DEF IInv, EarlierPassed, OwnProgress, AlarmsAreReal
    <3>7. ValidWhenSaid' /\ RejectsTheFirst'
      BY <1>1, <3>1, VerdictsDiffer DEF ValidWhenSaid, RejectsTheFirst
    <3> QED BY <3>4, <3>5, <3>6, <3>7 DEF IInv
  <2>6. CASE ~ PairAccepted(chunk)
    <3>1. \E r \in 1 .. Rows : ~ JointRuleHolds(Cells(r))
      BY <1>3, <2>2, <2>4, <2>6
    <3> QED BY <1>1, <1>2, <1>5, <2>6, <3>1, StartReportStep
  <2> QED BY <2>5, <2>6
<1> QED BY <1>4, <1>5

LEMMA ReadPairStep == IInv /\ ReadPair => IInv'
<1> SUFFICES ASSUME IInv, ReadPair PROVE IInv'
  OBVIOUS
<1>1. /\ verdict = Pending /\ pass = "joint" /\ pass \notin Params /\ reading = "cells"
      /\ UNCHANGED <<columns, zipped>>
  BY ColumnsAssumption DEF ReadPair
<1>2. /\ Rows \in Nat /\ at \in [Params -> 1 .. Rows + 1] /\ Params = {First, Second}
      /\ at[First] = at[Second] /\ at[First] \in 1 .. Rows
      /\ \A r \in 1 .. at[First] - 1 : JointRuleHolds(Cells(r))
  BY <1>1, ColumnsAssumption DEF IInv, TypeOK, AlarmsAreReal, JointProgress
<1>3. PICK s \in at[First] .. Rows : ~ JointRuleHolds(Cells(s))
  BY <1>1 DEF IInv, JointProgress
<1>4. \A q \in 1 .. Rows : OwnHolds(First, q) /\ OwnHolds(Second, q)
  BY <1>1, ColumnsAssumption DEF IInv, EarlierPassed
<1>5. CASE JointRuleHolds(Cells(at[First]))
  <2>1. /\ at' = [p \in Params |-> at[p] + 1]
        /\ pass' = pass /\ reading' = reading /\ verdict' = verdict
    BY <1>2, <1>5 DEF ReadPair, Advance
  <2>2. at'[First] = at[First] + 1 /\ at'[Second] = at[First] + 1
    BY <1>2, <2>1
  <2>3. s \in at[First] + 1 .. Rows /\ at[First] + 1 \in 1 .. Rows
    <3>1. s # at[First]
      BY <1>3, <1>5
    <3> QED BY <1>2, <3>1
  <2>4. \A r \in 1 .. at[First] : JointRuleHolds(Cells(r))
    BY <1>2, <1>5
  <2>5. at' \in [Params -> 1 .. Rows + 1] /\ \A p \in Params : at'[p] <= Rows
    BY <1>2, <2>1, <2>2, <2>3
  <2>6. TypeOK'
    BY <1>1, <2>1, <2>5, ColumnsStay DEF IInv, TypeOK
  <2>7. JointProgress'
    <3>1. \A r \in 1 .. at'[First] - 1 : JointRuleHolds(Cells(r))
      BY <1>2, <2>2, <2>4
    <3>2. \E r \in at'[First] .. Rows : ~ JointRuleHolds(Cells(r))
      BY <1>3, <2>2, <2>3
    <3> QED BY <1>1, <2>1, <2>2, <3>1, <3>2, ColumnsStay DEF JointProgress
  <2>8. EarlierPassed' /\ OwnProgress' /\ AlarmsAreReal'
    BY <1>1, <2>1, <2>5, ColumnsStay DEF IInv, EarlierPassed, OwnProgress, AlarmsAreReal
  <2>9. ValidWhenSaid' /\ RejectsTheFirst'
    BY <1>1, <2>1, VerdictsDiffer DEF ValidWhenSaid, RejectsTheFirst
  <2> QED BY <2>6, <2>7, <2>8, <2>9 DEF IInv
<1>6. CASE ~ JointRuleHolds(Cells(at[First]))
  <2>1. verdict' = Rejected("joint", at[First]) /\ pass' = pass /\ reading' = reading /\ at' = at
    BY <1>2, <1>6 DEF ReadPair
  <2>2. verdict' # Pending /\ verdict' # Valid
    BY <2>1, VerdictsDiffer
  <2>3. TypeOK'
    BY <1>1, <1>2, <2>1, ColumnsStay DEF IInv, TypeOK
  <2>4. RejectsTheFirst'
    <3>1. ASSUME NEW p, NEW r, verdict' = Rejected(p, r) PROVE p \notin Params /\ r = at[First]
      <4>1. Rejected("joint", at[First]) = Rejected(p, r)
        BY <2>1, <3>1
      <4> QED BY <1>1, <4>1, VerdictsDiffer
    <3>2. \A q \in 1 .. at[First] : JointRuleHolds(Cells(q)) <=> q # at[First]
      BY <1>2, <1>6
    <3>3. \A q \in 1 .. Rows : OwnRuleHolds(Cells(q))
      BY <1>2, <1>4 DEF OwnRuleHolds, OwnHolds
    <3> QED BY <1>1, <3>1, <3>2, <3>3, ColumnsStay DEF RejectsTheFirst
  <2>5. OwnProgress' /\ JointProgress' /\ ValidWhenSaid'
    BY <2>2 DEF OwnProgress, JointProgress, ValidWhenSaid
  <2>6. EarlierPassed' /\ AlarmsAreReal'
    BY <1>1, <2>1, ColumnsStay DEF IInv, EarlierPassed, AlarmsAreReal
  <2> QED BY <2>3, <2>4, <2>5, <2>6 DEF IInv
<1> QED BY <1>5, <1>6

LEMMA NextIInv == IInv /\ [Next]_vars => IInv'
<1> SUFFICES ASSUME IInv, [Next]_vars PROVE IInv'
  OBVIOUS
<1>1. CASE UNCHANGED vars
  <2>1. /\ columns' = columns /\ zipped' = zipped /\ pass' = pass
        /\ reading' = reading /\ at' = at /\ verdict' = verdict
    BY <1>1 DEF vars
  <2>2. TypeOK' /\ AlarmsAreReal'
    BY <2>1, ColumnsStay DEF IInv, TypeOK, AlarmsAreReal
  <2>3. EarlierPassed' /\ ValidWhenSaid' /\ RejectsTheFirst'
    BY <2>1, ColumnsStay DEF IInv, EarlierPassed, ValidWhenSaid, RejectsTheFirst
  <2>4. OwnProgress' /\ JointProgress'
    BY <2>1, ColumnsStay DEF IInv, OwnProgress, JointProgress
  <2> QED BY <2>2, <2>3, <2>4 DEF IInv
<1>2. CASE Next
  BY <1>1, <1>2, ReadChunkStep, ReadCellStep, AlignChunksStep, ReadPairedChunksStep, ReadPairStep
     DEF Next, Finished
<1> QED BY <1>1, <1>2

-----------------------------------------------------------------------------
(***************************************************************************)
(* The theorems.                                                           *)
(***************************************************************************)

\* What a pass has read it has accepted, and an alarm's cause lies ahead of its report.
THEOREM InductiveInvariant == Spec => []IInv
<1> QED BY InitIInv, NextIInv, PTL DEF Spec

\* The passes accept exactly the columns whose every row holds to its domain.
THEOREM VerdictCorrect == Spec => []VerdictIsTheDomains
<1>1. IInv => VerdictIsTheDomains
  <2> SUFFICES ASSUME IInv, verdict # Pending PROVE verdict = Valid <=> \A r \in 1 .. Rows : DomainHolds(Cells(r))
    BY DEF VerdictIsTheDomains
  <2>1. CASE verdict = Valid
    BY <2>1 DEF IInv, ValidWhenSaid
  <2>2. CASE verdict # Valid
    <3>1. PICK p \in Params \cup {"joint"}, r \in 1 .. Rows : verdict = Rejected(p, r)
      BY <2>2 DEF IInv, TypeOK
    <3>2. r \in 1 .. r
      BY <3>1 DEF IInv, TypeOK
    <3>3. CASE p = "joint"
      BY <2>2, <3>1, <3>2, <3>3 DEF IInv, RejectsTheFirst, DomainHolds
    <3>4. CASE p \in Params
      <4>1. Cells(r)[p] \notin Accepted[p] \cup {NULL}
        BY <3>1, <3>2, <3>4 DEF IInv, RejectsTheFirst
      <4> QED BY <2>2, <3>1, <3>4, <4>1 DEF DomainHolds, OwnRuleHolds
    <3> QED BY <3>1, <3>3, <3>4
  <2> QED BY <2>1, <2>2
<1> QED BY <1>1, InductiveInvariant, PTL

\* The error names the first value its rule rejects, and no earlier rule rejects any.
THEOREM FirstRejected == Spec => []RejectsTheFirst
<1>1. IInv => RejectsTheFirst
  BY DEF IInv
<1> QED BY <1>1, InductiveInvariant, PTL

\* What sends a column to the reporting pass is found there.
THEOREM AlarmsReal == Spec => []AlarmsAreReal
<1>1. IInv => AlarmsAreReal
  BY DEF IInv
<1> QED BY <1>1, InductiveInvariant, PTL


-----------------------------------------------------------------------------
\* A bisection step leaves the midpoint strictly below the upper end.
LEMMA MiddleInside ==
  ASSUME NEW a \in Nat, NEW b \in Nat, a < b
  PROVE  /\ a + (b - a) \div 2 \in Nat
         /\ a <= a + (b - a) \div 2
         /\ a + (b - a) \div 2 < b
  BY SMT

\* Each step of a search keeps the answer in its bracket.
LEMMA SearchStepPreserves == SearchIInv /\ [SearchNext]_searchVars => SearchIInv'
<1> SUFFICES ASSUME SearchIInv, [SearchNext]_searchVars PROVE SearchIInv'
  OBVIOUS
<1> USE DEF SearchIInv, Unbounded, Smallest
<1>1. ASSUME NEW n \in Nat, NEW k \in Nat, Within(n, k) PROVE SearchIInv'
  BY <1>1 DEF Within
<1>2. ASSUME NEW n \in Nat, NEW k \in Nat, From(n, k) PROVE SearchIInv'
  BY <1>2 DEF From
<1>3. CASE GallopDown
  <2>1. CASE hi - step >= 0 /\ Holds(hi - step)
    BY <1>3, <2>1 DEF GallopDown, Holds
  <2>2. CASE ~ (hi - step >= 0 /\ Holds(hi - step))
    BY <1>3, <2>2 DEF GallopDown, Holds
  <2> QED BY <2>1, <2>2
<1>4. CASE GallopUp
  BY <1>4 DEF GallopUp, Holds
<1>5. CASE Halve
  <2>1. Middle \in Nat /\ lo <= Middle /\ Middle < hi
    BY <1>5, MiddleInside DEF Halve, Middle
  <2>2. CASE Holds(Middle)
    BY <1>5, <2>1, <2>2 DEF Halve, Holds
  <2>3. CASE ~ Holds(Middle)
    BY <1>5, <2>1, <2>3 DEF Halve, Holds
  <2> QED BY <2>2, <2>3
<1>6. CASE Return
  BY <1>6 DEF Return
<1>7. CASE UNCHANGED searchVars
  BY <1>7 DEF searchVars
<1> QED BY <1>1, <1>2, <1>3, <1>4, <1>5, <1>6, <1>7 DEF SearchNext, SearchStep

(***************************************************************************)
(* smallest_satisfying and smallest_from answer the smallest satisfying    *)
(* point, for every bound, every seed and every monotone predicate.        *)
(***************************************************************************)
THEOREM AuditSearchCorrect == SearchSpec => []SearchFindsSmallest
<1>1. SearchInit => SearchIInv
  BY DEF SearchInit, SearchIInv, Unbounded, Smallest
<1>2. SearchIInv => SearchFindsSmallest
  BY DEF SearchIInv, SearchFindsSmallest
<1> QED BY <1>1, <1>2, SearchStepPreserves, PTL DEF SearchSpec

-----------------------------------------------------------------------------
USE DEF Spacing, SubnormalUlps

\* The distance between two integers is a natural, and 0 only from an integer to itself.
LEMMA AbsFacts ==
  ASSUME NEW x \in Int
  PROVE  /\ abs(x) \in Nat
         /\ abs(x) = x \/ abs(x) = -x
         /\ abs(x) = 0 <=> x = 0
BY DEF abs

\* A correctly rounded number is within a rounding of a normal, so within any legal tolerance of it.
LEMMA RoundingIsWithinTolerance ==
  ASSUME NEW off \in 0 .. 2, NEW size \in Nat, SmallestNormal <= size
  PROVE  Tolerance * off <= size
<1>1. Tolerance \in Nat /\ SmallestNormal \in Nat /\ SmallestNormal >= 2 * Tolerance
  BY VerdictAssumption
<1>2. CASE off = 0
  BY <1>1, <1>2
<1>3. CASE off = 1
  BY <1>1, <1>3
<1>4. CASE off = 2
  BY <1>1, <1>4
<1>. QED
  BY <1>2, <1>3, <1>4

\* Two numbers of one sign have a product that is not negative.
LEMMA SameSign ==
  ASSUME NEW x \in Int, NEW y \in Int, (x > 0) = (y > 0), x # 0, y # 0
  PROVE  x * y >= 0
OBVIOUS

\* Two numbers that are not zero.
LEMMA CompareIsFair ==
  ASSUME NEW value \in Int \ {0}, NEW truth \in Int \ {0}
  PROVE  LET ruling == Compare(value, truth) IN
         /\ value % 4 = 0 /\ abs(value - truth) <= 2 => ruling.category = "OK"
         /\ ruling.category = "OK" =>
              /\ \/ Tolerance * abs(value - truth) <= abs(truth)
                 \/ abs(truth) < SmallestNormal /\ abs(value - truth) <= 8
              /\ value * truth >= 0
         /\ ruling.excused =>
              ruling.category = "OK" /\ Tolerance * abs(value - truth) > abs(truth)
<1>. DEFINE off == abs(value - truth)
            ruling == Compare(value, truth)
<1>1. /\ off \in Nat /\ abs(truth) \in Nat
      /\ SmallestNormal \in Nat /\ Tolerance \in Nat /\ Tolerance * off \in Nat
  BY AbsFacts, VerdictAssumption
<1>2. ruling = IF (value > 0) # (truth > 0) THEN Verdict("SIGN")
                ELSE IF Tolerance * off <= abs(truth) THEN Verdict("OK")
                ELSE IF abs(truth) < SmallestNormal THEN Absolute(off <= 8)
                ELSE Verdict("DEGRADED")
  BY DEF Compare
<1>3. ASSUME value % 4 = 0, off <= 2
      PROVE  ruling.category = "OK"
  <2>1. (value > 0) = (truth > 0)
    BY <1>3 DEF abs
  <2>2. ASSUME SmallestNormal <= abs(truth)
        PROVE  Tolerance * off <= abs(truth)
    <3>1. off \in 0 .. 2
      <4> HIDE DEF off
      <4> QED BY <1>1, <1>3
    <3>. QED
      BY <1>1, <2>2, <3>1, RoundingIsWithinTolerance
  <2>. HIDE DEF off, ruling
  <2>. QED
    BY <1>1, <1>2, <1>3, <2>1, <2>2 DEF Verdict, Absolute
<1>4. ruling.category = "OK" => value * truth >= 0
  <2>1. ruling.category = "OK" => (value > 0) = (truth > 0)
    BY <1>2 DEF Verdict
  <2>. QED
    BY <2>1, SameSign
<1>5. /\ ruling.category = "OK" =>
           Tolerance * off <= abs(truth) \/ (abs(truth) < SmallestNormal /\ off <= 8)
      /\ ruling.excused => ruling.category = "OK" /\ Tolerance * off > abs(truth)
  <2>1. CASE (value > 0) # (truth > 0)
    BY <1>2, <2>1 DEF Verdict
  <2>2. CASE (value > 0) = (truth > 0) /\ Tolerance * off <= abs(truth)
    BY <1>2, <2>2 DEF Verdict
  <2>3. CASE /\ (value > 0) = (truth > 0) /\ ~ Tolerance * off <= abs(truth)
             /\ abs(truth) < SmallestNormal
    <3>1. ruling = Absolute(off <= 8)
      BY <1>2, <2>3
    <3>2. ruling.category = "OK" <=> off <= 8
      BY <3>1 DEF Absolute
    <3>3. ruling.excused <=> off <= 8
      <4>. HIDE DEF off, ruling
      <4>. QED
        BY <3>1, Zenon DEF Absolute
    <3>4. Tolerance * off > abs(truth)
      <4>. DEFINE scaled == Tolerance * off
                  size == abs(truth)
      <4>1. scaled \in Nat /\ size \in Nat /\ ~ scaled <= size
        BY <1>1, <2>3
      <4>. HIDE DEF scaled, size
      <4>2. scaled > size
        BY <4>1
      <4>. QED
        BY <4>2 DEF scaled, size
    <3>. QED
      BY <2>3, <3>2, <3>3, <3>4
  <2>4. CASE /\ (value > 0) = (truth > 0) /\ ~ Tolerance * off <= abs(truth)
             /\ ~ abs(truth) < SmallestNormal
    BY <1>2, <2>4 DEF Verdict
  <2>. QED
    BY <2>1, <2>2, <2>3, <2>4
<1>. QED
  BY <1>3, <1>4, <1>5

\* No answer is judged unfairly (classify): what TLC checks along the sweep holds on all of Answers and References.
THEOREM ClassifyIsFair ==
  ASSUME NEW value \in Answers, NEW truth \in References
  PROVE  Fair(value, truth)
<1>. DEFINE ruling == classify(value, truth)
<1>0. /\ \A x \in {Null, NotANumber, PosInf, NegInf} : x \notin Int
      /\ NotANumber \notin {Null, PosInf, NegInf} /\ PosInf \notin {Null, NegInf} /\ Null # NegInf
      /\ Largest \in Nat /\ Tolerance \in Nat /\ One \in Nat
  BY VerdictAssumption
<1>1. CASE truth = NotANumber
  BY <1>0, <1>1 DEF Fair, classify, OkIf, Verdict, CorrectlyRounded, Acceptable
<1>2. CASE truth # NotANumber /\ value \in {Null, NotANumber}
  BY <1>0, <1>2 DEF Fair, classify, Verdict, CorrectlyRounded, References
<1>3. CASE truth # NotANumber /\ value = PosInf
  BY <1>0, <1>3 DEF Fair, classify, OkIf, Verdict, CorrectlyRounded, Acceptable, References, Above, IsInfinite
<1>4. CASE truth # NotANumber /\ value = NegInf
  BY <1>0, <1>4 DEF Fair, classify, OkIf, Verdict, CorrectlyRounded, Acceptable, References, Below, IsInfinite
<1>5. CASE value \in Int /\ truth \in {PosInf, NegInf}
  BY <1>0, <1>5 DEF Fair, classify, Verdict, CorrectlyRounded, IsInfinite
<1>6. CASE value = 0 /\ truth \in Int
  BY <1>0, <1>6 DEF Fair, classify, OkIf, Verdict, CorrectlyRounded, Acceptable, IsInfinite, abs
<1>7. CASE value \in Int \ {0} /\ truth = 0
  BY <1>0, <1>7 DEF Fair, classify, Absolute, CorrectlyRounded, Acceptable, IsInfinite, abs
<1>8. CASE value \in Int \ {0} /\ truth \in Int \ {0}
  <2>1. ruling = Compare(value, truth)
    BY <1>0, <1>8 DEF classify, IsInfinite
  <2>. QED
    BY <1>0, <1>8, <2>1, CompareIsFair DEF Fair, CorrectlyRounded, Acceptable, IsInfinite
<1>. QED
  BY <1>1, <1>2, <1>3, <1>4, <1>5, <1>6, <1>7, <1>8 DEF Answers, References

HIDE DEF Spacing, SubnormalUlps

-----------------------------------------------------------------------------
\* A probe handed over stays where it is among the probes so far.
LEMMA HandedOver ==
  ASSUME NEW S, NEW s \in Seq(S), NEW t \in Seq(S), t # <<>>
  PROVE  Append(s, Head(t)) \o Tail(t) = s \o t
<1>1. Head(t) \in S /\ Tail(t) \in Seq(S) /\ Len(Tail(t)) = Len(t) - 1
  BY HeadTailProperties
<1>2. Append(s, Head(t)) \in Seq(S) /\ Len(Append(s, Head(t))) = Len(s) + 1
  BY <1>1, AppendProperties
<1> DEFINE one == Append(s, Head(t)) \o Tail(t)
           other == s \o t
<1>3. one \in Seq(S) /\ other \in Seq(S) /\ Len(one) = Len(other)
  BY <1>1, <1>2, ConcatProperties
<1>4. ASSUME NEW i \in 1 .. Len(other) PROVE one[i] = other[i]
  <2>1. /\ Len(other) = Len(s) + Len(t) /\ Len(s) \in Nat /\ Len(t) \in Nat
        /\ other[i] = IF i <= Len(s) THEN s[i] ELSE t[i - Len(s)]
        /\ one[i] = IF i <= Len(s) + 1 THEN Append(s, Head(t))[i] ELSE Tail(t)[i - (Len(s) + 1)]
    BY <1>1, <1>2, <1>4, ConcatProperties
  <2>2. \A x \in 1 .. Len(Tail(t)) : Tail(t)[x] = t[x + 1]
    BY HeadTailProperties
  <2>3. (i <= Len(s) => Append(s, Head(t))[i] = s[i]) /\ Append(s, Head(t))[Len(s) + 1] = t[1]
    BY <1>1, AppendProperties
  <2>4. CASE i <= Len(s) + 1
    BY <2>1, <2>3, <2>4
  <2>5. CASE ~ i <= Len(s) + 1
    BY <1>1, <2>1, <2>2, <2>5
  <2> QED BY <2>4, <2>5
<1> HIDE DEF one, other
<1>5. one = other
  BY <1>3, <1>4, SeqEqual
<1> QED BY <1>5 DEF one, other

\* A probe recorded is the last of the probes so far.
LEMMA RecordedLast ==
  ASSUME NEW S, NEW s \in Seq(S), NEW t \in Seq(S), NEW e \in S
  PROVE  s \o Append(t, e) = Append(s \o t, e)
<1>1. <<e>> \in Seq(S)
  OBVIOUS
<1>2. Append(t, e) = t \o <<e>> /\ Append(s \o t, e) = (s \o t) \o <<e>>
  BY AppendIsConcat, ConcatProperties
<1> QED BY <1>1, <1>2, ConcatAssociative

-----------------------------------------------------------------------------
\* A method of the registry, as the run reads it.
LEMMA MethodType ==
  ASSUME NEW i \in 1 .. Len(Registry)
  PROVE  LET m == Registry[i] IN
         /\ m.sets \in Seq(BOOLEAN) /\ Len(m.sets) \in Nat
         /\ PointCount(m) \in Nat \ {0}
         /\ m.answers \subseteq Answers /\ Panic \notin m.answers
         /\ m.truths \subseteq References \cup {Unavailable, Broken}
         /\ m.ends \subseteq References \cup {Unavailable, Broken}
         /\ m.top \in Nat
         /\ m.oracle \in {"within", "from"} => m.truths \subseteq Nat
<1> DEFINE m == Registry[i]
<1>1. m \in AuditedMethod /\ (m.oracle \in {"within", "from"} => m.truths \subseteq Nat)
  BY RegistryAssumption, ElementOfSeq
<1> HIDE DEF m
<1>2. PointCount(m) \in Nat \ {0}
  BY <1>1 DEF PointCount, IsMoment, AuditedMethod
<1>3. m.sets \in Seq(BOOLEAN) /\ m.answers \in SUBSET Answers /\ m.top \in Nat
  BY <1>1 DEF AuditedMethod
<1>4. /\ m.truths \in SUBSET (References \cup {Unavailable, Broken})
      /\ m.ends \in SUBSET (References \cup {Unavailable, Broken})
  BY <1>1 DEF AuditedMethod
<1>5. Panic \notin m.answers
  BY <1>3, RegistryAssumption
<1> QED BY <1>1, <1>2, <1>3, <1>4, <1>5 DEF m

\* Where the sweep probes.
LEMMA PlacesFacts ==
  /\ Swept \subseteq 1 .. Len(Registry)
  /\ \A p \in Places :
       /\ p = <<p[1], p[2], p[3]>> /\ p[1] \in Swept
       /\ p[2] \in 1 .. Len(Registry[p[1]].sets) /\ Registry[p[1]].sets[p[2]]
       /\ p[3] \in 1 .. PointCount(Registry[p[1]])
       /\ p[1] \in Nat /\ p[2] \in Nat /\ p[3] \in Nat
  /\ \A i \in Swept : \A j \in 1 .. Len(Registry[i].sets) : \A x \in 1 .. PointCount(Registry[i]) :
       Registry[i].sets[j] => <<i, j, x>> \in Places
<1>1. Swept \subseteq 1 .. Len(Registry)
  <2>1. DOMAIN Registry = 1 .. Len(Registry)
    BY RegistryAssumption
  <2> QED BY <2>1 DEF Swept, Wanted
<1>2. \A i \in Swept : DOMAIN Registry[i].sets = 1 .. Len(Registry[i].sets)
  BY <1>1, MethodType
<1>3. ASSUME NEW p \in Places
      PROVE  /\ p = <<p[1], p[2], p[3]>> /\ p[1] \in Swept
             /\ p[2] \in 1 .. Len(Registry[p[1]].sets) /\ Registry[p[1]].sets[p[2]]
             /\ p[3] \in 1 .. PointCount(Registry[p[1]])
             /\ p[1] \in Nat /\ p[2] \in Nat /\ p[3] \in Nat
  <2>1. PICK i \in Swept : p \in PlacesOf(i)
    BY DEF Places
  <2>2. PICK j \in {k \in DOMAIN Registry[i].sets : Registry[i].sets[k]}, x \in 1 .. PointCount(Registry[i]) :
          p = <<i, j, x>>
    BY <2>1 DEF PlacesOf
  <2>3. p[1] = i /\ p[2] = j /\ p[3] = x
    BY <2>2
  <2>4. i \in Nat /\ j \in Nat /\ x \in Nat
    BY <1>1, <1>2, <2>1, <2>2
  <2> QED BY <1>2, <2>2, <2>3, <2>4
<1>4. ASSUME NEW i \in Swept, NEW j \in 1 .. Len(Registry[i].sets), NEW x \in 1 .. PointCount(Registry[i]),
             Registry[i].sets[j]
      PROVE  <<i, j, x>> \in Places
  <2>1. <<i, j, x>> \in PlacesOf(i)
    BY <1>2, <1>4 DEF PlacesOf
  <2> QED BY <2>1 DEF Places
<1> QED BY <1>1, <1>3, <1>4

\* The probes of a list are in the sweep's order, and those of all points before q.
Ordered(list) ==
  \A i \in DOMAIN list :
    /\ list[i].place \in Places
    /\ \A j \in DOMAIN list : i < j => Before(list[i].place, list[j].place)
    /\ \A p \in Places : Before(p, list[i].place) => \E j \in DOMAIN list : list[j].place = p
    /\ list[i].category = "PANIC" <=> list[i].raised

Past(list, q) == \A p \in Places : Before(p, q) <=> \E i \in DOMAIN list : list[i].place = p

\* A probe of the very next point keeps the probes in order, and leaves the sweep past that point.
LEMMA NextProbe ==
  ASSUME NEW list \in Seq(Probe), NEW e \in Probe, Ordered(list), Past(list, e.place), e.place \in Places,
         e.category = "PANIC" <=> e.raised,
         NEW q, \A p \in Places : Before(p, q) <=> Before(p, e.place) \/ p = e.place
  PROVE  Ordered(Append(list, e)) /\ Past(Append(list, e), q)
<1> DEFINE longer == Append(list, e)
           n == Len(list)
<1>1. /\ n \in Nat /\ DOMAIN list = 1 .. n /\ DOMAIN longer = 1 .. n + 1
      /\ \A i \in 1 .. n : longer[i] = list[i]
      /\ longer[n + 1] = e
  <2>1. longer \in Seq(Probe) /\ Len(longer) = n + 1
    BY AppendProperties
  <2> QED BY <2>1, AppendProperties
<1> HIDE DEF longer, n
<1>2. \A p : (\E i \in DOMAIN longer : longer[i].place = p) <=> (\E i \in DOMAIN list : list[i].place = p) \/ p = e.place
  BY <1>1
<1>3. Past(longer, q)
  BY <1>2 DEF Past
<1>4. ASSUME NEW i \in DOMAIN longer
      PROVE  /\ longer[i].place \in Places
             /\ \A j \in DOMAIN longer : i < j => Before(longer[i].place, longer[j].place)
             /\ \A p \in Places : Before(p, longer[i].place) => \E j \in DOMAIN longer : longer[j].place = p
             /\ longer[i].category = "PANIC" <=> longer[i].raised
  <2>1. CASE i = n + 1
    <3>1. \A j \in DOMAIN longer : ~ i < j
      BY <1>1, <2>1
    <3>2. \A p \in Places : Before(p, e.place) => \E j \in DOMAIN longer : longer[j].place = p
      BY <1>2 DEF Past
    <3> QED BY <1>1, <2>1, <3>1, <3>2
  <2>2. CASE i # n + 1
    <3>1. i \in 1 .. n /\ longer[i] = list[i] /\ i \in DOMAIN list
      BY <1>1, <2>2
    <3>2. Before(list[i].place, e.place)
      BY <3>1 DEF Past, Ordered
    <3>3. \A j \in DOMAIN longer : i < j => Before(longer[i].place, longer[j].place)
      <4> SUFFICES ASSUME NEW j \in DOMAIN longer, i < j PROVE Before(longer[i].place, longer[j].place)
        OBVIOUS
      <4>1. CASE j = n + 1
        BY <1>1, <3>1, <3>2, <4>1
      <4>2. CASE j # n + 1
        <5>1. j \in DOMAIN list /\ longer[j] = list[j]
          BY <1>1, <4>2
        <5> QED BY <3>1, <5>1 DEF Ordered
      <4> QED BY <4>1, <4>2
    <3>4. \A p \in Places : Before(p, list[i].place) => \E j \in DOMAIN longer : longer[j].place = p
      BY <1>2, <3>1 DEF Ordered
    <3> QED BY <3>1, <3>3, <3>4 DEF Ordered
  <2> QED BY <2>1, <2>2
<1> QED BY <1>3, <1>4 DEF Ordered, longer

-----------------------------------------------------------------------------
\* The command line is all that decides what is swept, and what is refused.
LEMMA SameLine ==
  ASSUME line' = line
  PROVE  Places' = Places /\ Swept' = Swept /\ (Refused' <=> Refused) /\ unaudited_distributions' = unaudited_distributions
<1>1. Skipped' = Skipped /\ Wanted' = Wanted
  BY DEF Skipped, Wanted
<1>2. Swept' = Swept
  BY <1>1 DEF Swept
<1> QED BY <1>1, <1>2 DEF Places, Refused, unaudited_distributions

\* A search is called, steps, or is left alone.
LEMMA SearchMoves ==
  ASSUME SearchIInv, UNCHANGED searchVars \/ SearchStep \/ \E n \in Nat, k \in Nat : Within(n, k) \/ From(n, k)
  PROVE  SearchIInv'
BY SearchStepPreserves DEF SearchNext

\* A step that makes no probe, and passes no point.
LEMMA QuietStep ==
  ASSUME AuditIInv, task \in Sweeping, task' \in Sweeping,
         UNCHANGED <<line, made, outcome>>, probes' \in Seq(Probe), found' \in Seq(Probe),
         SearchIInv', WhereTheSweepIs',
         \A p \in Places : Before(p, place)' <=> Before(p, place)
  PROVE  AuditIInv'
<1>1. Places' = Places /\ (Refused' <=> Refused)
  BY SameLine
<1>2. task \notin Started /\ task' \notin Started /\ task' \notin {"report", "exit", "end"}
      /\ task \notin {"report", "exit", "end"}
  BY DEF Sweeping, Started
<1>3. ~ Refused /\ Reached /\ failure = "none" /\ report = NoReport /\ exit = Running
  BY <1>2 DEF AuditIInv
<1>4. failure' = "none" /\ report' = NoReport /\ exit' = Running
  BY <1>3 DEF outcome
<1>5. Reached'
  BY <1>1, <1>3 DEF Reached
<1>6. EachPointOnce'
  BY <1>1 DEF EachPointOnce, AuditIInv
<1>7. ExitIsHonest'
  BY <1>4 DEF ExitIsHonest, Running
<1> QED BY <1>1, <1>2, <1>3, <1>4, <1>5, <1>6, <1>7 DEF AuditIInv

\* Between two points of a set, or at its end, no point of the sweep lies between here and the next place.
LEMMA NextPoint ==
  ASSUME method \in Swept, set \in 1 .. Len(spec.sets), point \in 1 .. PointCount(spec)
  PROVE  /\ point < PointCount(spec) =>
              \A p \in Places : Before(p, <<method, set, point + 1>>) <=> Before(p, place) \/ p = place
         /\ point = PointCount(spec) =>
              \A p \in Places : Before(p, <<method, set + 1, 1>>) <=> Before(p, place) \/ p = place
<1>1. /\ method \in Nat /\ set \in Nat /\ point \in Nat
      /\ place[1] = method /\ place[2] = set /\ place[3] = point
  <2>1. method \in 1 .. Len(Registry) /\ Len(Registry) \in Nat
    BY PlacesFacts, RegistryAssumption
  <2>2. Len(spec.sets) \in Nat /\ PointCount(spec) \in Nat
    BY <2>1, MethodType DEF spec
  <2> QED BY <2>1, <2>2 DEF place
<1>2. ASSUME NEW p \in Places
      PROVE  /\ p[1] \in Nat /\ p[2] \in Nat /\ p[3] \in Nat
             /\ p = place <=> p[1] = method /\ p[2] = set /\ p[3] = point
             /\ p[1] = method => p[3] \in 1 .. PointCount(spec)
  BY PlacesFacts DEF place, spec
<1>3. PointCount(spec) \in Nat
  <2>1. method \in 1 .. Len(Registry)
    BY PlacesFacts
  <2> QED BY <2>1, MethodType DEF spec
<1>4. ASSUME NEW p \in Places, point < PointCount(spec)
      PROVE  Before(p, <<method, set, point + 1>>) <=> Before(p, place) \/ p = place
  BY <1>1, <1>2, <1>3, <1>4 DEF Before
<1>5. ASSUME NEW p \in Places, point = PointCount(spec)
      PROVE  Before(p, <<method, set + 1, 1>>) <=> Before(p, place) \/ p = place
  BY <1>1, <1>2, <1>3, <1>5 DEF Before
<1> QED BY <1>4, <1>5

\* A judged observation becomes the next probe, with the category of its own row.
LEMMA RecordKeeps ==
  ASSUME AuditIInv, task \in {"judge", "verdict"}, NEW category \in Category, Record(category),
         category = "PANIC" <=> rows[point] = Panic, SearchIInv'
  PROVE  AuditIInv'
<1> DEFINE e == [place |-> place, category |-> category, raised |-> rows[point] = Panic]
<1>1. task \in Sweeping /\ task \in AtMethod /\ task \in AtSet /\ task # "retry"
      /\ task \notin Started /\ task \notin {"report", "exit", "end"}
  BY DEF Sweeping, AtMethod, AtSet, Started
<1>2. /\ WhereTheSweepIs /\ Reached /\ ~ Refused /\ failure = "none" /\ report = NoReport /\ exit = Running
      /\ probes \in Seq(Probe) /\ found \in Seq(Probe) /\ EachPointOnce
  BY <1>1 DEF AuditIInv
<1>3. /\ method \in Swept /\ set \in 1 .. Len(spec.sets) /\ spec.sets[set] /\ point \in 1 .. PointCount(spec)
      /\ Len(seen) = PointCount(spec) /\ SeenIsRows
      /\ method \in 1 .. Len(Registry) + 1 /\ method \in Nat /\ set \in Nat /\ point \in Nat
  <2>1. /\ method \in Swept /\ set <= Len(spec.sets) /\ spec.sets[set] /\ SeenIsRows /\ point <= PointCount(spec)
        /\ method \in 1 .. Len(Registry) + 1 /\ set \in Nat \ {0} /\ point \in Nat \ {0}
    BY <1>1, <1>2 DEF WhereTheSweepIs
  <2>2. method \in 1 .. Len(Registry)
    BY <2>1, PlacesFacts
  <2>3. Len(spec.sets) \in Nat /\ PointCount(spec) \in Nat
    BY <2>2, MethodType DEF spec
  <2>4. Len(seen) = PointCount(spec)
    <3>1. Len(seen) \in Nat /\ Len(seen) <= PointCount(spec) /\ ~ Len(seen) < PointCount(spec)
      BY <1>1, <2>1 DEF SeenIsRows
    <3> QED BY <2>3, <3>1
  <2>5. Len(Registry) \in Nat
    BY RegistryAssumption
  <2> QED BY <2>1, <2>2, <2>3, <2>4, <2>5
<1>4. /\ UNCHANGED <<line, method, probes, outcome>> /\ found' = Append(found, e)
      /\ \/ /\ point = Len(seen) /\ task' = "set" /\ set' = set + 1 /\ point' = 1
         \/ /\ point # Len(seen) /\ task' = "judge" /\ set' = set /\ point' = point + 1
            /\ rows' = rows /\ seen' = seen
  BY DEF Record
<1>5. e \in Probe /\ e.place = place /\ e.place \in Places /\ (e.category = "PANIC" <=> e.raised)
  <2>1. place \in Nat \X Nat \X Nat /\ place \in Places
    <3>1. place = <<method, set, point>>
      BY DEF place
    <3>2. Registry[method].sets[set] /\ set \in 1 .. Len(Registry[method].sets)
          /\ point \in 1 .. PointCount(Registry[method])
      BY <1>3 DEF spec
    <3>3. <<method, set, point>> \in Places
      BY <1>3, <3>2, PlacesFacts
    <3> QED BY <1>3, <3>1, <3>3
  <2>2. e.raised = (rows[point] = Panic) /\ e.category = category /\ e.place = place
    OBVIOUS
  <2>3. (rows[point] = Panic) \in BOOLEAN
    OBVIOUS
  <2>4. e \in Probe
    BY <2>1, <2>3 DEF Probe
  <2> HIDE DEF e
  <2> QED BY <2>1, <2>2, <2>4
<1> HIDE DEF e
<1>6. made' = Append(made, e) /\ found' \in Seq(Probe) /\ made \in Seq(Probe)
  <2>1. made \in Seq(Probe)
    BY <1>2, ConcatProperties DEF made
  <2> QED BY <1>2, <1>4, <1>5, <2>1, RecordedLast, AppendProperties DEF made
<1>7. Ordered(made) /\ Past(made, e.place)
  BY <1>2, <1>5 DEF Ordered, Past, EachPointOnce, Reached
<1>8. \A p \in Places : Before(p, place') <=> Before(p, place) \/ p = place
  <2>1. CASE point = Len(seen)
    <3>1. place' = <<method, set + 1, 1>>
      BY <1>4, <2>1 DEF place
    <3> QED BY <1>3, <2>1, <3>1, NextPoint
  <2>2. CASE point # Len(seen)
    <3>1. place' = <<method, set, point + 1>> /\ point < PointCount(spec)
      BY <1>3, <1>4, <2>2 DEF place
    <3> QED BY <1>3, <3>1, NextPoint
  <2> QED BY <2>1, <2>2
<1>9. Ordered(Append(made, e)) /\ Past(Append(made, e), place')
  BY <1>5, <1>6, <1>7, <1>8, NextProbe
<1>10. Places' = Places /\ Swept' = Swept /\ (Refused' <=> Refused)
  BY <1>4, SameLine
<1>11. EachPointOnce' /\ Reached'
  BY <1>6, <1>9, <1>10 DEF Ordered, Past, EachPointOnce, Reached
<1>12. spec' = spec
  BY <1>4 DEF spec
<1>13. WhereTheSweepIs'
  <2>1. CASE point = Len(seen)
    <3>1. task' = "set" /\ set' = set + 1 /\ point' = 1 /\ method' = method
      BY <1>4, <2>1
    <3> QED BY <1>3, <1>10, <1>12, <3>1 DEF WhereTheSweepIs, AtMethod, AtSet
  <2>2. CASE point # Len(seen)
    <3>1. task' = "judge" /\ set' = set /\ point' = point + 1 /\ method' = method /\ rows' = rows /\ seen' = seen
      BY <1>4, <2>2
    <3>2. SeenIsRows'
      BY <1>1, <1>3, <1>12, <3>1 DEF SeenIsRows
    <3>3. point' \in Nat \ {0} /\ point' <= PointCount(spec)
      BY <1>3, <2>2, <3>1
    <3> QED BY <1>3, <1>10, <1>12, <3>1, <3>2, <3>3 DEF WhereTheSweepIs, AtMethod, AtSet
  <2> QED BY <2>1, <2>2
<1>14. failure' = "none" /\ report' = NoReport /\ exit' = Running /\ task' \in {"set", "judge"} /\ probes' = probes
  BY <1>2, <1>4 DEF outcome
<1>15. ExitIsHonest'
  BY <1>14 DEF ExitIsHonest, Running
<1> QED BY <1>2, <1>6, <1>10, <1>11, <1>13, <1>14, <1>15 DEF AuditIInv, Sweeping, Started

\* An observation that is judged is its own row's.
LEMMA AllSeen ==
  ASSUME WhereTheSweepIs, task \in {"judge", "search", "verdict"}
  PROVE  /\ point \in 1 .. Len(seen) /\ seen[point] = rows[point]
         /\ Len(seen) = PointCount(spec) /\ seen[point] \in spec.answers \cup {Panic}
<1>1. SeenIsRows /\ method \in Swept /\ point \in Nat \ {0} /\ point <= PointCount(spec)
  BY DEF WhereTheSweepIs, AtMethod, AtSet
<1>2. PointCount(spec) \in Nat
  <2>1. method \in 1 .. Len(Registry)
    BY <1>1, PlacesFacts
  <2> QED BY <2>1, MethodType DEF spec
<1>3. Len(seen) \in Nat /\ Len(seen) <= PointCount(spec) /\ ~ Len(seen) < PointCount(spec)
  BY <1>1 DEF SeenIsRows
<1>4. point \in 1 .. Len(seen) /\ Len(seen) = PointCount(spec)
  BY <1>1, <1>2, <1>3
<1>5. seen[point] \in spec.answers \cup {Panic}
  BY <1>1, <1>4, ElementOfSeq DEF SeenIsRows
<1> QED BY <1>1, <1>4, <1>5 DEF SeenIsRows

\* An observation goes on to its oracle's search, or to its verdict.
LEMMA AnswerKeeps ==
  ASSUME AuditIInv, task \in {"judge", "search"}, seen[point] # Panic,
         task' \in {"search", "verdict"}, task' = "verdict" => expected' \in References,
         UNCHANGED <<line, place, rows, seen, found, probes, outcome>>, SearchIInv'
  PROVE  AuditIInv'
<1>1. task \in Sweeping /\ task \in AtMethod /\ task \in AtSet /\ task' \in Sweeping
  BY DEF Sweeping, AtMethod, AtSet
<1>2. WhereTheSweepIs /\ SeenIsRows
  BY <1>1 DEF AuditIInv, WhereTheSweepIs
<1>3. made' = made /\ method' = method /\ set' = set /\ point' = point /\ rows' = rows /\ seen' = seen
      /\ place' = place /\ spec' = spec /\ Swept' = Swept
  BY SameLine DEF made, place, spec
<1>4. SeenIsRows'
  BY <1>2, <1>3 DEF SeenIsRows
<1>5. WhereTheSweepIs'
  BY <1>1, <1>2, <1>3, <1>4 DEF WhereTheSweepIs, AtMethod, AtSet
<1>6. \A p \in Places : Before(p, place)' <=> Before(p, place)
  BY <1>3 DEF Before
<1>7. probes' \in Seq(Probe) /\ found' \in Seq(Probe)
  BY DEF AuditIInv
<1> QED BY <1>1, <1>3, <1>5, <1>6, <1>7, QuietStep

\* An oracle's value is the next verdict's, and an oracle that gives up is a probe too.
LEMMA ReferKeeps ==
  ASSUME AuditIInv, task = "judge", seen[point] # Panic,
         NEW truth \in References \cup {Unavailable, Broken}, Refer(truth), UNCHANGED searchVars
  PROVE  AuditIInv'
<1>1. task \in Sweeping /\ task \in AtMethod /\ task \in AtSet
      /\ task \notin Started /\ task \notin {"report", "exit", "end"}
  BY DEF Sweeping, AtMethod, AtSet, Started
<1>2. SearchIInv' /\ WhereTheSweepIs /\ SeenIsRows /\ ~ Refused
  BY <1>1, SearchMoves DEF AuditIInv, WhereTheSweepIs
<1>3. CASE truth = Unavailable
  <2>1. Record("ORACLE_UNAVAILABLE")
    BY <1>3, RegistryAssumption DEF Refer
  <2>2. rows[point] # Panic
    BY <1>2, AllSeen
  <2>3. "ORACLE_UNAVAILABLE" # "PANIC"
    OBVIOUS
  <2>4. "ORACLE_UNAVAILABLE" \in Category
    BY DEF Category
  <2> QED BY <1>2, <2>1, <2>2, <2>3, <2>4, RecordKeeps
<1>4. CASE truth = Broken
  <2>1. /\ failure' = "oracle" /\ task' = "report"
        /\ UNCHANGED <<line, found, probes, report, exit>>
    BY <1>4, RegistryAssumption DEF Refer
  <2>2. made' = made /\ Places' = Places
    BY <2>1, SameLine DEF made
  <2>3. EachPointOnce'
    BY <2>2 DEF EachPointOnce, AuditIInv
  <2>4. report' = NoReport /\ exit' = Running
    BY <1>1, <2>1 DEF AuditIInv
  <2>5. ExitIsHonest'
    BY <2>4 DEF ExitIsHonest, Running
  <2> QED BY <1>2, <2>1, <2>3, <2>4, <2>5 DEF AuditIInv, Sweeping, Started
<1>5. CASE truth \notin {Unavailable, Broken}
  <2>1. /\ expected' = truth /\ task' = "verdict"
        /\ UNCHANGED <<line, place, rows, seen, found, probes, outcome>>
    BY <1>5, RegistryAssumption DEF Refer
  <2> QED BY <1>2, <1>5, <2>1, AnswerKeeps
<1> QED BY <1>3, <1>4, <1>5

\* No verdict of classify is a panic.
LEMMA ClassifyCategory ==
  ASSUME NEW value, NEW ref
  PROVE  classify(value, ref).category \in Category \ {"PANIC"}
<1>1. Compare(value, ref).category \in Category \ {"PANIC"}
  BY DEF Compare, Verdict, Absolute, Category
<1>2. CASE classify(value, ref) = Compare(value, ref)
  BY <1>1, <1>2
<1>3. CASE classify(value, ref) # Compare(value, ref)
  BY <1>3 DEF classify, OkIf, Verdict, Absolute, Category
<1> QED BY <1>2, <1>3

\* A panic reads PANIC, and everything else classify's verdict.
LEMMA JudgeKeeps ==
  ASSUME AuditIInv, JudgePanic \/ Judge
  PROVE  AuditIInv'
<1>1. task \in Sweeping /\ task \in AtMethod /\ task \in AtSet
  BY DEF Judge, JudgePanic, Sweeping, AtMethod, AtSet
<1>2. SearchIInv' /\ WhereTheSweepIs /\ SeenIsRows
  BY <1>1, SearchMoves DEF AuditIInv, WhereTheSweepIs, Judge, JudgePanic
<1>3. seen[point] = rows[point]
  BY <1>1, <1>2, AllSeen DEF Judge, JudgePanic
<1>4. CASE JudgePanic
  BY <1>2, <1>3, <1>4, RecordKeeps DEF JudgePanic, Category
<1>5. CASE Judge
  <2>1. seen[point] # Panic
    BY <1>2, <1>5 DEF WhereTheSweepIs, Judge
  <2> QED BY <1>2, <1>3, <1>5, <2>1, ClassifyCategory, RecordKeeps DEF Judge
<1> QED BY <1>4, <1>5

\* The method the sweep is at, once it is at one.
LEMMA AtAMethod ==
  ASSUME WhereTheSweepIs, task \in AtMethod
  PROVE  method \in 1 .. Len(Registry) /\ spec = Registry[method]
BY PlacesFacts DEF WhereTheSweepIs, spec

\* A closed form, a refinement or an end of the support: an oracle without a search.
LEMMA AskKeeps ==
  ASSUME AuditIInv, AskClosed \/ AskRefined \/ AskEnd
  PROVE  AuditIInv'
<1>1. task = "judge" /\ seen[point] # Panic /\ UNCHANGED searchVars
  BY DEF AskClosed, AskRefined, AskEnd, Asking
<1>2. WhereTheSweepIs /\ task \in AtMethod
  BY <1>1 DEF AuditIInv, Sweeping, AtMethod
<1>3. /\ spec.truths \subseteq References \cup {Unavailable, Broken}
      /\ spec.ends \subseteq References \cup {Unavailable, Broken}
  BY <1>2, AtAMethod, MethodType
<1>4. \E truth \in References \cup {Unavailable, Broken} : Refer(truth)
  BY <1>3 DEF AskClosed, AskRefined, AskEnd
<1> QED BY <1>1, <1>4, ReferKeeps

\* A discrete search starts from its support's bound, or from whatever the library answered.
LEMMA SearchStarts ==
  ASSUME AuditIInv, AskWithin \/ AskFrom
  PROVE  AuditIInv'
<1>1. task = "judge" /\ seen[point] # Panic /\ spec.oracle \in {"within", "from"}
  BY DEF AskWithin, AskFrom, Asking
<1>2. WhereTheSweepIs /\ task \in AtMethod
  BY <1>1 DEF AuditIInv, Sweeping, AtMethod
<1>3. spec.truths \subseteq Nat /\ spec.top \in Nat /\ spec.answers \subseteq Answers
  BY <1>1, <1>2, AtAMethod, MethodType
<1>4. seen[point] \in Answers
  BY <1>1, <1>2, <1>3, AllSeen
<1>5. Seed(seen[point]) \in Nat
  <2> DEFINE value == seen[point]
  <2>1. value \in {Null, NotANumber, PosInf, NegInf} \/ value \in Int
    BY <1>4 DEF Answers
  <2>2. One \in Nat \ {0}
    BY VerdictAssumption, RegistryAssumption
  <2> HIDE DEF value
  <2>3. Seed(value) \in Nat
    BY <1>3, <2>1, <2>2 DEF Seed
  <2> QED BY <2>3 DEF value
<1>6. \E n \in Nat, k \in Nat : Within(n, k) \/ From(n, k)
  BY <1>3, <1>5 DEF AskWithin, AskFrom
<1>7. SearchIInv'
  BY <1>6, SearchMoves DEF AuditIInv
<1>8. task' = "search" /\ UNCHANGED <<line, place, rows, seen, found, probes, outcome>>
  BY DEF AskWithin, AskFrom, observed
<1> QED BY <1>1, <1>7, <1>8, AnswerKeeps

\* A search steps, and its answer is the reference.
LEMMA SearchKeeps ==
  ASSUME AuditIInv, Search
  PROVE  AuditIInv'
<1>1. /\ task = "search" /\ SearchStep
      /\ (task' = "verdict" /\ expected' = lo * One) \/ task' = "search"
      /\ UNCHANGED <<line, place, rows, seen, found, probes, outcome>>
  BY DEF Search
<1>2. SearchIInv' /\ WhereTheSweepIs
  BY <1>1, SearchMoves DEF Sweeping, AuditIInv
<1>3. lo * One \in References
  <2>1. lo \in Nat /\ One \in Nat
    BY VerdictAssumption DEF AuditIInv, SearchIInv
  <2>2. lo * One \in Int
    BY <2>1
  <2> QED BY <2>2 DEF References
<1>4. seen[point] # Panic
  BY <1>1, <1>2 DEF WhereTheSweepIs
<1> QED BY <1>1, <1>2, <1>3, <1>4, AnswerKeeps

-----------------------------------------------------------------------------
\* A method not swept, a set passed over or the end of a method hides no point.
LEMMA NothingBetween ==
  ASSUME method \in Nat, set \in Nat
  PROVE  /\ method \notin Swept =>
              \A p \in Places : Before(p, <<method + 1, 1, 1>>) <=> Before(p, <<method, 1, 1>>)
         /\ ~ spec.sets[set] =>
              \A p \in Places : Before(p, <<method, set + 1, 1>>) <=> Before(p, <<method, set, 1>>)
         /\ method \in Swept /\ set = Len(spec.sets) + 1 =>
              \A p \in Places : Before(p, <<method + 1, 1, 1>>) <=> Before(p, <<method, set, 1>>)
<1>1. ASSUME NEW p \in Places
      PROVE  /\ p[1] \in Nat /\ p[2] \in Nat \ {0} /\ p[3] \in Nat \ {0} /\ p[1] \in Swept
             /\ p[1] = method => p[2] <= Len(spec.sets) /\ spec.sets[p[2]]
  <2>1. /\ p[1] \in Nat /\ p[2] \in Nat /\ p[3] \in Nat /\ p[1] \in Swept
        /\ p[2] \in 1 .. Len(Registry[p[1]].sets) /\ Registry[p[1]].sets[p[2]]
        /\ p[3] \in 1 .. PointCount(Registry[p[1]])
    BY PlacesFacts
  <2>2. Len(Registry[p[1]].sets) \in Nat /\ PointCount(Registry[p[1]]) \in Nat
    BY <2>1, PlacesFacts, MethodType
  <2> QED BY <2>1, <2>2 DEF spec
<1>2. ASSUME method \notin Swept, NEW p \in Places
      PROVE  Before(p, <<method + 1, 1, 1>>) <=> Before(p, <<method, 1, 1>>)
  BY <1>1, <1>2 DEF Before
<1>3. ASSUME ~ spec.sets[set], NEW p \in Places
      PROVE  Before(p, <<method, set + 1, 1>>) <=> Before(p, <<method, set, 1>>)
  <2>1. p[1] = method => p[2] # set
    BY <1>1, <1>3
  <2> QED BY <1>1, <2>1 DEF Before
<1>4. ASSUME method \in Swept, set = Len(spec.sets) + 1, NEW p \in Places
      PROVE  Before(p, <<method + 1, 1, 1>>) <=> Before(p, <<method, set, 1>>)
  <2>1. Len(spec.sets) \in Nat
    BY <1>4, PlacesFacts, MethodType DEF spec
  <2>2. p[1] = method => p[2] < set
    BY <1>1, <1>4, <2>1
  <2> QED BY <1>1, <2>2 DEF Before
<1> QED BY <1>2, <1>3, <1>4

\* audit_registry goes on to the next method.
LEMMA NextMethodKeeps ==
  ASSUME AuditIInv, NextMethod
  PROVE  AuditIInv'
<1>1. /\ task = "next" /\ task' \in {"next", "set"} /\ method <= Len(Registry)
      /\ UNCHANGED <<line, set, point, observed, found, probes, outcome, searchVars>>
      /\ \/ method \in Swept /\ task' = "set" /\ method' = method
         \/ method \notin Swept /\ task' = "next" /\ method' = method + 1
  BY DEF NextMethod
<1>2. WhereTheSweepIs /\ SearchIInv'
  BY <1>1, SearchMoves DEF AuditIInv, Sweeping
<1>3. /\ method \in 1 .. Len(Registry) + 1 /\ method \in Nat /\ Len(Registry) \in Nat
      /\ set = 1 /\ point = 1 /\ found = <<>>
  <2>1. Len(Registry) \in Nat
    BY RegistryAssumption
  <2> QED BY <1>1, <1>2, <2>1 DEF WhereTheSweepIs
<1>4. /\ task \in Sweeping /\ task' \in Sweeping /\ probes' \in Seq(Probe) /\ found' \in Seq(Probe)
      /\ UNCHANGED <<line, made, outcome>> /\ Swept' = Swept
  BY <1>1, SameLine DEF Sweeping, AuditIInv, made
<1>5. WhereTheSweepIs'
  <2>1. method \in Swept => Len(spec.sets) \in Nat
    BY PlacesFacts, MethodType DEF spec
  <2>2. method' = method => spec' = spec
    BY DEF spec
  <2>3. method' \in 1 .. Len(Registry) + 1 /\ set' = 1 /\ point' = 1 /\ found' = <<>>
    BY <1>1, <1>3
  <2>4. CASE task' = "set"
    <3>1. method' \in Swept' /\ set' <= Len(spec'.sets) + 1
      BY <1>1, <1>4, <2>1, <2>2, <2>3, <2>4
    <3> QED BY <2>3, <2>4, <3>1 DEF WhereTheSweepIs, AtMethod, AtSet
  <2>5. CASE task' = "next"
    BY <2>3, <2>5 DEF WhereTheSweepIs, AtMethod, AtSet
  <2> QED BY <1>1, <2>4, <2>5
<1>6. \A p \in Places : Before(p, place)' <=> Before(p, place)
  <2>1. CASE method \in Swept
    <3>1. place' = place
      BY <1>1, <2>1 DEF place
    <3> QED BY <3>1 DEF Before
  <2>2. CASE method \notin Swept
    <3>1. place = <<method, 1, 1>> /\ place' = <<method + 1, 1, 1>>
      BY <1>1, <1>3, <2>2 DEF place
    <3>2. \A p \in Places : Before(p, place') <=> Before(p, place)
      BY <1>3, <2>2, <3>1, NothingBetween
    <3> QED BY <3>2 DEF Before
  <2> QED BY <2>1, <2>2
<1> QED BY <1>2, <1>4, <1>5, <1>6, QuietStep

\* A parameter set past the oracle's reach is passed over.
LEMMA PassSetKeeps ==
  ASSUME AuditIInv, PassSet
  PROVE  AuditIInv'
<1>1. /\ task = "set" /\ task' = "set" /\ set <= Len(spec.sets) /\ ~ spec.sets[set] /\ set' = set + 1
      /\ UNCHANGED <<line, method, point, observed, found, probes, outcome, searchVars>>
  BY DEF PassSet
<1>2. /\ task \in Sweeping /\ task' \in Sweeping /\ probes' \in Seq(Probe) /\ found' \in Seq(Probe)
      /\ UNCHANGED <<line, made, outcome>> /\ Swept' = Swept /\ spec' = spec
  BY <1>1, SameLine DEF Sweeping, AuditIInv, made, spec
<1>3. WhereTheSweepIs /\ SearchIInv' /\ task \in AtMethod
  BY <1>1, SearchMoves DEF AuditIInv, Sweeping, AtMethod
<1>4. /\ method \in Swept /\ method \in 1 .. Len(Registry) + 1 /\ method \in Nat
      /\ set \in Nat \ {0} /\ point = 1 /\ Len(spec.sets) \in Nat
  <2>1. /\ method \in Swept /\ method \in 1 .. Len(Registry) + 1 /\ set \in Nat \ {0} /\ point = 1
    BY <1>1, <1>3 DEF WhereTheSweepIs
  <2>2. method \in Nat /\ Len(spec.sets) \in Nat
    BY <1>3, AtAMethod, MethodType
  <2> QED BY <2>1, <2>2
<1>5. WhereTheSweepIs'
  <2>1. set' \in Nat \ {0} /\ set' <= Len(spec.sets) + 1 /\ method' = method /\ point' = 1
    BY <1>1, <1>4
  <2> QED BY <1>1, <1>2, <1>4, <2>1 DEF WhereTheSweepIs, AtMethod, AtSet
<1>6. \A p \in Places : Before(p, place)' <=> Before(p, place)
  <2>1. place = <<method, set, 1>> /\ place' = <<method, set + 1, 1>>
    BY <1>1, <1>4 DEF place
  <2>2. \A p \in Places : Before(p, place') <=> Before(p, place)
    BY <1>1, <1>4, <2>1, NothingBetween
  <2> QED BY <2>2 DEF Before
<1> QED BY <1>2, <1>3, <1>5, <1>6, QuietStep

\* After its last parameter set a method's probes are all there.
LEMMA EndMethodKeeps ==
  ASSUME AuditIInv, EndMethod
  PROVE  AuditIInv'
<1>1. /\ task = "set" /\ task' = "yield" /\ set > Len(spec.sets)
      /\ UNCHANGED <<line, place, observed, found, probes, outcome, searchVars>>
  BY DEF EndMethod
<1>2. /\ task \in Sweeping /\ task' \in Sweeping /\ probes' \in Seq(Probe) /\ found' \in Seq(Probe)
      /\ UNCHANGED <<line, made, outcome>> /\ Swept' = Swept /\ spec' = spec /\ place' = place
      /\ method' = method /\ set' = set /\ point' = point
  BY <1>1, SameLine DEF Sweeping, AuditIInv, made, spec, place
<1>3. WhereTheSweepIs /\ SearchIInv' /\ task \in AtMethod
  BY <1>1, SearchMoves DEF AuditIInv, Sweeping, AtMethod
<1>4. method \in Swept /\ method \in 1 .. Len(Registry) + 1 /\ set = Len(spec.sets) + 1 /\ point = 1
  <2>1. /\ method \in Swept /\ method \in 1 .. Len(Registry) + 1 /\ set \in Nat \ {0} /\ point = 1
        /\ set <= Len(spec.sets) + 1
    BY <1>1, <1>3 DEF WhereTheSweepIs
  <2>2. Len(spec.sets) \in Nat
    BY <1>3, AtAMethod, MethodType
  <2> QED BY <1>1, <2>1, <2>2
<1>5. WhereTheSweepIs'
  <2>1. set \in Nat \ {0}
    BY <1>3 DEF WhereTheSweepIs
  <2>2. set <= Len(spec.sets) + 1
    BY <1>1, <1>3 DEF WhereTheSweepIs
  <2> QED BY <1>1, <1>2, <1>4, <2>1, <2>2 DEF WhereTheSweepIs, AtMethod, AtSet
<1>6. \A p \in Places : Before(p, place)' <=> Before(p, place)
  BY <1>2 DEF Before
<1> QED BY <1>2, <1>3, <1>5, <1>6, QuietStep

\* A probe is handed over, or there is none left and the next method is up.
LEMMA YieldKeeps ==
  ASSUME AuditIInv, Yield
  PROVE  AuditIInv'
<1>1. /\ task = "yield" /\ task' \in {"next", "yield"}
      /\ UNCHANGED <<line, point, observed, outcome, searchVars>>
      /\ \/ found = <<>> /\ task' = "next" /\ method' = method + 1 /\ set' = 1 /\ found' = found /\ probes' = probes
         \/ /\ found # <<>> /\ probes' = Append(probes, Head(found)) /\ found' = Tail(found)
            /\ UNCHANGED <<task, method, set>>
  BY DEF Yield
<1>2. WhereTheSweepIs /\ SearchIInv' /\ task \in AtMethod /\ task \in Sweeping /\ task' \in Sweeping
      /\ probes \in Seq(Probe) /\ found \in Seq(Probe)
  BY <1>1, SearchMoves DEF AuditIInv, Sweeping, AtMethod
<1>3. probes' \in Seq(Probe) /\ found' \in Seq(Probe) /\ made' = made
  <2>1. CASE found = <<>>
    BY <1>1, <1>2, <2>1 DEF made
  <2>2. CASE found # <<>>
    <3>1. Head(found) \in Probe /\ Tail(found) \in Seq(Probe)
      BY <1>2, <2>2, HeadTailProperties
    <3>2. probes' = Append(probes, Head(found)) /\ found' = Tail(found)
      BY <1>1, <2>2
    <3>3. probes' \in Seq(Probe)
      BY <1>2, <3>1, <3>2, AppendProperties
    <3>4. probes' \o found' = probes \o found
      BY <1>2, <2>2, <3>2, HandedOver
    <3> QED BY <3>1, <3>2, <3>3, <3>4 DEF made
  <2> QED BY <2>1, <2>2
<1>4. /\ method \in Swept /\ method \in 1 .. Len(Registry) /\ method \in Nat /\ Len(Registry) \in Nat
      /\ set = Len(spec.sets) + 1 /\ set \in Nat \ {0} /\ point = 1 /\ Swept' = Swept
  <2>1. method \in Swept /\ set = Len(spec.sets) + 1 /\ set \in Nat \ {0} /\ point = 1
    BY <1>1, <1>2 DEF WhereTheSweepIs, AtMethod
  <2>2. Len(Registry) \in Nat
    BY RegistryAssumption
  <2> QED BY <1>1, <1>2, <2>1, <2>2, AtAMethod, SameLine
<1>5. WhereTheSweepIs'
  <2>1. CASE task' = "next"
    <3>1. method' \in 1 .. Len(Registry) + 1 /\ set' = 1 /\ point' = 1 /\ found' = <<>>
      BY <1>1, <1>4, <2>1
    <3> QED BY <2>1, <3>1 DEF WhereTheSweepIs, AtMethod, AtSet
  <2>2. CASE task' = "yield"
    <3>1. method' = method /\ set' = set /\ point' = point /\ spec' = spec
      BY <1>1, <2>2 DEF spec
    <3>2. method \in 1 .. Len(Registry) + 1 /\ set <= Len(spec.sets) + 1
      BY <1>1, <1>2 DEF WhereTheSweepIs
    <3> QED BY <1>1, <1>2, <1>4, <2>2, <3>1, <3>2 DEF WhereTheSweepIs, AtMethod, AtSet
  <2> QED BY <1>1, <2>1, <2>2
<1>6. \A p \in Places : Before(p, place)' <=> Before(p, place)
  <2>1. CASE task' = "next"
    <3>1. place = <<method, set, 1>> /\ place' = <<method + 1, 1, 1>>
      BY <1>1, <1>4, <2>1 DEF place
    <3>2. \A p \in Places : Before(p, place') <=> Before(p, place)
      BY <1>4, <3>1, NothingBetween
    <3> QED BY <3>2 DEF Before
  <2>2. CASE task' = "yield"
    <3>1. place' = place
      BY <1>1, <2>2 DEF place
    <3> QED BY <3>1 DEF Before
  <2> QED BY <1>1, <2>1, <2>2
<1> QED BY <1>1, <1>2, <1>3, <1>5, <1>6, QuietStep

\* A batch, or the retry of a row, leaves the observations the rows' own as far as they go.
LEMMA ObserveKeeps ==
  ASSUME AuditIInv, Batch \/ RetryRow
  PROVE  AuditIInv'
<1>1. /\ task \in {"set", "retry"} /\ task' \in {"retry", "judge"}
      /\ UNCHANGED <<line, place, expected, found, probes, outcome, searchVars>>
  BY DEF Batch, RetryRow
<1>2. /\ task \in Sweeping /\ task' \in Sweeping /\ probes' \in Seq(Probe) /\ found' \in Seq(Probe)
      /\ UNCHANGED <<line, made, outcome>> /\ Swept' = Swept /\ spec' = spec /\ place' = place
      /\ method' = method /\ set' = set /\ point' = point
  BY <1>1, SameLine DEF Sweeping, AuditIInv, made, spec, place
<1>3. WhereTheSweepIs /\ SearchIInv' /\ task \in AtMethod
  BY <1>1, SearchMoves DEF AuditIInv, Sweeping, AtMethod
<1>4. /\ method \in Swept /\ method \in 1 .. Len(Registry) + 1 /\ set \in Nat \ {0} /\ point = 1
      /\ set <= Len(spec.sets) /\ spec.sets[set]
  BY <1>1, <1>3 DEF WhereTheSweepIs, AtSet, Batch, RetryRow
<1>5. Len(spec.sets) \in Nat /\ PointCount(spec) \in Nat \ {0}
  BY <1>3, AtAMethod, MethodType
<1> DEFINE S == spec.answers \cup {Panic}
           n == PointCount(spec)
<1>6. /\ rows' \in [1 .. n -> S] /\ seen' \in Seq(S) /\ Len(seen') <= n
      /\ \A x \in 1 .. Len(seen') : seen'[x] = rows'[x]
      /\ task' = "retry" <=> Len(seen') < n
  <2>1. CASE Batch
    <3>1. rows' \in [1 .. n -> S] /\ seen' \in {rows', <<>>} /\ task' = IF Len(seen') = Len(rows') THEN "judge" ELSE "retry"
      BY <2>1 DEF Batch, evaluate
    <3>2. rows' \in Seq(S) /\ Len(rows') = n
      <4> HIDE DEF S, n
      <4> QED BY <1>5, <3>1 DEF n
    <3>3. CASE seen' = rows'
      <4> HIDE DEF S
      <4> QED BY <1>5, <3>1, <3>2, <3>3
    <3>4. CASE seen' = <<>>
      <4>1. Len(seen') = 0 /\ seen' \in Seq(S)
        BY <3>4
      <4> HIDE DEF S
      <4> QED BY <1>5, <3>1, <3>2, <4>1
    <3> QED BY <3>1, <3>3, <3>4
  <2>2. CASE RetryRow
    <3>1. /\ task = "retry" /\ seen' = Append(seen, rows[Len(seen) + 1]) /\ rows' = rows
          /\ task' = IF Len(seen') = Len(rows) THEN "judge" ELSE "retry"
      BY <2>2 DEF RetryRow
    <3>2. SeenIsRows
      BY <1>3, <3>1 DEF WhereTheSweepIs, AtSet
    <3>3. /\ rows \in [1 .. n -> S] /\ seen \in Seq(S) /\ Len(seen) < n /\ Len(seen) \in Nat
          /\ \A x \in 1 .. Len(seen) : seen[x] = rows[x]
      BY <3>1, <3>2 DEF SeenIsRows
    <3> HIDE DEF S, n
    <3>4. n \in Nat /\ Len(rows) = n
      BY <1>5, <3>3 DEF n
    <3>5. Len(seen) + 1 \in 1 .. n /\ rows[Len(seen) + 1] \in S
      BY <3>3, <3>4
    <3>6. /\ seen' \in Seq(S) /\ Len(seen') = Len(seen) + 1 /\ seen'[Len(seen) + 1] = rows[Len(seen) + 1]
          /\ \A x \in 1 .. Len(seen) : seen'[x] = seen[x]
      BY <3>1, <3>3, <3>5, AppendProperties
    <3>7. \A x \in 1 .. Len(seen') : seen'[x] = rows'[x]
      BY <3>1, <3>3, <3>6
    <3> QED BY <3>1, <3>3, <3>4, <3>6, <3>7
  <2> QED BY <2>1, <2>2
<1>7. SeenIsRows'
  BY <1>2, <1>6 DEF SeenIsRows
<1>8. WhereTheSweepIs'
  BY <1>1, <1>2, <1>4, <1>5, <1>7 DEF WhereTheSweepIs, AtMethod, AtSet
<1>9. \A p \in Places : Before(p, place)' <=> Before(p, place)
  BY <1>2 DEF Before
<1> QED BY <1>2, <1>3, <1>8, <1>9, QuietStep

-----------------------------------------------------------------------------
\* The report's total is 0 exactly if no probe is a defect.
LEMMA DefectsCounted ==
  ASSUME NEW list \in Seq(Probe)
  PROVE  /\ Defects(list) \in Nat
         /\ Defects(list) > 0 <=> \E i \in DOMAIN list : list[i].category # "OK"
<1> DEFINE D == {i \in DOMAIN list : list[i].category # "OK"}
<1>1. IsFiniteSet(D)
  <2>1. DOMAIN list = 1 .. Len(list) /\ Len(list) \in Nat
    OBVIOUS
  <2>2. IsFiniteSet(1 .. Len(list))
    BY <2>1, FS_Interval
  <2> QED BY <2>1, <2>2, FS_Subset
<1>2. Cardinality(D) \in Nat /\ (Cardinality(D) = 0 <=> D = {})
  BY <1>1, FS_CardinalityType, FS_EmptySet
<1>3. Cardinality(D) \in Nat /\ (Cardinality(D) > 0 <=> D # {})
  BY <1>2
<1> QED BY <1>3 DEF Defects

\* Before the sweep there is nothing to keep; the sweep starts with every point ahead of it.
LEMMA StartKeeps ==
  ASSUME AuditIInv, RunControls \/ Guards
  PROVE  AuditIInv'
<1>1. /\ task \in Started /\ UNCHANGED <<line, place, observed, found, probes, failure, report, searchVars>>
      /\ \/ task' = "guards" /\ exit' = exit
         \/ task' = "next" /\ exit' = exit /\ ~ Refused
         \/ task' = "end" /\ exit' = 1
  BY DEF RunControls, Guards, Stop, Started
<1>2. /\ task \notin {"report", "exit", "end"} /\ probes = <<>> /\ found = <<>> /\ place = <<1, 1, 1>>
      /\ failure = "none" /\ report = NoReport /\ exit = Running
  BY <1>1 DEF AuditIInv, Started
<1>3. /\ probes' = <<>> /\ found' = <<>> /\ place' = <<1, 1, 1>> /\ method' = 1 /\ set' = 1 /\ point' = 1
      /\ failure' = "none" /\ report' = NoReport /\ SearchIInv'
  <2>1. SearchIInv'
    BY <1>1, SearchMoves DEF AuditIInv
  <2> QED BY <1>1, <1>2, <2>1 DEF place
<1>4. made' = <<>> /\ EachPointOnce'
  BY <1>3 DEF made, EachPointOnce
<1>5. ExitIsHonest'
  BY <1>1, <1>2, <1>3 DEF ExitIsHonest, Running
<1>6. CASE task' = "next"
  <2>1. ~ Refused'
    BY <1>1, <1>6, SameLine
  <2>2. Reached'
    <3>1. ASSUME NEW p \in Places' PROVE ~ Before(p, <<1, 1, 1>>)
      <4>1. Places' = Places
        BY <1>1, SameLine
      <4>2. /\ p[1] \in Swept /\ p[2] \in 1 .. Len(Registry[p[1]].sets)
            /\ p[3] \in 1 .. PointCount(Registry[p[1]])
        BY <4>1, PlacesFacts
      <4>3. p[1] \in 1 .. Len(Registry) /\ Len(Registry) \in Nat
        BY <4>2, PlacesFacts, RegistryAssumption
      <4>4. Len(Registry[p[1]].sets) \in Nat /\ PointCount(Registry[p[1]]) \in Nat
        BY <4>3, MethodType
      <4>5. p[1] \in Nat \ {0} /\ p[2] \in Nat \ {0} /\ p[3] \in Nat \ {0}
        BY <4>2, <4>3, <4>4
      <4> QED BY <4>5 DEF Before
    <3> QED BY <1>3, <1>4, <3>1 DEF Reached
  <2>3. WhereTheSweepIs'
    <3>1. 1 \in 1 .. Len(Registry) + 1
      BY RegistryAssumption
    <3> QED BY <1>3, <1>6, <3>1 DEF WhereTheSweepIs, AtMethod, AtSet
  <2>4. probes' \in Seq(Probe) /\ found' \in Seq(Probe) /\ exit' = Running
    BY <1>1, <1>2, <1>3, <1>6
  <2> QED BY <1>3, <1>4, <1>5, <1>6, <2>1, <2>2, <2>3, <2>4 DEF AuditIInv, Sweeping, Started
<1>7. CASE task' \in {"guards", "end"}
  <2>1. probes' \in Seq(Probe) /\ found' \in Seq(Probe) /\ (task' # "end" => exit' = Running)
    BY <1>1, <1>2, <1>3
  <2> QED BY <1>3, <1>4, <1>5, <1>7, <2>1 DEF AuditIInv, Sweeping, Started
<1> QED BY <1>1, <1>6, <1>7

\* The sweep ends past every point, or an interrupt ends it.
LEMMA EndKeeps ==
  ASSUME AuditIInv, EndSweep \/ Interrupt
  PROVE  AuditIInv'
<1>1. /\ task \in Sweeping /\ task' = "report" /\ UNCHANGED <<line, place, found, probes, report, exit, searchVars>>
      /\ \/ task = "next" /\ method > Len(Registry) /\ failure' = failure
         \/ failure' = "interrupt"
  BY DEF EndSweep, Interrupt, Sweeping, outcome
<1>2. /\ ~ Refused /\ WhereTheSweepIs /\ Reached /\ failure = "none" /\ report = NoReport /\ exit = Running
      /\ probes \in Seq(Probe) /\ found \in Seq(Probe) /\ EachPointOnce
  BY <1>1 DEF AuditIInv, Sweeping
<1>3. made' = made /\ Places' = Places /\ ~ Refused' /\ SearchIInv'
  BY <1>1, <1>2, SameLine, SearchMoves DEF made, AuditIInv
<1>4. EachPointOnce' /\ ExitIsHonest'
  BY <1>1, <1>2, <1>3 DEF EachPointOnce, ExitIsHonest, Running
<1>5. failure' = "none" => found' = <<>> /\ \A p \in Places : \E i \in DOMAIN made : made[i].place = p
  <2> SUFFICES ASSUME failure' = "none"
               PROVE  found' = <<>> /\ \A p \in Places : \E i \in DOMAIN made : made[i].place = p
    OBVIOUS
  <2>1. task = "next" /\ method > Len(Registry) /\ method \in 1 .. Len(Registry) + 1 /\ Len(Registry) \in Nat
    BY <1>1, <1>2, RegistryAssumption DEF WhereTheSweepIs
  <2>2. ASSUME NEW p \in Places PROVE Before(p, place)
    <3>1. p[1] \in 1 .. Len(Registry)
      BY PlacesFacts
    <3> QED BY <2>1, <3>1 DEF Before, place
  <2> QED BY <1>1, <1>2, <2>1, <2>2 DEF Reached, WhereTheSweepIs
<1> QED BY <1>1, <1>2, <1>3, <1>4, <1>5 DEF AuditIInv, Sweeping, Started

\* The report is of the probes made.
LEMMA ReportKeeps ==
  ASSUME AuditIInv, WriteReport
  PROVE  AuditIInv'
<1>1. /\ task = "report" /\ task' = "exit" /\ report' = [probes |-> probes, total |-> Defects(probes)]
      /\ UNCHANGED <<line, place, found, probes, failure, exit, searchVars>>
  BY DEF WriteReport
<1>2. made' = made /\ Places' = Places /\ (Refused' <=> Refused) /\ SearchIInv' /\ exit' = Running
      /\ report' = [probes |-> probes', total |-> Defects(probes')]
  BY <1>1, SameLine, SearchMoves DEF made, AuditIInv
<1>3. EachPointOnce' /\ ExitIsHonest'
  BY <1>1, <1>2 DEF EachPointOnce, ExitIsHonest, Running, AuditIInv
<1> QED BY <1>1, <1>2, <1>3 DEF AuditIInv, Sweeping, Started

\* The exit code is read off a report of everything there was to probe.
LEMMA LeaveKeeps ==
  ASSUME AuditIInv, Leave
  PROVE  AuditIInv'
<1>1. /\ task = "exit" /\ task' = "end" /\ exit' = IF failure = "none" THEN ReturnCode ELSE ByException
      /\ UNCHANGED <<line, place, found, probes, failure, report, searchVars>>
  BY DEF Leave, Stop
<1>2. /\ probes \in Seq(Probe) /\ found \in Seq(Probe) /\ EachPointOnce
      /\ report = [probes |-> probes, total |-> Defects(probes)]
      /\ failure = "none" => /\ ~ Refused /\ found = <<>>
                             /\ \A p \in Places : \E i \in DOMAIN made : made[i].place = p
  BY <1>1 DEF AuditIInv, Sweeping, Started
<1>3. made' = made /\ Places' = Places /\ unaudited_distributions' = unaudited_distributions /\ SearchIInv'
  BY <1>1, SameLine, SearchMoves DEF made, AuditIInv
<1>4. EachPointOnce'
  BY <1>2, <1>3 DEF EachPointOnce
<1>5. /\ Defects(probes) \in Nat /\ report.total = Defects(probes)
      /\ Defects(probes) > 0 <=> \E i \in DOMAIN probes : probes[i].category # "OK"
  BY <1>2, DefectsCounted
<1>6. ASSUME exit' = 0
      PROVE  /\ unaudited_distributions = {} /\ failure = "none" /\ Places # {}
             /\ Places = {probes[i].place : i \in DOMAIN probes}
             /\ \A i \in DOMAIN probes : probes[i].category = "OK"
  <2>1. failure = "none" /\ probes # <<>> /\ ~ report.total > 0
    BY <1>1, <1>6 DEF ReturnCode, ByException
  <2>2. unaudited_distributions = {} /\ found = <<>>
    BY <1>2, <2>1 DEF Refused
  <2>3. made = probes
    BY <1>2, <2>2, ConcatEmptySeq DEF made
  <2>4. Places = {probes[i].place : i \in DOMAIN probes}
    BY <1>2, <2>1, <2>3 DEF EachPointOnce
  <2>5. 1 \in DOMAIN probes
    BY <1>2, <2>1
  <2> QED BY <1>5, <2>1, <2>2, <2>4, <2>5
<1>7. ASSUME exit' = 1
      PROVE  probes = <<>> \/ \E i \in DOMAIN probes : probes[i].category # "OK"
  BY <1>1, <1>5, <1>7 DEF ReturnCode, ByException
<1>8. ExitIsHonest'
  BY <1>1, <1>3, <1>6, <1>7 DEF ExitIsHonest
<1> QED BY <1>1, <1>2, <1>3, <1>4, <1>8 DEF AuditIInv, Sweeping, Started

-----------------------------------------------------------------------------
\* A run has made no probe yet, written no report and given no code.
LEMMA AuditStarts == AuditInit => AuditIInv
<1> SUFFICES ASSUME AuditInit PROVE AuditIInv
  OBVIOUS
<1>1. SearchIInv
  BY DEF AuditInit, SearchInit, SearchIInv, Unbounded, Smallest
<1>2. made = <<>> /\ EachPointOnce
  BY DEF AuditInit, made, EachPointOnce
<1>3. ExitIsHonest
  BY DEF AuditInit, ExitIsHonest, Running
<1>4. probes \in Seq(Probe) /\ found \in Seq(Probe)
  BY DEF AuditInit
<1> QED BY <1>1, <1>2, <1>3, <1>4 DEF AuditInit, AuditIInv, Sweeping, Started, place

\* Every step of a run, its queries, oracles and interrupts included, keeps the invariant.
LEMMA AuditStepKeeps == AuditIInv /\ [AuditNext]_auditVars => AuditIInv'
<1> SUFFICES ASSUME AuditIInv, [AuditNext]_auditVars PROVE AuditIInv'
  OBVIOUS
<1>1. CASE RunControls \/ Guards
  BY <1>1, StartKeeps
<1>2. CASE NextMethod
  BY <1>2, NextMethodKeeps
<1>3. CASE PassSet
  BY <1>3, PassSetKeeps
<1>4. CASE Batch \/ RetryRow
  BY <1>4, ObserveKeeps
<1>5. CASE JudgePanic \/ Judge
  BY <1>5, JudgeKeeps
<1>6. CASE AskClosed \/ AskRefined \/ AskEnd
  BY <1>6, AskKeeps
<1>7. CASE AskWithin \/ AskFrom
  BY <1>7, SearchStarts
<1>8. CASE Search
  BY <1>8, SearchKeeps
<1>9. CASE EndMethod
  BY <1>9, EndMethodKeeps
<1>10. CASE Yield
  BY <1>10, YieldKeeps
<1>11. CASE EndSweep \/ Interrupt
  BY <1>11, EndKeeps
<1>12. CASE WriteReport
  BY <1>12, ReportKeeps
<1>13. CASE Leave
  BY <1>13, LeaveKeeps
<1>14. CASE UNCHANGED auditVars
  <2>1. /\ line' = line /\ task' = task /\ place' = place /\ found' = found /\ probes' = probes
        /\ rows' = rows /\ seen' = seen /\ expected' = expected
        /\ method' = method /\ set' = set /\ point' = point
        /\ failure' = failure /\ report' = report /\ exit' = exit /\ UNCHANGED searchVars
    BY <1>14 DEF auditVars, place, observed, outcome
  <2>2. SearchIInv' /\ made' = made /\ spec' = spec /\ Places' = Places /\ Swept' = Swept
        /\ (Refused' <=> Refused) /\ unaudited_distributions' = unaudited_distributions
    BY <2>1, SameLine, SearchMoves DEF AuditIInv, made, spec
  <2>3. (WhereTheSweepIs => WhereTheSweepIs') /\ (Reached => Reached')
    BY <2>1, <2>2 DEF WhereTheSweepIs, SeenIsRows, Reached
  <2>4. EachPointOnce' /\ ExitIsHonest'
    BY <2>1, <2>2 DEF AuditIInv, EachPointOnce, ExitIsHonest
  <2> QED BY <2>1, <2>2, <2>3, <2>4 DEF AuditIInv
<1>15. CASE Idle
  BY <1>14, <1>15 DEF Idle
<1> QED
  BY <1>1, <1>2, <1>3, <1>4, <1>5, <1>6, <1>7, <1>8, <1>9, <1>10, <1>11, <1>12, <1>13, <1>14, <1>15
  DEF AuditNext, Step

(***************************************************************************)
(* The run's invariant, for every registry, library and oracle: the probes *)
(* are those of the points behind the sweep, one each and in its order;    *)
(* the observations are the rows' own; the report is of the probes         *)
(* (audit_registry, audit_method, evaluate, main).                         *)
(***************************************************************************)
THEOREM AuditInvariant == AuditSpec => []AuditIInv
BY AuditStarts, AuditStepKeeps, PTL DEF AuditSpec

(***************************************************************************)
(* Along a whole run, a search seeded with any answer of the library finds *)
(* the smallest satisfying point: a wrong answer is never its own          *)
(* reference (smallest_satisfying, smallest_from, Seed).                   *)
(***************************************************************************)
THEOREM OraclesAreIndependent == AuditSpec => []SearchFindsSmallest
<1>1. AuditIInv => SearchFindsSmallest
  BY DEF AuditIInv, SearchIInv, SearchFindsSmallest
<1> QED BY <1>1, AuditInvariant, PTL

(***************************************************************************)
(* Whatever the library answers and whatever the oracle gives, no verdict  *)
(* of a run is unfair (classify).                                          *)
(***************************************************************************)
THEOREM EveryVerdictIsFair == AuditSpec => []VerdictsAreFair
<1>1. AuditIInv => VerdictsAreFair
  <2> SUFFICES ASSUME AuditIInv, task = "verdict" PROVE Fair(seen[point], expected)
    BY DEF VerdictsAreFair
  <2>1. WhereTheSweepIs /\ task \in AtMethod
    BY DEF AuditIInv, Sweeping, AtMethod
  <2>2. seen[point] # Panic /\ expected \in References
    BY <2>1 DEF WhereTheSweepIs
  <2>3. seen[point] \in Answers
    BY <2>1, <2>2, AllSeen, AtAMethod, MethodType
  <2> QED BY <2>2, <2>3, ClassifyIsFair
<1> QED BY <1>1, AuditInvariant, PTL

(***************************************************************************)
(* No raising row, oracle or interrupt makes the sweep lose a point, probe *)
(* one twice or call another row a panic (evaluate, audit_registry).       *)
(***************************************************************************)
THEOREM ProbesAreThePoints == AuditSpec => []EachPointOnce
<1>1. AuditIInv => EachPointOnce
  BY DEF AuditIInv
<1> QED BY <1>1, AuditInvariant, PTL

(***************************************************************************)
(* Exit code 0 vouches for every point asked for, and 1 after a sweep for  *)
(* a defect or an empty sweep (main).                                      *)
(***************************************************************************)
THEOREM CodesAreHonest == AuditSpec => []ExitIsHonest
<1>1. AuditIInv => ExitIsHonest
  BY DEF AuditIInv
<1> QED BY <1>1, AuditInvariant, PTL

=============================================================================
