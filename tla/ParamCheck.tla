----------------------------- MODULE ParamCheck -----------------------------
(***************************************************************************)
(* The domain pass over two parameter columns, as the drivers run it       *)
(* before any row is answered (src/src/distributions/mod.rs, and each      *)
(* distribution's check_params): First's own rule, then Second's, then the *)
(* joint rule.                                                             *)
(*                                                                         *)
(* Each pass reads its columns twice at most.  A fast pass folds chunk     *)
(* after chunk, past the validity bitmap where it can, and only says yes   *)
(* or no.  On a no, a reporting pass reads cell by cell for the value to   *)
(* name; if it finds none, the column is accepted after all.               *)
(*                                                                         *)
(* A column lies in chunks.  Behind a null slot is a value nobody chose.   *)
(***************************************************************************)
EXTENDS PluginArgs, Chunks

CONSTANTS
  First, Second,   \* the two parameters, in the order they are checked
  Columns          \* the columns under study

(***************************************************************************)
(* A column: the values in memory, which of them are valid, and its        *)
(* chunks.  Both columns of a pair have one length, chunked as they came.  *)
(***************************************************************************)
ColumnType(n) == [values : [1 .. n -> Values], valid : [1 .. n -> BOOLEAN], chunks : Cuts(n)]

ASSUME ColumnsAssumption ==
  /\ Params = {First, Second} /\ First # Second /\ "joint" \notin Params
  /\ \A C \in Columns :
       Len(C[First].values) \in Nat /\ C \in [Params -> ColumnType(Len(C[First].values))]

VARIABLES
  columns,   \* the parameter columns, never written
  zipped,    \* the chunks the joint pass pairs off: the columns' own until it aligns them
  pass,      \* whose rule is being read: First, Second, "joint"
  reading,   \* "chunks" in a fast pass, "cells" in a reporting one, "align" before the joint pass
  at,        \* per column, the row the reading stands at
  verdict

vars == <<columns, zipped, pass, reading, at, verdict>>

Rows == Len(columns[First].values)

Cell(column, r) == IF column.valid[r] THEN column.values[r] ELSE NULL

Cells(r) == [p \in Params |-> Cell(columns[p], r)]

Start == [p \in Params |-> 1]

Pending == [kind |-> "pending"]
Valid == [kind |-> "valid"]
Rejected(rule, r) == [kind |-> "rejected", rule |-> rule, row |-> r]

-----------------------------------------------------------------------------
Init ==
  /\ columns \in Columns
  /\ zipped = [p \in Params |-> columns[p].chunks]
  /\ pass = First
  /\ reading = "chunks"
  /\ at = Start
  /\ verdict = Pending

\* The chunk a reading that stands at row r reads next, and where it goes on.
ChunkAt(chunks, r) == CHOOSE m \in chunks : m.from = r

After(m) == m.to + 1

HasNulls(column, m) == \E r \in m.from .. m.to : ~ column.valid[r]

\* Mutant: the second parameter's own rule is forgotten.
SecondForgotten(rule) == "joint"

\* check_params: each parameter alone, then the pair.
NextPass(rule) == IF rule = First THEN Second ELSE "joint"

\* A pass accepts its columns: the next one starts, or all of them have accepted.
PassAccepts ==
  /\ IF pass = "joint" THEN verdict' = Valid /\ UNCHANGED <<pass, reading>>
     ELSE /\ pass' = NextPass(pass)
          /\ reading' = IF NextPass(pass) = "joint" THEN "align" ELSE "chunks"
          /\ UNCHANGED verdict
  /\ at' = Start

\* A fast pass meets something it rejects, and the reporting pass starts over.
StartReport ==
  /\ reading' = "cells"
  /\ at' = Start
  /\ UNCHANGED <<pass, verdict>>

Advance(next) == at' = next /\ UNCHANGED <<pass, reading, verdict>>

-----------------------------------------------------------------------------
\* Mutant: a chunk's validity bitmap is not consulted.
ChunkUnmasked(column, p, m) == \A r \in m.from .. m.to : column.values[r] \in Accepted[p]

(***************************************************************************)
(* all_present_accepted, one chunk: behind the bitmap if it has a null,    *)
(* straight off the values if not.                                         *)
(***************************************************************************)
ChunkAccepted(column, p, m) ==
  IF HasNulls(column, m)
  THEN \A r \in m.from .. m.to : ~ column.valid[r] \/ column.values[r] \in Accepted[p]
  ELSE \A r \in m.from .. m.to : column.values[r] \in Accepted[p]

ReadChunk ==
  /\ verdict = Pending /\ pass \in Params /\ reading = "chunks"
  /\ IF at[pass] > Rows THEN PassAccepts
     ELSE LET m == ChunkAt(columns[pass].chunks, at[pass]) IN
          IF ChunkAccepted(columns[pass], pass, m)
          THEN Advance([at EXCEPT ![pass] = After(m)])
          ELSE StartReport
  /\ UNCHANGED <<columns, zipped>>

\* check_column's second reading: `column.iter().flatten().try_for_each(check)`.
ReadCell ==
  /\ verdict = Pending /\ pass \in Params /\ reading = "cells"
  /\ IF at[pass] > Rows THEN PassAccepts
     ELSE IF Cell(columns[pass], at[pass]) \in Accepted[pass] \cup {NULL}
     THEN Advance([at EXCEPT ![pass] = @ + 1])
     ELSE verdict' = Rejected(pass, at[pass]) /\ UNCHANGED <<pass, reading, at>>
  /\ UNCHANGED <<columns, zipped>>

-----------------------------------------------------------------------------
\* align_chunks_binary: some layout common to both columns, polars' choice.
CommonChunks(chunks, n) ==
  IF chunks[First] = chunks[Second] THEN {chunks} ELSE {[p \in Params |-> M] : M \in Cuts(n)}

\* Mutant: the columns are paired off in the chunks they came in.
PairAsTheyCame ==
  /\ verdict = Pending /\ pass = "joint" /\ reading = "align"
  /\ reading' = "chunks"
  /\ UNCHANGED <<columns, zipped, pass, at, verdict>>

AlignChunks ==
  /\ verdict = Pending /\ pass = "joint" /\ reading = "align"
  /\ zipped' \in CommonChunks(zipped, Rows)
  /\ reading' = "chunks"
  /\ UNCHANGED <<columns, pass, at, verdict>>

\* The cells a zip pairs at offset j of two chunks.
Paired(chunk, j) == [p \in Params |-> Cell(columns[p], chunk[p].from + j)]

PairedValues(chunk, j) == [p \in Params |-> columns[p].values[chunk[p].from + j]]

(***************************************************************************)
(* check_columns on one pair of chunks: straight off the values if neither *)
(* has a null, else only where both cells are present.                     *)
(***************************************************************************)
PairAccepted(chunk) ==
  LET offsets == {j \in 0 .. Rows : \A p \in Params : chunk[p].from + j <= chunk[p].to} IN
  IF \A p \in Params : ~ HasNulls(columns[p], chunk[p])
  THEN \A j \in offsets : PairedValues(chunk, j) \in Joint
  ELSE \A j \in offsets : JointRuleHolds(Paired(chunk, j))

ReadPairedChunks ==
  /\ verdict = Pending /\ pass = "joint" /\ reading = "chunks"
  /\ IF \E p \in Params : at[p] > Rows THEN PassAccepts
     ELSE LET chunk == [p \in Params |-> ChunkAt(zipped[p], at[p])] IN
          IF PairAccepted(chunk)
          THEN Advance([p \in Params |-> After(chunk[p])])
          ELSE StartReport
  /\ UNCHANGED <<columns, zipped>>

ReadPair ==
  /\ verdict = Pending /\ pass = "joint" /\ reading = "cells"
  /\ IF at[First] > Rows THEN PassAccepts
     ELSE IF JointRuleHolds(Cells(at[First]))
     THEN Advance([p \in Params |-> at[p] + 1])
     ELSE verdict' = Rejected("joint", at[First]) /\ UNCHANGED <<pass, reading, at>>
  /\ UNCHANGED <<columns, zipped>>

Finished == verdict # Pending /\ UNCHANGED vars

Next == ReadChunk \/ ReadCell \/ AlignChunks \/ ReadPairedChunks \/ ReadPair \/ Finished

Spec == Init /\ [][Next]_vars

-----------------------------------------------------------------------------
(***************************************************************************)
(* Every variable has its type.                                            *)
(***************************************************************************)
TypeOK ==
  /\ Rows \in Nat /\ columns \in [Params -> ColumnType(Rows)]
  /\ zipped \in [Params -> Cuts(Rows)]
  /\ pass \in Params \cup {"joint"}
  /\ reading \in {"chunks", "cells", "align"}
  /\ at \in [Params -> 1 .. Rows + 1]
  /\ verdict \in {Pending, Valid} \cup {Rejected(p, r) : p \in Params \cup {"joint"}, r \in 1 .. Rows}

(***************************************************************************)
(* The passes accept exactly the columns whose every row holds to its      *)
(* domain, wherever their nulls are, whatever lies behind those and        *)
(* however the two are chunked: what the drivers' own models take the      *)
(* check to be (Sampler and ValueKeyed, ColumnsValid).                     *)
(***************************************************************************)
VerdictIsTheDomains ==
  verdict # Pending => (verdict = Valid <=> \A r \in 1 .. Rows : DomainHolds(Cells(r)))

(***************************************************************************)
(* The error names a value that is there: the first one its rule rejects,  *)
(* and no earlier rule rejects any.                                        *)
(***************************************************************************)
RejectsTheFirst ==
  \A r \in 1 .. Rows :
    /\ verdict = Rejected("joint", r) =>
         /\ \A q \in 1 .. Rows : OwnRuleHolds(Cells(q))
         /\ \A q \in 1 .. r : JointRuleHolds(Cells(q)) <=> q # r
    /\ \A p \in Params : verdict = Rejected(p, r) =>
         /\ \A q \in 1 .. r : Cells(q)[p] \in Accepted[p] \cup {NULL} <=> q # r
         /\ p = Second => \A q \in 1 .. Rows : Cells(q)[First] \in Accepted[First] \cup {NULL}

(***************************************************************************)
(* A fast pass gives no false alarm: what sends a column to the reporting  *)
(* pass is found there, so no column is read twice to be accepted.         *)
(***************************************************************************)
AlarmsAreReal == reading = "cells" => \A p \in Params : at[p] <= Rows

-----------------------------------------------------------------------------
(***************************************************************************)
(* The inductive invariant, part by part.                                  *)
(***************************************************************************)
OwnHolds(p, r) == Cells(r)[p] \in Accepted[p] \cup {NULL}

\* A reading in chunks stands where one starts, or at the end.
AtChunk(chunks, r) == r = Rows + 1 \/ \E m \in chunks : m.from = r

\* The rules before the one being read have accepted every row.
EarlierPassed ==
  /\ pass # First => \A r \in 1 .. Rows : OwnHolds(First, r)
  /\ pass = "joint" => \A r \in 1 .. Rows : OwnHolds(Second, r)

\* What a pass over one column has read it has accepted; once alarmed, the cause is ahead.
OwnProgress ==
  verdict = Pending /\ pass \in Params =>
    /\ reading # "align"
    /\ \A r \in 1 .. at[pass] - 1 : OwnHolds(pass, r)
    /\ reading = "chunks" => AtChunk(columns[pass].chunks, at[pass])
    /\ reading = "cells" => \E r \in at[pass] .. Rows : ~ OwnHolds(pass, r)
    /\ \A p \in Params : p # pass => at[p] = 1
    /\ zipped = [p \in Params |-> columns[p].chunks]

\* The same of the joint pass, which reads both columns at one row.
JointProgress ==
  verdict = Pending /\ pass = "joint" =>
    /\ at[First] = at[Second]
    /\ \A r \in 1 .. at[First] - 1 : JointRuleHolds(Cells(r))
    /\ reading = "align" => at = Start
    /\ reading = "chunks" => zipped[First] = zipped[Second] /\ AtChunk(zipped[First], at[First])
    /\ reading = "cells" => \E r \in at[First] .. Rows : ~ JointRuleHolds(Cells(r))

ValidWhenSaid == verdict = Valid => \A r \in 1 .. Rows : DomainHolds(Cells(r))

IInv ==
  /\ TypeOK /\ EarlierPassed /\ OwnProgress /\ JointProgress /\ ValidWhenSaid
  /\ RejectsTheFirst /\ AlarmsAreReal

=============================================================================
