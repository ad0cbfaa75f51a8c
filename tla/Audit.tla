------------------------------- MODULE Audit --------------------------------
(***************************************************************************)
(* One run of the accuracy audit (tools/accuracy/audit.py): its controls   *)
(* and guards, the sweep of every method over its parameter sets, and the  *)
(* report, which the exit code is read off.  The library and the oracles   *)
(* are the environment: a query may answer anything, raise on some rows,   *)
(* never return, and be interrupted; an oracle may give up or break.       *)
(***************************************************************************)
EXTENDS AuditSearch, AuditVerdict, Sequences, FiniteSets

CONSTANTS
  Registry,         \* build_registry(): the methods, in order
  CommandLines,     \* [controls, wanted, skip, exported]: the arguments, and what the package exports
  KnownHangs,       \* the methods skipped by default
  NoSkip,           \* no --skip on the command line
  ControlAnswers,   \* what the library may answer the negative control
  SaturatedTruth, ControlTruth,   \* the oracles of the two controls
  Panic, Unavailable, Broken      \* a raising row, an oracle that gave up, one that broke

(***************************************************************************)
(* A method of the registry: its distribution and name; per parameter set, *)
(* whether it is within max_first_param; its points per set, 0 for a       *)
(* moment; how its oracle works; what the library and the oracle may       *)
(* answer; for an inverse that is searched for, its answers at the ends    *)
(* (ends) and the support's top or the mean (top); and whether the library *)
(* never returns from it.                                                  *)
(***************************************************************************)
Key(spec) == <<spec.dist, spec.method>>

method_keys == {Key(Registry[i]) : i \in DOMAIN Registry}

IsMoment(spec) == spec.points = 0

PointCount(spec) == IF IsMoment(spec) THEN 1 ELSE spec.points

AuditedMethod ==
  [dist : STRING, method : STRING, sets : Seq(BOOLEAN), points : Nat,
   oracle : {"closed", "refined", "within", "from"}, hangs : BOOLEAN, top : Nat,
   answers : SUBSET Answers, ends : SUBSET (References \cup {Unavailable, Broken}),
   truths : SUBSET (References \cup {Unavailable, Broken})]

\* A predicate a discrete oracle searches with holds from some count on.
ASSUME RegistryAssumption ==
  /\ One # 0 /\ Panic \notin Answers /\ Broken # Unavailable
  /\ Registry \in Seq(AuditedMethod)
  /\ \A i \in DOMAIN Registry :
       Registry[i].oracle \in {"within", "from"} => Registry[i].truths \subseteq Nat

VARIABLES
  line,      \* the command line, never written
  task,      \* what main is at
  method,       \* the method of the registry the sweep is at,
  set, point,   \* and where in it
  rows,      \* the library's behaviour on each point of the set
  seen,      \* the observations made of it
  expected,  \* the oracle's value for the point being judged
  found,     \* audit_method's probes
  probes,    \* main's probes
  failure,   \* what ended the sweep early
  report,
  exit

place == <<method, set, point>>
observed == <<rows, seen, expected>>
outcome == <<failure, report, exit>>
auditVars == <<line, task, place, observed, found, probes, outcome, searchVars>>

Running == -1
ByException == 2   \* the interpreter's own exit on an exception, whatever its code: never 0
NoReport == [probes |-> <<>>, total |-> -1]
Sweeping == {"next", "set", "retry", "judge", "search", "verdict", "yield"}

-----------------------------------------------------------------------------
AuditInit ==
  /\ SearchInit
  /\ line \in CommandLines
  /\ task = "controls"
  /\ method = 1 /\ set = 1 /\ point = 1
  /\ rows = <<>> /\ seen = <<>> /\ expected = NotANumber
  /\ found = <<>> /\ probes = <<>>
  /\ failure = "none" /\ report = NoReport /\ exit = Running

Stop(code) == task' = "end" /\ exit' = code

\* run_controls: a saturated tail must read as a defect, a hardened one as right.
ControlsPass(answer) ==
  /\ classify(NegInf, SaturatedTruth).category = "UNDERFLOW"
  /\ classify(answer, ControlTruth).category = "OK"

RunControls ==
  /\ task = "controls"
  /\ \E answer \in ControlAnswers :
       IF line.controls /\ ~ ControlsPass(answer) THEN Stop(1) ELSE task' = "guards" /\ UNCHANGED exit
  /\ UNCHANGED <<line, place, observed, found, probes, failure, report, searchVars>>

unaudited_distributions == line.exported \ {Registry[i].dist : i \in DOMAIN Registry}

Skipped == IF line.skip = NoSkip THEN KnownHangs ELSE line.skip

\* What the distribution filter leaves of the registry, and what the sweep will not skip of that.
Wanted == {i \in DOMAIN Registry : line.wanted = {} \/ Registry[i].dist \in line.wanted}

Swept == {i \in Wanted : Key(Registry[i]) \notin Skipped}

\* An unaudited distribution, a filter that keeps none, a skip that names none.
Refused ==
  \/ unaudited_distributions # {}
  \/ Wanted = {}
  \/ ~ Skipped \subseteq method_keys

Guards ==
  /\ task = "guards"
  /\ IF Refused THEN Stop(1) ELSE task' = "next" /\ UNCHANGED exit
  /\ UNCHANGED <<line, place, observed, found, probes, failure, report, searchVars>>

-----------------------------------------------------------------------------
spec == Registry[method]

\* audit_registry's loop: over the filtered registry, and past what is skipped.
NextMethod ==
  /\ task = "next" /\ method <= Len(Registry)
  /\ IF method \in Swept THEN task' = "set" /\ UNCHANGED method
     ELSE method' = method + 1 /\ UNCHANGED task
  /\ UNCHANGED <<line, set, point, observed, found, probes, outcome, searchVars>>

\* audit_method: a parameter set past the oracle's reach is left out.
PassSet ==
  /\ task = "set" /\ set <= Len(spec.sets) /\ ~ spec.sets[set]
  /\ set' = set + 1
  /\ UNCHANGED <<line, task, method, point, observed, found, probes, outcome, searchVars>>

Raises(behaviour) == \E x \in DOMAIN behaviour : behaviour[x] = Panic

\* Mutant: a batch that raised is an error on every row.
BatchIsAll(behaviour) == [x \in DOMAIN behaviour |-> Panic]

\* The observations of a batch that raised, before any retry: a moment's only one.
evaluate(behaviour) == IF IsMoment(spec) THEN behaviour ELSE <<>>

\* One query over every point of the set; a raising row costs the whole of it.
Batch ==
  /\ task = "set" /\ set <= Len(spec.sets) /\ spec.sets[set] /\ ~ spec.hangs
  /\ rows' \in [1 .. PointCount(spec) -> spec.answers \cup {Panic}]
  /\ seen' = IF Raises(rows') THEN evaluate(rows') ELSE rows'
  /\ task' = IF Len(seen') = Len(rows') THEN "judge" ELSE "retry"
  /\ UNCHANGED <<line, place, expected, found, probes, outcome, searchVars>>

\* evaluate: the batch again, one row at a time.
RetryRow ==
  /\ task = "retry"
  /\ seen' = Append(seen, rows[Len(seen) + 1])
  /\ task' = IF Len(seen') = Len(rows) THEN "judge" ELSE "retry"
  /\ UNCHANGED <<line, place, rows, expected, found, probes, outcome, searchVars>>

\* A probe is recorded, and the next point or parameter set is up.
Record(category) ==
  /\ found' = Append(found, [place |-> place, category |-> category, raised |-> rows[point] = Panic])
  /\ IF point = Len(seen)
     THEN task' = "set" /\ set' = set + 1 /\ point' = 1 /\ rows' = <<>> /\ seen' = <<>>
     ELSE task' = "judge" /\ point' = point + 1 /\ UNCHANGED <<set, rows, seen>>
  /\ expected' = NotANumber
  /\ UNCHANGED <<line, method, probes, outcome>>

JudgePanic ==
  /\ task = "judge" /\ seen[point] = Panic
  /\ Record("PANIC")
  /\ UNCHANGED searchVars

\* An observation waits for an oracle of this kind.
Asking(oracle) == task = "judge" /\ seen[point] # Panic /\ spec.oracle = oracle

\* reference_value: an oracle answers, gives up, or breaks and takes the sweep with it.
Refer(truth) ==
  CASE truth = Unavailable -> Record("ORACLE_UNAVAILABLE")
    [] truth = Broken -> /\ failure' = "oracle" /\ task' = "report"
                         /\ UNCHANGED <<line, place, observed, found, probes, report, exit>>
    [] truth \notin {Unavailable, Broken} ->
         /\ expected' = truth /\ task' = "verdict"
         /\ UNCHANGED <<line, place, rows, seen, found, probes, outcome>>

AskClosed ==
  /\ Asking("closed")
  /\ \E truth \in spec.truths : Refer(truth)
  /\ UNCHANGED searchVars

\* solve_monotone: refined from the library's own answer, if that is finite.
AskRefined ==
  /\ Asking("refined")
  /\ IF seen[point] \in {Null, NotANumber, PosInf, NegInf} THEN Refer(Unavailable)
     ELSE \E truth \in spec.truths : Refer(truth)
  /\ UNCHANGED searchVars

\* An inverse at a quantile no search or seed is needed for, 0 or less or 1 or more.
AskEnd ==
  /\ Asking("refined") \/ Asking("within") \/ Asking("from")
  /\ \E truth \in spec.ends : Refer(truth)
  /\ UNCHANGED searchVars

\* binomial_ppf, binomial_isf and their like: over the whole support.
AskWithin ==
  /\ Asking("within")
  /\ \E k \in spec.truths : Within(spec.top, k)
  /\ task' = "search"
  /\ UNCHANGED <<line, place, observed, found, probes, outcome>>

\* poisson_quantile: from the library's answer, or the mean if that is no count.
Seed(value) ==
  IF value \in {Null, NotANumber, PosInf, NegInf} THEN spec.top
  ELSE IF value < 0 THEN spec.top ELSE value \div One

AskFrom ==
  /\ Asking("from")
  /\ \E k \in spec.truths : From(Seed(seen[point]), k)
  /\ task' = "search"
  /\ UNCHANGED <<line, place, observed, found, probes, outcome>>

Search ==
  /\ task = "search" /\ SearchStep
  /\ IF phase' = "found" THEN task' = "verdict" /\ expected' = lo * One ELSE UNCHANGED <<task, expected>>
  /\ UNCHANGED <<line, place, rows, seen, found, probes, outcome>>

Judge ==
  /\ task = "verdict"
  /\ Record(classify(seen[point], expected).category)
  /\ UNCHANGED searchVars

\* audit_registry has all of a method's probes, and hands them over one by one.
EndMethod ==
  /\ task = "set" /\ set > Len(spec.sets)
  /\ task' = "yield"
  /\ UNCHANGED <<line, place, observed, found, probes, outcome, searchVars>>

Yield ==
  /\ task = "yield"
  /\ IF found = <<>>
     THEN task' = "next" /\ method' = method + 1 /\ set' = 1 /\ UNCHANGED <<found, probes>>
     ELSE probes' = Append(probes, Head(found)) /\ found' = Tail(found) /\ UNCHANGED <<task, method, set>>
  /\ UNCHANGED <<line, point, observed, outcome, searchVars>>

EndSweep ==
  /\ task = "next" /\ method > Len(Registry)
  /\ task' = "report"
  /\ UNCHANGED <<line, place, observed, found, probes, outcome, searchVars>>

Interrupt ==
  /\ task \in Sweeping
  /\ failure' = "interrupt" /\ task' = "report"
  /\ UNCHANGED <<line, place, observed, found, probes, report, exit, searchVars>>

Defects(list) == Cardinality({i \in DOMAIN list : list[i].category # "OK"})

\* write_report, in main's finally.
WriteReport ==
  /\ task = "report"
  /\ report' = [probes |-> probes, total |-> Defects(probes)]
  /\ task' = "exit"
  /\ UNCHANGED <<line, place, observed, found, probes, failure, exit, searchVars>>

\* Mutant: a sweep without probes is a clean one.
CodeOfTotal == IF report.total > 0 THEN 1 ELSE 0

\* main's return value, once no exception is on its way.
ReturnCode == IF probes = <<>> \/ report.total > 0 THEN 1 ELSE 0

Leave ==
  /\ task = "exit"
  /\ Stop(IF failure = "none" THEN ReturnCode ELSE ByException)
  /\ UNCHANGED <<line, place, observed, found, probes, failure, report, searchVars>>

Step ==
  \/ RunControls \/ Guards \/ NextMethod \/ PassSet \/ Batch \/ RetryRow
  \/ JudgePanic \/ AskClosed \/ AskRefined \/ AskEnd \/ AskWithin \/ AskFrom \/ Search
  \/ Judge \/ EndMethod \/ Yield \/ EndSweep \/ WriteReport \/ Leave

\* A query that never returns has no step of its own; the run may also be over.
Idle ==
  /\ task = "end" \/ (task = "set" /\ set <= Len(spec.sets) /\ spec.hangs)
  /\ UNCHANGED auditVars

AuditNext == Step \/ Interrupt \/ Idle

AuditSpec == AuditInit /\ [][AuditNext]_auditVars /\ WF_auditVars(Step)

-----------------------------------------------------------------------------
(***************************************************************************)
(* Every verdict of the sweep is fair, whatever the library answered and   *)
(* wherever the oracle's value lies: saturation, signs and zeros are       *)
(* neither excused nor held against a correctly rounded answer (classify). *)
(***************************************************************************)
VerdictsAreFair == task = "verdict" => Fair(seen[point], expected)

\* Where the whole sweep probes, and in which order: by method, parameter set and point.
PlacesOf(i) ==
  {<<i, j, x>> : j \in {k \in DOMAIN Registry[i].sets : Registry[i].sets[k]}, x \in 1 .. PointCount(Registry[i])}

Places == UNION {PlacesOf(i) : i \in Swept}

Before(p, q) ==
  p[1] < q[1] \/ (p[1] = q[1] /\ (p[2] < q[2] \/ (p[2] = q[2] /\ p[3] < q[3])))

made == probes \o found

(***************************************************************************)
(* A raising row costs its own probe and no other: whatever raises, gives  *)
(* up or is interrupted, the probes so far are in the sweep's order, one   *)
(* to a point and no earlier point left out, and one reads PANIC exactly   *)
(* if its own row raises (evaluate, audit_method, audit_registry).         *)
(***************************************************************************)
EachPointOnce ==
  \A i \in DOMAIN made :
    /\ made[i].place \in Places
    /\ \A j \in DOMAIN made : i < j => Before(made[i].place, made[j].place)
    /\ \A p \in Places : Before(p, made[i].place) => \E j \in DOMAIN made : made[j].place = p
    /\ made[i].category = "PANIC" <=> made[i].raised

(***************************************************************************)
(* The gate: exit code 0 means every exported distribution is in the       *)
(* registry, the sweep ran to its end, every point of every method asked   *)
(* for and not skipped was probed and reads OK, and there was at least     *)
(* one.  Exit code 1 after a sweep means a defect, or no probe (main).     *)
(***************************************************************************)
ExitIsHonest ==
  /\ exit = 0 =>
       /\ unaudited_distributions = {} /\ failure = "none" /\ Places # {}
       /\ Places = {probes[i].place : i \in DOMAIN probes}
       /\ \A i \in DOMAIN probes : probes[i].category = "OK"
  /\ exit = 1 /\ report # NoReport =>
       probes = <<>> \/ \E i \in DOMAIN probes : probes[i].category # "OK"

(***************************************************************************)
(* A sweep that skips the methods that hang ends, with a report, whatever  *)
(* the library and the oracles answer (KNOWN_HANGS, main).                 *)
(***************************************************************************)
SweepEnds ==
  (\A i \in Swept : ~ Registry[i].hangs) ~> task = "end"

-----------------------------------------------------------------------------
Probe == [place : Nat \X Nat \X Nat, category : Category, raised : BOOLEAN]

AtMethod == {"set", "retry", "judge", "search", "verdict", "yield"}
AtSet == {"retry", "judge", "search", "verdict"}
Started == {"controls", "guards"}

\* The probes so far are of the points the sweep is past.
Reached == \A p \in Places : Before(p, place) <=> \E i \in DOMAIN made : made[i].place = p

\* A batch's observations are the rows' own, as far as they go.
SeenIsRows ==
  /\ rows \in [1 .. PointCount(spec) -> spec.answers \cup {Panic}]
  /\ seen \in Seq(spec.answers \cup {Panic}) /\ Len(seen) <= PointCount(spec)
  /\ \A x \in 1 .. Len(seen) : seen[x] = rows[x]
  /\ task = "retry" <=> Len(seen) < PointCount(spec)

WhereTheSweepIs ==
  /\ method \in 1 .. Len(Registry) + 1 /\ set \in Nat \ {0} /\ point \in Nat \ {0}
  /\ task = "next" => set = 1 /\ found = <<>>
  /\ task \in {"next", "set", "retry", "yield"} => point = 1
  /\ task \in AtMethod => method \in Swept /\ set <= Len(spec.sets) + 1
  /\ task \in AtSet => set <= Len(spec.sets) /\ spec.sets[set] /\ SeenIsRows
  /\ task \in {"judge", "search", "verdict"} => point <= PointCount(spec)
  /\ task \in {"search", "verdict"} => seen[point] # Panic
  /\ task = "verdict" => expected \in References
  /\ task = "yield" => set = Len(spec.sets) + 1

\* Inductive: the probes are those of the points behind the sweep, and the report is theirs.
AuditIInv ==
  /\ SearchIInv
  /\ task \in Started \cup Sweeping \cup {"report", "exit", "end"}
  /\ probes \in Seq(Probe) /\ found \in Seq(Probe)
  /\ task \in Started => probes = <<>> /\ found = <<>> /\ place = <<1, 1, 1>>
  /\ task \in Started \cup Sweeping => failure = "none"
  /\ task \in Started \cup Sweeping \cup {"report"} => report = NoReport
  /\ task \in Sweeping => ~ Refused /\ WhereTheSweepIs /\ Reached
  /\ task \in {"report", "exit"} /\ failure = "none" =>
       ~ Refused /\ found = <<>> /\ \A p \in Places : \E i \in DOMAIN made : made[i].place = p
  /\ task = "exit" => report = [probes |-> probes, total |-> Defects(probes)]
  /\ task # "end" => exit = Running
  /\ EachPointOnce
  /\ ExitIsHonest

=============================================================================
