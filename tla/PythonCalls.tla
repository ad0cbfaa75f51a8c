---------------------------- MODULE PythonCalls -----------------------------
(***************************************************************************)
(* The Python side of a call (src/polars_stats/distributions/_base.py):    *)
(* build a distribution from Python objects, ask it for draws, a moment or *)
(* a value-keyed method, and collect the expression over a frame.  Draws   *)
(* go on as a SampledFrame; the others are elementwise over their inputs.  *)
(***************************************************************************)
EXTENDS SampledFrame, Distributions, PluginDomains

CONSTANTS
  Distros,     \* the constructor calls under study
  DrawClass,   \* the class draws are asked of: its parameters are Params
  Sizes, Seeds, Points,   \* the objects passed as size, seed and evaluation point
  MaxHeight,   \* the rows of the tallest frame, a bound of the instance
  NoDistro, Half, Infinite, NaN

(***************************************************************************)
(* A Python object: what it is, the column it stands for, and whether that *)
(* column has a dtype the plugin takes.  A "bare" one is a pl.col.         *)
(***************************************************************************)
Object(kind, cells) == [kind |-> kind, cells |-> cells, numeric |-> TRUE]

IsColumn(x) == x.kind \in {"bare", "expr", "series"}
IsNumber(x) == x.kind \in {"int", "float"}
Scalar(x) == x.cells[1]

IsObject(x) ==
  /\ x.numeric \in BOOLEAN /\ x.cells \in Seq(Int \cup {NaN, NULL})
  /\ IsNumber(x) => Len(x.cells) = 1 /\ Scalar(x) # NULL
  /\ x.kind = "int" => Scalar(x) \in Int

(***************************************************************************)
(* A constructor is called with an object for each of its parameters.  The *)
(* cells of the class draws are asked of are the values the Rust drivers   *)
(* are modelled over, and any seed the wire has room for is a root.        *)
(***************************************************************************)
ASSUME ObjectsAssumption ==
  /\ MaxHeight \in Nat
  /\ \A d \in Distros :
       /\ d.class \in DOMAIN Classes /\ DOMAIN d.args = DOMAIN Classes[d.class].spelled
       /\ \A p \in DOMAIN d.args : IsObject(d.args[p])
       /\ d.class = DrawClass =>
            /\ DOMAIN d.args = Params
            /\ \A p \in Params : d.args[p].cells \in Seq(Values \cup {NULL})
  /\ \A x \in Sizes \cup Seeds \cup Points : IsObject(x)
  /\ \A x \in Seeds : x.kind = "int" /\ Scalar(x) \in 0 .. MaxWireInt => Scalar(x) \in Roots

\* What stands for an absent cell is no answer computed from present ones.
ASSUME AnswersAssumption ==
  /\ NULL \notin {NaN, Half, Infinite}
  /\ \A class \in DOMAIN Classes : \A reads \in SUBSET DOMAIN Classes[class].spelled :
       NULL \notin [reads -> Int \cup {NaN}]

VARIABLES
  distro,    \* the constructor call: its class and the object of each parameter
  stage,     \* what the program last did, or the error it raised
  asked,     \* the moment or value method, and its evaluation point
  answer     \* per row, what the answer was computed from

pythonVars == <<distro, stage, asked, answer>>

-----------------------------------------------------------------------------
\* Mutant: an int of any size passes.
CoercedUnranged(spelled, x) ==
  IF IsColumn(x) \/ x.kind = (IF spelled = "float" THEN "float" ELSE "int") THEN "ok" ELSE "TypeError"

(***************************************************************************)
(* _coerce, coerce_param, coerce_n, coerce_int: columns pass, a scalar of  *)
(* the parameter's own type does, and an int outside the wire is refused.  *)
(***************************************************************************)
CoerceError(spelled, x) ==
  IF IsColumn(x) THEN "ok"
  ELSE
  CASE spelled = "float" -> IF x.kind = "float" THEN "ok" ELSE "TypeError"
    [] spelled = "count" /\ x.kind = "int" -> IF Scalar(x) \in 0 .. MaxWireInt THEN "ok" ELSE "ValueError"
    [] spelled = "int" /\ x.kind = "int" -> IF Scalar(x) \in WireInt THEN "ok" ELSE "ValueError"
    [] OTHER -> "TypeError"

\* The first argument refused, in the order the constructor coerces them.
FirstError(d) ==
  LET params == Classes[d.class].params
      errors == [i \in DOMAIN params |-> CoerceError(Classes[d.class].spelled[params[i]], d.args[params[i]])]
      refused == {i \in DOMAIN params : errors[i] # "ok"} IN
  IF refused = {} THEN "built" ELSE errors[Min(refused)]

\* _checked_size, then _checked_seed.
SizeError(x) ==
  IF x.kind # "int" THEN "TypeError" ELSE IF Scalar(x) <= 0 THEN "ValueError" ELSE "ok"

SeedError(x) ==
  CASE x.kind = "none" -> "ok"
    [] x.kind = "int" -> IF Scalar(x) \in 0 .. MaxWireInt THEN "ok" ELSE "ValueError"
    [] OTHER -> "TypeError"

DrawError(size, seed) == IF SizeError(size) # "ok" THEN SizeError(size) ELSE SeedError(seed)

\* scalar_kwargs: every parameter is a scalar.
AllScalars(d) == \A p \in DOMAIN d.args : IsNumber(d.args[p])

Route(d) == IF AllScalars(d) THEN "scalar" ELSE "columns"

-----------------------------------------------------------------------------
\* The heights of a frame the object can be read from: a pl.col fixes it.
Heights(d) ==
  {h \in 0 .. MaxHeight : \A p \in DOMAIN d.args : d.args[p].kind = "bare" => Len(d.args[p].cells) = h}

\* _draw.
DrawFrame(d, kind, size, seed, height) ==
  [kind |-> kind, route |-> Route(d), height |-> height, size |-> size,
   cols |-> [p \in Params |-> d.args[p].cells],
   bare |-> [p \in Params |-> d.args[p].kind = "bare"],
   numeric |-> [p \in Params |-> d.args[p].numeric],
   seed |-> IF seed.kind = "none" THEN NoSeed ELSE Scalar(seed)]

\* The rows of an elementwise expression over inputs of these lengths.
LengthsOf(d, point) == {Len(d.args[p].cells) : p \in DOMAIN d.args} \cup {Len(point.cells)}

Fits(d, point) == \A m, n \in LengthsOf(d, point) \ {1} : m = n

RowsOf(d, point) ==
  IF LengthsOf(d, point) = {1} THEN 1 ELSE CHOOSE n \in LengthsOf(d, point) \ {1} : TRUE

CellsAt(d, r) == [p \in DOMAIN d.args |-> At(d.args[p].cells, r)]

\* A plugin takes its inputs by position, whatever the class calls them.
WireCells(d, r) ==
  LET reads == Domains[d.class].reads
      sent == Classes[d.class].params IN
  [p \in DOMAIN d.args |->
     LET i == CHOOSE i \in DOMAIN reads : reads[i] = p IN At(d.args[sent[i]].cells, r)]

\* The parameters as they reach a plugin: by name in the kwargs of a scalar twin.
PluginCells(d, r) == IF AllScalars(d) THEN CellsAt(d, r) ELSE WireCells(d, r)

Complete(cells) == \A p \in DOMAIN cells : cells[p] # NULL

\* The plugin's rules, over the cells one row sends it.
RowValid(d, cells) ==
  LET domain == Domains[d.class] IN
  /\ \A p \in DOMAIN cells : cells[p] # NULL => cells[p] \in domain.own[p]
  /\ Complete(cells) => cells \notin domain.refused

\* Constants are checked before any row is read: at the end of a 0-row frame too.
RowsChecked(d, rows) == IF \A p \in DOMAIN d.args : Len(d.args[p].cells) = 1 THEN {1} ELSE rows

\* A plugin raises over these rows' parameters.
PluginRaises(d, rows) ==
  \/ \E p \in DOMAIN d.args : ~ d.args[p].numeric
  \/ \E cells \in rows : ~ RowValid(d, cells)

-----------------------------------------------------------------------------
\* Polars arithmetic: a formula is null where a parameter it reads is.
Reading(reads, cells) ==
  IF \A p \in reads : cells[p] # NULL THEN [p \in reads |-> cells[p]] ELSE NULL

\* The validating plugin's column is present.
Passes(d, r) == Complete(WireCells(d, r))

\* Mutant: the formula stands on its own.
Ungated(d, r, value) == value

\* _moment: when(validated.is_not_null()).then(value).
_moment(d, r, value) == IF Passes(d, r) THEN value ELSE NULL

\* _validated: the plugin's own output, or the quantity recomputed behind the gate.
Quantity(d, r) ==
  LET reads == Classes[d.class].quantity IN
  IF AllScalars(d) THEN _moment(d, r, Reading(reads, CellsAt(d, r)))
  ELSE IF Passes(d, r) THEN Reading(reads, WireCells(d, r)) ELSE NULL

Joined(one, other) ==
  IF one = NULL \/ other = NULL THEN NULL ELSE Override(one, other)

\* A value-keyed plugin at one point: a null outranks NaN, and NaN outranks the body.
ValueAt(d, r, point) ==
  CASE point = NULL \/ ~ Complete(PluginCells(d, r)) -> NULL
    [] point = NaN /\ Complete(PluginCells(d, r)) -> NaN
    [] OTHER -> PluginCells(d, r)

\* What a moment of form f answers on row r.
FormAt(d, r, f) ==
  CASE f.form = "gated" -> _moment(d, r, Reading(f.reads, CellsAt(d, r)))
    [] f.form = "validated" -> Joined(Quantity(d, r), Reading(f.reads, CellsAt(d, r)))
    [] f.form = "plugin" -> IF Passes(d, r) THEN WireCells(d, r) ELSE NULL
    [] f.form = "half" -> ValueAt(d, r, Half)
    [] f.form = "undefined" -> _moment(d, r, NULL)
    [] f.form = "diverging" ->
         LET on == CellsAt(d, r)[f.on] IN
         _moment(d, r, IF on # NULL /\ on > f.at THEN Reading(f.reads, CellsAt(d, r)) ELSE Infinite)

\* Inherited std and Gamma's variance are arithmetic on another moment.
FormOf(class, moment) ==
  LET f == Classes[class].moments[moment] IN
  IF f.form = "of" THEN Classes[class].moments[f.moment] ELSE f

AnswerAt(d, query, r) ==
  IF query.method \in Moments THEN FormAt(d, r, FormOf(d.class, query.method))
  ELSE ValueAt(d, r, At(query.point.cells, r))

\* Value-keyed and median calls read the kwargs of a scalar twin, other moments literals by position.
QueryRaises(d, query, rows) ==
  PluginRaises(d,
    {IF query.method \notin Moments \/ FormOf(d.class, query.method).form = "half"
     THEN PluginCells(d, r) ELSE WireCells(d, r) : r \in RowsChecked(d, rows)})

-----------------------------------------------------------------------------
PythonInit ==
  /\ FrameInit
  /\ distro = NoDistro
  /\ stage = "start"
  /\ asked = [method |-> "none"]
  /\ answer = <<>>

Construct(d) ==
  /\ stage = "start"
  /\ distro' = d
  /\ stage' = FirstError(d)
  /\ UNCHANGED <<asked, answer, frameVars>>

\* sample and samples refuse their own arguments before any expression exists.
RefuseDraws(size, seed) ==
  /\ stage = "built"
  /\ DrawError(size, seed) # "ok"
  /\ stage' = IF DrawError(size, seed) = "TypeError" THEN "call TypeError" ELSE "call ValueError"
  /\ asked' = [method |-> "samples", size |-> size, seed |-> seed]
  /\ UNCHANGED <<distro, answer, frameVars>>

AskDraws(kind, size, seed) ==
  /\ stage = "built" /\ distro.class = DrawClass
  /\ DrawError(size, seed) = "ok"
  /\ kind = "sample" => Scalar(size) = 1
  /\ asked' = [method |-> kind, size |-> size, seed |-> seed]
  /\ IF Scalar(size) > MaxWireInt
     THEN stage' = "undeliverable" /\ UNCHANGED frameVars
     ELSE /\ stage' = "drawing"
          /\ \E h \in Heights(distro) : Submit(DrawFrame(distro, kind, Scalar(size), seed, h))
  /\ UNCHANGED <<distro, answer>>

AskMoment(method) ==
  /\ stage = "built"
  /\ asked' = [method |-> method, point |-> Object("expr", <<Half>>)]
  /\ stage' = "asked"
  /\ UNCHANGED <<distro, answer, frameVars>>

\* as_expr accepts any number or column.
AskValue(point) ==
  /\ stage = "built"
  /\ asked' = [method |-> "cdf", point |-> point]
  /\ stage' = IF IsNumber(point) \/ IsColumn(point) THEN "asked" ELSE "call TypeError"
  /\ UNCHANGED <<distro, answer, frameVars>>

\* The engine evaluates the expression whole, or morsel by morsel.
Evaluate(cut) ==
  /\ stage = "asked"
  /\ IF ~ Fits(distro, asked.point)
        \/ \E m \in cut : QueryRaises(distro, asked, m.from .. m.to)
     THEN stage' = "raised" /\ UNCHANGED answer
     ELSE /\ stage' = "answered"
          /\ answer' = [r \in 1 .. RowsOf(distro, asked.point) |-> AnswerAt(distro, asked, r)]
  /\ UNCHANGED <<distro, asked, frameVars>>

EvaluateQuery ==
  /\ stage = "asked"
  /\ LET rows == RowsOf(distro, asked.point) IN
     \E cut \in {Whole(rows)} \cup (IF rows > 0 THEN Cuts(rows) ELSE {}) : Evaluate(cut)

DrawStep == stage = "drawing" /\ Proceed /\ UNCHANGED pythonVars

Over == stage \notin {"start", "built", "asked", "drawing"} \/ status \in {"raised", "done"}

PythonNext ==
  \/ \E d \in Distros : Construct(d)
  \/ \E size \in Sizes, seed \in Seeds :
       \/ RefuseDraws(size, seed)
       \/ \E kind \in {"sample", "samples"} : AskDraws(kind, size, seed)
  \/ \E method \in Moments : AskMoment(method)
  \/ \E point \in Points : AskValue(point)
  \/ EvaluateQuery
  \/ DrawStep
  \/ Over /\ UNCHANGED <<frameVars, pythonVars>>

PythonSpec == PythonInit /\ [][PythonNext]_<<frameVars, pythonVars>>

-----------------------------------------------------------------------------
\* The same parameters spelled as length-1 expressions.
AsLiterals(d) ==
  [class |-> d.class, args |-> [p \in DOMAIN d.args |-> Object("expr", d.args[p].cells)]]

Missing(d, query, r) ==
  \/ ~ Complete(CellsAt(d, r))
  \/ At(query.point.cells, r) = NULL
  \/ query.method \in Moments /\ FormOf(d.class, query.method).form = "undefined"

(***************************************************************************)
(* A moment or value-keyed method follows the parameters of its own row,   *)
(* whichever of them its formula reads and in whatever form, order or      *)
(* route they reached the plugin.  A row is null exactly where one of them *)
(* is, or where the moment is undefined, and no invalid row was read.  An  *)
(* error means some input really is invalid.  Scalars and the same values  *)
(* as literal expressions agree (_moment, _validated, _param_plugin).      *)
(***************************************************************************)
MomentsFollowTheirParameters ==
  /\ stage = "answered" =>
       \A r \in DOMAIN answer :
         /\ RowValid(distro, CellsAt(distro, r))
         /\ answer[r] = NULL <=> Missing(distro, asked, r)
         /\ answer[r] \notin {NULL, NaN, Infinite} =>
              \A p \in DOMAIN answer[r] : answer[r][p] = CellsAt(distro, r)[p]
         /\ AllScalars(distro) => answer[r] = AnswerAt(AsLiterals(distro), asked, r)
  /\ stage = "raised" =>
       \/ ~ Fits(distro, asked.point)
       \/ LET rows == RowsChecked(distro, 1 .. RowsOf(distro, asked.point)) IN
          PluginRaises(distro, {CellsAt(distro, r) : r \in rows})

(***************************************************************************)
(* Whatever reaches a plugin in its kwargs fits the 64-bit wire, unsigned  *)
(* where Rust reads a u64, and what is refused up front could not have     *)
(* been sent: a Python scalar of the wrong type, or an integer the wire    *)
(* has no room for.  A column is never refused (coerce_n, coerce_int,      *)
(* _checked_seed, _checked_size; a size past the wire fails its query).    *)
(***************************************************************************)
Signed(d) == {Scalar(d.args[p]) : p \in {q \in DOMAIN d.args : d.args[q].kind = "int"}}

Counts(d) ==
  {Scalar(d.args[p]) : p \in {q \in DOMAIN d.args :
                                d.args[q].kind = "int" /\ Classes[d.class].spelled[q] = "count"}}

OnlyTheWireable ==
  /\ stage \in {"asked", "answered", "raised", "drawing"} /\ AllScalars(distro) =>
       Signed(distro) \subseteq WireInt /\ Counts(distro) \subseteq Nat
  /\ stage = "drawing" /\ frame # NoFrame =>
       frame.size \in 1 .. MaxWireInt /\ frame.seed \in (0 .. MaxWireInt) \cup {NoSeed}
  /\ stage = "ValueError" => ~ (Signed(distro) \subseteq WireInt /\ Counts(distro) \subseteq Nat)
  /\ stage = "TypeError" =>
       \E p \in DOMAIN distro.args :
         LET x == distro.args[p] IN
         ~ IsColumn(x) /\ x.kind # (IF Classes[distro.class].spelled[p] = "float" THEN "float" ELSE "int")
  /\ stage = "call ValueError" =>
       \/ asked.size.kind = "int" /\ Scalar(asked.size) < 1
       \/ asked.seed.kind = "int" /\ Scalar(asked.seed) \notin 0 .. MaxWireInt

-----------------------------------------------------------------------------
Stages ==
  {"start", "built", "TypeError", "ValueError", "call TypeError", "call ValueError",
   "undeliverable", "drawing", "asked", "answered", "raised"}

\* Inductive: which coercions lie behind a stage, and what a draw's frame was made of.
PythonIInv ==
  /\ FrameIInv
  /\ stage \in Stages
  /\ stage # "start" => distro \in Distros
  /\ stage \in {"built", "asked", "answered", "raised", "drawing"} => FirstError(distro) = "built"
  /\ stage \in {"TypeError", "ValueError"} => FirstError(distro) = stage
  /\ stage = "asked" =>
       \/ asked.method \in Moments /\ asked.point = Object("expr", <<Half>>)
       \/ asked.method \notin Moments /\ asked.point \in Points
  /\ stage = "drawing" => frame.size \in 1 .. MaxWireInt /\ frame.seed \in (0 .. MaxWireInt) \cup {NoSeed}
  /\ MomentsFollowTheirParameters
  /\ OnlyTheWireable

=============================================================================
