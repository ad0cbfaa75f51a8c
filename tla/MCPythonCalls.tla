--------------------------- MODULE MCPythonCalls ----------------------------
(***************************************************************************)
(* Small instances of PythonCalls: every class under every spelling of its *)
(* parameters for the moments, and draws of Uniform over frames of up to 2 *)
(* rows with parameters of every length up to 3.                           *)
(***************************************************************************)
EXTENDS PythonCalls

MCParams == {"min", "max"}
MCValues == Number \cup {NaN}
MCAccepted == UniformDomain.own
MCTuples == [MCParams -> MCValues]
MCJoint == MCTuples \ UniformDomain.refused

Columns(n, cells) == [1 .. n -> cells]

Mistyped == {Object("bool", <<1>>), Object("other", <<1>>)}

\* Moments: scalars of every type, literals, and columns of up to 2 rows.
ScalarObjects(spelled) ==
  IF spelled = "float" THEN {Object("float", <<x>>) : x \in {0, 1, NaN}} \cup {Object("int", <<1>>)}
  ELSE {Object("int", <<x>>) : x \in {-MaxWireInt - 2, -1, 1, MaxWireInt, MaxWireInt + 1}}
       \cup {Object("float", <<1>>)}

ColumnObjects(spelled) ==
  LET bad == IF spelled = "float" THEN NaN ELSE MaxWireInt + 1
      pairs == {<<1, 3>>, <<1, NULL>>, <<NULL, 1>>, <<bad, 1>>, <<1, -1>>} IN
  {Object("expr", <<x>>) : x \in {0, 1, 2, bad, NULL}}
  \cup {Object("bare", column) : column \in pairs \cup {<<>>}}
  \cup {[Object("bare", <<1, 1>>) EXCEPT !.numeric = FALSE]}

ObjectsOf(spelled) == Mistyped \cup ScalarObjects(spelled) \cup ColumnObjects(spelled)

MomentDistros ==
  UNION {{[class |-> c, args |-> a] :
            a \in {f \in [DOMAIN Classes[c].spelled ->
                            UNION {ObjectsOf(Classes[c].spelled[p]) : p \in DOMAIN Classes[c].spelled}] :
                     \A p \in DOMAIN f : f[p] \in ObjectsOf(Classes[c].spelled[p])}}
         : c \in DOMAIN Classes}

\* Draws: every mix of cells and lengths, bare or not.
DrawObjects(x) ==
  {Object(kind, column) : kind \in {"bare", "expr"},
     column \in UNION {Columns(n, {x, NaN, NULL}) : n \in 0 .. 2} \cup {<<1, 1>>}}
  \cup {Object("series", column) : column \in Columns(3, {x}) \cup Columns(3, {NULL})}
  \cup {Object("float", <<y>>) : y \in {x, 1, NaN}}
  \cup {[Object("bare", <<x, x>>) EXCEPT !.numeric = FALSE]}

DrawDistros ==
  {[class |-> "Uniform", args |-> a] :
     a \in {f \in [MCParams -> DrawObjects(0) \cup DrawObjects(2)] :
              f["min"] \in DrawObjects(0) /\ f["max"] \in DrawObjects(2)}}

MCDistros == MomentDistros \cup DrawDistros

MCSizes == {Object("bool", <<1>>)} \cup {Object("int", <<n>>) : n \in {0, 1, 2, MaxWireInt + 1}}
MCSeeds == {Object("none", <<>>), Object("float", <<1>>)}
           \cup {Object("int", <<n>>) : n \in {-1, MaxWireInt, MaxWireInt + 1}}
MCPoints == Mistyped \cup {Object("int", <<1>>), Object("float", <<NaN>>), Object("expr", <<NULL>>),
                           Object("bare", <<NULL, 1>>)}

=============================================================================
