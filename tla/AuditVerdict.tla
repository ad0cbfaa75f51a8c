---------------------------- MODULE AuditVerdict ----------------------------
(***************************************************************************)
(* classify (tools/accuracy/audit.py): the verdict on one library answer   *)
(* against the oracle's value.  Values are integers in units of a quarter  *)
(* of the smallest subnormal, which is the floats' only spacing here; the  *)
(* oracle's may fall between two floats, or beyond the largest one.        *)
(***************************************************************************)
EXTENDS Integers

CONSTANTS
  Null, NotANumber, PosInf, NegInf,
  Largest,         \* LARGEST_FINITE
  SmallestNormal,  \* SMALLEST_NORMAL
  Tolerance,       \* the method's relative tolerance is 1 / Tolerance
  One              \* the number 1, the scale of a zero oracle

Spacing == 4       \* SMALLEST_SUBNORMAL
SubnormalUlps == 2

Answers == Int \cup {Null, NotANumber, PosInf, NegInf}    \* of the library
References == Int \cup {NotANumber, PosInf, NegInf}       \* of an oracle

Category == {"OK", "UNDERFLOW", "DEGRADED", "SIGN", "NAN", "PANIC", "ORACLE_UNAVAILABLE"}

ASSUME VerdictAssumption ==
  /\ SmallestNormal \in Nat \ {0} /\ Largest \in Nat /\ SmallestNormal < Largest
  /\ SmallestNormal % Spacing = 0 /\ Largest % Spacing = 0
  /\ Tolerance \in Nat \ {0} /\ One \in Nat
  /\ \A x \in {Null, NotANumber, PosInf, NegInf} : x \notin Int
  /\ NotANumber \notin {Null, PosInf, NegInf} /\ PosInf \notin {Null, NegInf} /\ Null # NegInf
  /\ 2 * SmallestNormal >= Tolerance * Spacing    \* rounding a normal stays within tolerance

abs(x) == IF x < 0 THEN -x ELSE x

IsInfinite(x) == x \in {PosInf, NegInf}

\* The oracle's value has no finite float on that side.
Above(expected) == expected = PosInf \/ (~ IsInfinite(expected) /\ expected > Largest)
Below(expected) == expected = NegInf \/ (~ IsInfinite(expected) /\ expected < -Largest)

Verdict(category) == [category |-> category, excused |-> FALSE]

\* An OK earned by an absolute comparison, or a defect.
Absolute(within) == [category |-> IF within THEN "OK" ELSE "DEGRADED", excused |-> within]

OkIf(right, otherwise) == Verdict(IF right THEN "OK" ELSE otherwise)

\* Two finite numbers, neither of them zero.
Compare(value, expected) ==
  LET off == abs(value - expected) IN
  IF (value > 0) # (expected > 0) THEN Verdict("SIGN")
  ELSE IF Tolerance * off <= abs(expected) THEN Verdict("OK")
  ELSE IF abs(expected) < SmallestNormal THEN Absolute(off <= SubnormalUlps * Spacing)
  ELSE Verdict("DEGRADED")

\* Mutant: a zero is compared like any other number.
ClassifyZeroLate(value, expected) ==
  IF expected = NotANumber THEN OkIf(value = Null, "DEGRADED")
  ELSE IF value \in {Null, NotANumber} THEN Verdict("NAN")
  ELSE IF value = PosInf THEN OkIf(Above(expected), "DEGRADED")
  ELSE IF value = NegInf THEN OkIf(Below(expected), "UNDERFLOW")
  ELSE IF IsInfinite(expected) THEN Verdict("DEGRADED")
  ELSE IF expected = 0 THEN Absolute(Tolerance * abs(value) <= One)
  ELSE Compare(value, expected)

\* The order of the tests is the point: saturation before inaccuracy.
classify(value, expected) ==
  IF expected = NotANumber THEN OkIf(value = Null, "DEGRADED")
  ELSE IF value \in {Null, NotANumber} THEN Verdict("NAN")
  ELSE IF value = PosInf THEN OkIf(Above(expected), "DEGRADED")
  ELSE IF value = NegInf THEN OkIf(Below(expected), "UNDERFLOW")
  ELSE IF IsInfinite(expected) THEN Verdict("DEGRADED")
  ELSE IF value = 0 THEN OkIf(abs(expected) < Spacing, "UNDERFLOW")
  ELSE IF expected = 0 THEN Absolute(Tolerance * abs(value) <= One)
  ELSE Compare(value, expected)

-----------------------------------------------------------------------------
\* A float nearest to the true value, which may overflow.
CorrectlyRounded(value, expected) ==
  IF expected = NotANumber THEN value = Null
  ELSE \/ value = PosInf /\ (IF IsInfinite(expected) THEN expected = PosInf ELSE expected >= Largest + Spacing \div 2)
       \/ value = NegInf /\ (IF IsInfinite(expected) THEN expected = NegInf ELSE expected <= -(Largest + Spacing \div 2))
       \/ /\ value \notin {Null, NotANumber, PosInf, NegInf} /\ ~ IsInfinite(expected)
          /\ value % Spacing = 0 /\ abs(value) <= Largest
          /\ abs(value - expected) <= Spacing \div 2

\* No reader would call this answer wrong.
Acceptable(value, expected) ==
  \/ expected = NotANumber /\ value = Null
  \/ value = PosInf /\ Above(expected)
  \/ value = NegInf /\ Below(expected)
  \/ /\ value \notin {Null, NotANumber, PosInf, NegInf} /\ expected # NotANumber /\ ~ IsInfinite(expected)
     /\ \/ Tolerance * abs(value - expected) <= abs(expected)
        \/ abs(expected) < SmallestNormal /\ abs(value - expected) <= SubnormalUlps * Spacing
        \/ expected = 0 /\ Tolerance * abs(value) <= One
     /\ value * expected >= 0
     /\ value = 0 => abs(expected) < Spacing

(***************************************************************************)
(* A verdict can be trusted either way: a correctly rounded answer is      *)
(* always OK, and an OK is never given to a saturated, sign-flipped or     *)
(* otherwise unacceptable one.  An excused OK is one the relative test had *)
(* refused (classify).                                                     *)
(***************************************************************************)
Fair(value, expected) ==
  LET verdict == classify(value, expected) IN
  /\ CorrectlyRounded(value, expected) => verdict.category = "OK"
  /\ verdict.category = "OK" => Acceptable(value, expected)
  /\ verdict.excused =>
       verdict.category = "OK" /\ Tolerance * abs(value - expected) > abs(expected)

=============================================================================
