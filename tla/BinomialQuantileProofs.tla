---------------------- MODULE BinomialQuantileProofs -----------------------
(***************************************************************************)
(* What holds of every search for a binomial quantile, for every number of *)
(* trials, every cdf, every float format and every size of the evaluation  *)
(* error.  The proofs never look inside a comparison: the bracket holds of *)
(* whatever the cdf was evaluated to.                                      *)
(***************************************************************************)
EXTENDS BinomialQuantile, TLAPS

LEMMA TrialsAreNat ==
  ASSUME NEW f \in Cdfs
  PROVE  Len(f) - 1 \in Nat
<1>1. f \in Seq(0 .. One) /\ f # <<>>
  BY CdfsAssumption
<1> QED BY <1>1

LEMMA OneIsInt == One \in Int
BY FormatAssumption DEF One

\* The middle of a bracket that is not empty is inside it, its upper end excluded.
LEMMA MiddleIsInside ==
  ASSUME NEW a \in Nat, NEW b \in Nat, a < b
  PROVE  /\ a + (b - a) \div 2 \in a .. b - 1
         /\ a + (b - a) \div 2 + 1 \in a .. b
OBVIOUS

LEMMA InitIInv == Init => IInv
<1> SUFFICES ASSUME Init PROVE IInv
  OBVIOUS
<1>1. n \in Nat
  BY TrialsAreNat DEF Init, n
<1> QED BY <1>1 DEF Init, IInv, TypeOK, BracketHolds, PhaseOfSearch

\* Against the same level, the same cdf can be evaluated to the same.
LEMMA SameEvaluations ==
  ASSUME UNCHANGED <<cdf, level>>
  PROVE  /\ n' = n
         /\ \A k : MayReach(k)' = MayReach(k) /\ MayMiss(k)' = MayMiss(k)
BY DEF n, MayReach, MayMiss, Reaches, At, Threshold

LEMMA StartKeeps == IInv /\ Start => IInv'
<1> SUFFICES ASSUME IInv, Start PROVE IInv'
  OBVIOUS
<1>1. n \in Nat /\ n' = n
  BY TrialsAreNat DEF Start, IInv, TypeOK, n
<1>2. lo' = 0 /\ hi' = n /\ cdf' \in Cdfs /\ method' \in {"ppf", "isf"} /\ q' \in Quantiles
  BY DEF Start, IInv, TypeOK, PhaseOfSearch
<1>3. BracketHolds'
  BY <1>1, <1>2 DEF BracketHolds
<1>4. TypeOK' /\ PhaseOfSearch'
  <2>1. answer \in 0 .. n \cup {NULL}
    BY DEF IInv, TypeOK
  <2>6. level' = (IF method = "ppf" THEN q ELSE Minus(One, q))'
    BY DEF Start
  <2>2. CASE ~ InUnit(level') /\ Answer(NULL)
    BY <1>1, <1>2, <2>2, <2>6 DEF TypeOK, PhaseOfSearch, Answer, InUnit
  <2>3. CASE level' = 0 /\ Answer(0)
    BY <1>1, <1>2, <2>3, <2>6 DEF TypeOK, PhaseOfSearch, Answer
  <2>4. CASE level' = One /\ Answer(n)
    BY <1>1, <1>2, <2>4, <2>6 DEF TypeOK, PhaseOfSearch, Answer
  <2>5. CASE level' \in 1 .. One - 1 /\ phase' = "search" /\ answer' = answer
    BY <1>1, <1>2, <2>1, <2>5, <2>6 DEF TypeOK, PhaseOfSearch
  <2> QED BY <2>2, <2>3, <2>4, <2>5 DEF Start
<1> QED BY <1>3, <1>4 DEF IInv

LEMMA SearchKeeps == IInv /\ Search => IInv'
<1> SUFFICES ASSUME IInv, Search PROVE IInv'
  OBVIOUS
<1> DEFINE mid == lo + (hi - lo) \div 2
<1>1. /\ UNCHANGED <<cdf, method, q, phase, level, answer>> /\ phase = "search"
      /\ lo < hi /\ lo \in Nat /\ hi \in Nat /\ hi <= n /\ n \in Nat
  BY TrialsAreNat DEF Search, IInv, TypeOK, BracketHolds, n
<1>2. n' = n /\ \A k : MayReach(k)' = MayReach(k) /\ MayMiss(k)' = MayMiss(k)
  BY <1>1, SameEvaluations
<1>3. mid \in lo .. hi - 1 /\ mid + 1 \in lo .. hi
  BY <1>1, MiddleIsInside
<1>4. \/ MayReach(mid) /\ hi' = mid /\ lo' = lo
      \/ MayMiss(mid) /\ lo' = mid + 1 /\ hi' = hi
  BY DEF Search
<1> HIDE DEF mid
<1>5. CASE MayReach(mid) /\ hi' = mid /\ lo' = lo
  <2>1. BracketHolds'
    BY <1>1, <1>2, <1>3, <1>5 DEF BracketHolds, IInv
  <2> QED BY <1>1, <1>2, <1>5, <2>1 DEF IInv, TypeOK, PhaseOfSearch
<1>6. CASE MayMiss(mid) /\ lo' = mid + 1 /\ hi' = hi
  <2>1. BracketHolds'
    BY <1>1, <1>2, <1>3, <1>6 DEF BracketHolds, IInv
  <2> QED BY <1>1, <1>2, <1>6, <2>1 DEF IInv, TypeOK, PhaseOfSearch
<1> QED BY <1>4, <1>5, <1>6

LEMMA ReturnKeeps == IInv /\ Return => IInv'
<1> SUFFICES ASSUME IInv, Return PROVE IInv'
  OBVIOUS
<1>1. /\ UNCHANGED <<cdf, method, q, level, lo, hi>> /\ phase' = "done" /\ answer' = lo
      /\ level \in 1 .. One - 1
      /\ lo >= hi /\ lo \in 0 .. hi /\ hi \in 0 .. n /\ n \in Nat
  BY TrialsAreNat DEF Return, Answer, IInv, TypeOK, BracketHolds, PhaseOfSearch, n
<1>2. n' = n /\ \A k : MayReach(k)' = MayReach(k) /\ MayMiss(k)' = MayMiss(k)
  BY <1>1, SameEvaluations
<1>3. lo = hi
  BY <1>1
<1>4. BracketHolds'
  BY <1>1, <1>2 DEF IInv, BracketHolds
<1>5. level' = (IF method = "ppf" THEN q ELSE Minus(One, q))'
  <2>1. level = IF method = "ppf" THEN q ELSE Minus(One, q)
    BY DEF Return, IInv, PhaseOfSearch
  <2>2. Minus(One, q)' = Minus(One, q)
    BY <1>1
  <2> QED BY <1>1, <2>1, <2>2
<1> QED BY <1>1, <1>2, <1>3, <1>4, <1>5 DEF IInv, TypeOK, PhaseOfSearch

\* The bracket of the search and what each phase knows hold throughout.
THEOREM InductiveInvariant == Spec => []IInv
<1>1. IInv /\ [Next]_vars => IInv'
  <2> SUFFICES ASSUME IInv, [Next]_vars PROVE IInv'
    OBVIOUS
  <2>1. CASE UNCHANGED vars
    <3>1. UNCHANGED <<cdf, method, q, phase, level, lo, hi, answer>>
      BY <2>1 DEF vars
    <3>2. n' = n /\ \A k : MayReach(k)' = MayReach(k) /\ MayMiss(k)' = MayMiss(k)
      BY <3>1, SameEvaluations
    <3>3. Minus(One, q)' = Minus(One, q)
      BY <3>1
    <3> QED BY <3>1, <3>2, <3>3 DEF IInv, TypeOK, BracketHolds, PhaseOfSearch, InUnit
  <2>2. CASE Next
    BY <2>1, <2>2, StartKeeps, SearchKeeps, ReturnKeeps DEF Next, Finished
  <2> QED BY <2>1, <2>2
<1> QED BY InitIInv, <1>1, PTL DEF Spec

\* Whatever the cdf was evaluated to, the answer is a step as far as its evaluation can tell.
THEOREM AnswersAStep == Spec => []AnswerIsQuantile
<1>1. IInv => AnswerIsQuantile
  <2> SUFFICES ASSUME IInv, phase = "done", level \in 1 .. One - 1
               PROVE  /\ answer \in 0 .. n
                      /\ answer = n \/ MayReach(answer)
                      /\ answer = 0 \/ MayMiss(answer - 1)
    BY DEF AnswerIsQuantile
  <2>1. answer = lo /\ lo = hi
    BY OneIsInt DEF IInv, PhaseOfSearch, InUnit
  <2>2. n \in Nat
    BY TrialsAreNat DEF IInv, TypeOK, n
  <2> QED BY <2>1, <2>2 DEF IInv, BracketHolds
<1> QED BY <1>1, InductiveInvariant, PTL

\* What the tolerance must be at a quantile for noise not to move an answer: wider than two
\* evaluations can part, though no wider than twice itself once its threshold has been rounded
\* (binomial.rs:185-187: a cdf is good to a few ulp, the tolerance is 1e-12).
ToleranceCovers(x) ==
  /\ Threshold(x) \in 0 .. x
  /\ Threshold(x) * (Grain + Noise) <= x * (Grain - Noise)
  /\ x * (One - 2 * Tolerance) <= Threshold(x) * One

\* Every evaluation of a point that once found the quantile reaches its threshold.
LEMMA StepReaches ==
  ASSUME NEW A \in Nat, NEW B \in Nat, A <= B, NEW x \in Nat \ {0}, NEW T \in Nat,
         NEW e \in - Noise .. Noise, A * (Grain + e) = x * Grain,
         T * (Grain + Noise) <= x * (Grain - Noise),
         NEW d \in - Noise .. Noise
  PROVE  B * (Grain + d) >= T * Grain
<1>1. Noise \in Nat /\ Grain \in Nat \ {0}
  BY CdfsAssumption
<1> DEFINE S == Grain + Noise
           D == Grain - Noise
<1>2. S \in Nat \ {0} /\ D \in Int /\ T * S <= x * D
  BY <1>1
<1>3. D >= 0
  <2>1. T * S >= 0
    BY <1>2
  <2>2. \A y \in Nat \ {0}, z \in Int : y * z >= 0 => z >= 0
    OBVIOUS
  <2> HIDE DEF D, S
  <2>3. x * D >= 0
    BY <1>2, <2>1
  <2> QED BY <1>2, <2>2, <2>3
<1>4. x * Grain <= B * S
  <2>1. A * (Grain + e) <= A * S
    <3>1. \A y \in Nat, u, v \in Int : u <= v => y * u <= y * v
      OBVIOUS
    <3>2. Grain + e \in Int /\ S \in Int /\ Grain + e <= S
      BY <1>1
    <3> HIDE DEF S
    <3> QED BY <3>1, <3>2
  <2>2. A * S <= B * S
    <3>1. \A u, v, w \in Nat : u <= v => u * w <= v * w
      OBVIOUS
    <3> HIDE DEF S
    <3> QED BY <1>2, <3>1
  <2>3. A * (Grain + e) \in Int /\ A * S \in Int /\ B * S \in Int
    BY <1>1
  <2> HIDE DEF S
  <2> QED BY <2>1, <2>2, <2>3
<1>5. (T * Grain) * S <= (B * D) * S
  <2> HIDE DEF S, D
  <2>1. (T * S) * Grain <= (x * D) * Grain
    <3>1. \A u, v \in Int, w \in Nat : u <= v => u * w <= v * w
      OBVIOUS
    <3>2. T * S \in Int /\ x * D \in Int
      BY <1>2
    <3> QED BY <1>1, <1>2, <3>1, <3>2
  <2>2. (x * Grain) * D <= (B * S) * D
    <3>1. \A u, v \in Int, w \in Nat : u <= v => u * w <= v * w
      OBVIOUS
    <3>2. x * Grain \in Int /\ B * S \in Int /\ D \in Nat
      BY <1>1, <1>2, <1>3
    <3> QED BY <1>4, <3>1, <3>2
  <2>3. /\ (T * S) * Grain = (T * Grain) * S /\ (x * D) * Grain = (x * Grain) * D
        /\ (B * S) * D = (B * D) * S
        /\ (T * Grain) * S \in Int /\ (x * Grain) * D \in Int /\ (B * D) * S \in Int
    BY <1>1, <1>2
  <2> QED BY <2>1, <2>2, <2>3
<1>6. T * Grain <= B * D
  <2>1. \A u, v \in Int, w \in Nat \ {0} : u * w <= v * w => u <= v
    OBVIOUS
  <2>2. T * Grain \in Int /\ B * D \in Int
    BY <1>1, <1>2
  <2> HIDE DEF S, D
  <2> QED BY <1>2, <1>5, <2>1, <2>2
<1>7. B * D <= B * (Grain + d)
  <2>1. \A y \in Nat, u, v \in Int : u <= v => y * u <= y * v
    OBVIOUS
  <2>2. Grain + d \in Int /\ D <= Grain + d
    BY <1>1
  <2> HIDE DEF D
  <2> QED BY <1>2, <2>1, <2>2
<1>8. T * Grain \in Int /\ B * D \in Int /\ B * (Grain + d) \in Int
  BY <1>1
<1> HIDE DEF D
<1> QED BY <1>6, <1>7, <1>8

\* No evaluation of a point clear of the tolerance reaches the threshold.
LEMMA ClearMisses ==
  ASSUME NEW A \in Nat, NEW B \in Nat, A <= B, NEW x \in Nat, NEW T \in Nat,
         B * (Grain + Noise) * One < x * (One - 2 * Tolerance) * Grain,
         x * (One - 2 * Tolerance) <= T * One,
         NEW d \in - Noise .. Noise
  PROVE  A * (Grain + d) < T * Grain
<1>1. Noise \in Nat /\ Grain \in Nat \ {0} /\ One \in Nat \ {0} /\ Tolerance \in Int
  <2>1. Tolerance \in 0 .. One /\ One \in Int
    BY CdfsAssumption, OneIsInt
  <2> QED BY <2>1, CdfsAssumption
<1> DEFINE X == x * (One - 2 * Tolerance)
           S == Grain + Noise
<1>2. X \in Int /\ S \in Nat /\ (B * S) * One < X * Grain /\ X <= T * One
  BY <1>1
<1> HIDE DEF X, S
<1>3. X * Grain <= (T * Grain) * One
  <2>1. \A u, v \in Int, w \in Nat : u <= v => u * w <= v * w
    OBVIOUS
  <2>2. T * One \in Int /\ (T * One) * Grain = (T * Grain) * One
    BY <1>1
  <2> QED BY <1>1, <1>2, <2>1, <2>2
<1>4. B * S < T * Grain
  <2>1. \A u, v \in Int, w \in Nat \ {0} : u * w < v * w => u < v
    OBVIOUS
  <2>2. /\ B * S \in Int /\ T * Grain \in Int
        /\ (B * S) * One \in Int /\ X * Grain \in Int /\ (T * Grain) * One \in Int
    BY <1>1, <1>2
  <2>3. (B * S) * One < (T * Grain) * One
    BY <1>2, <1>3, <2>2
  <2> QED BY <1>1, <2>1, <2>2, <2>3
<1>5. A * (Grain + d) <= A * S
  <2>1. \A y \in Nat, u, v \in Int : u <= v => y * u <= y * v
    OBVIOUS
  <2>2. Grain + d \in Int /\ Grain + d <= S
    BY <1>1 DEF S
  <2> QED BY <1>2, <2>1, <2>2
<1>6. A * S <= B * S
  <2>1. \A u, v, w \in Nat : u <= v => u * w <= v * w
    OBVIOUS
  <2> QED BY <1>2, <2>1
<1>7. A * (Grain + d) \in Int /\ A * S \in Int /\ B * S \in Int /\ T * Grain \in Int
  BY <1>1, <1>2
<1> QED BY <1>4, <1>5, <1>6, <1>7

\* A cdf value inverts to its own step, whatever its last bit and every evaluation of the search
\* rounded to, at each quantile where the tolerance covers the noise.
THEOREM StepsRoundTrip == Spec => [](ToleranceCovers(q) => RoundTrips)
<1>1. IInv /\ ToleranceCovers(q) => RoundTrips
  <2> SUFFICES ASSUME IInv, ToleranceCovers(q), phase = "done", method = "ppf", level \in 1 .. One - 1,
                      NEW k \in 0 .. n,
                      \E e \in - Noise .. Noise : At(k) * (Grain + e) = q * Grain,
                      k = 0 \/ At(k - 1) * (Grain + Noise) * One < q * (One - 2 * Tolerance) * Grain
               PROVE  answer = k
    BY DEF RoundTrips
  <2>1. level = q /\ q \in Nat \ {0} /\ answer = lo /\ lo = hi
    BY OneIsInt DEF IInv, PhaseOfSearch, InUnit
  <2>2. n \in Nat /\ answer \in 0 .. n
    BY TrialsAreNat, <2>1 DEF IInv, TypeOK, BracketHolds, n
  <2>3. /\ answer < n => MayReach(answer)
        /\ answer > 0 => MayMiss(answer - 1)
    BY <2>1 DEF IInv, BracketHolds
  <2>4. /\ \A i \in 0 .. n : At(i) \in Nat
        /\ \A i, j \in 0 .. n : i <= j => At(i) <= At(j)
    <3>1. /\ cdf \in Seq(0 .. One)
          /\ \A i, j \in DOMAIN cdf : i <= j => cdf[i] <= cdf[j]
      BY CdfsAssumption DEF IInv, TypeOK
    <3>2. \A i \in 0 .. n : i + 1 \in DOMAIN cdf
      BY <2>2, <3>1 DEF n
    <3> QED BY <2>2, <3>1, <3>2, OneIsInt DEF At
  <2>5. Threshold(q) \in Nat
    BY <2>1 DEF ToleranceCovers
  <2>6. ~ answer > k
    <3> SUFFICES ASSUME answer > k PROVE FALSE
      OBVIOUS
    <3>1. PICK d \in - Noise .. Noise : ~ At(answer - 1) * (Grain + d) >= Threshold(q) * Grain
      BY <2>1, <2>2, <2>3 DEF MayMiss, Reaches
    <3>2. PICK e \in - Noise .. Noise : At(k) * (Grain + e) = q * Grain
      OBVIOUS
    <3>3. answer - 1 \in 0 .. n /\ At(k) \in Nat /\ At(answer - 1) \in Nat /\ At(k) <= At(answer - 1)
      BY <2>2, <2>4
    <3> QED BY <2>1, <2>5, <3>1, <3>2, <3>3, StepReaches DEF ToleranceCovers
  <2>7. ~ answer < k
    <3> SUFFICES ASSUME answer < k PROVE FALSE
      OBVIOUS
    <3>1. PICK d \in - Noise .. Noise : At(answer) * (Grain + d) >= Threshold(q) * Grain
      BY <2>1, <2>2, <2>3 DEF MayReach, Reaches
    <3>2. k - 1 \in 0 .. n /\ At(answer) \in Nat /\ At(k - 1) \in Nat /\ At(answer) <= At(k - 1)
      BY <2>2, <2>4
    <3>3. At(k - 1) * (Grain + Noise) * One < q * (One - 2 * Tolerance) * Grain
      BY <2>2
    <3>4. At(answer) * (Grain + d) < Threshold(q) * Grain
      BY <2>1, <2>5, <3>2, <3>3, ClearMisses DEF ToleranceCovers
    <3>5. At(answer) * (Grain + d) \in Int /\ Threshold(q) * Grain \in Int
      BY <2>5, <3>2, CdfsAssumption
    <3> QED BY <3>1, <3>4, <3>5
  <2> QED BY <2>2, <2>6, <2>7
<1> QED BY <1>1, InductiveInvariant, PTL
=============================================================================
