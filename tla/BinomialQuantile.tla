-------------------------- MODULE BinomialQuantile -------------------------
(***************************************************************************)
(* Binomial's inverses: ppf as a binary search for the first step of the   *)
(* cdf that reaches the quantile, and isf as the ppf of the complement,    *)
(* which is formed in floats before the search sees it.                    *)
(*                                                                         *)
(* Probabilities are the floats of TinyFloat's format, One making 1.  A    *)
(* cdf evaluated at k is the step there times 1 + e / Grain for an error e *)
(* of its own, at most Noise either way, fresh at every evaluation.        *)
(***************************************************************************)
EXTENDS TinyFloat, Sequences

CONSTANTS Cdfs,        \* the distributions: f[k + 1] is P(X <= k), k in 0 .. n
          Quantiles,   \* the quantiles asked for, in the unit interval and out of it
          Tolerance,   \* PPF_CDF_TOL
          Noise, Grain,
          NULL

ASSUME CdfsAssumption ==
  /\ Noise \in Nat /\ Grain \in Nat \ {0} /\ Quantiles \subseteq Int
  /\ Tolerance \in 0 .. One /\ NULL \notin Nat
  /\ \A f \in Cdfs : /\ f \in Seq(0 .. One) /\ f # <<>> /\ f[Len(f)] = One
                     /\ \A i, j \in DOMAIN f : i <= j => f[i] <= f[j]

VARIABLES cdf,      \* the distribution
          method,   \* "ppf" or "isf"
          q,        \* the quantile asked for
          phase,
          level,    \* the quantile ppf_value sees
          lo, hi,
          answer

vars == <<cdf, method, q, phase, level, lo, hi, answer>>

n == Len(cdf) - 1
At(k) == cdf[k + 1]

InUnit(x) == 0 <= x /\ x <= One

\* Mutant: an absolute slack, larger than the small quantiles.
ThresholdAbsolute(x) == Minus(x, Tolerance)

\* inverse_cdf: the threshold, relative to the quantile.
Threshold(x) == Times(x, One - Tolerance)

\* What an evaluation of the cdf at k may find: that it has reached the level, or not.
Reaches(k, error) == At(k) * (Grain + error) >= Threshold(level) * Grain
MayReach(k) == \E e \in - Noise .. Noise : Reaches(k, e)
MayMiss(k) == \E e \in - Noise .. Noise : ~ Reaches(k, e)

Init ==
  /\ cdf \in Cdfs /\ method \in {"ppf", "isf"} /\ q \in Quantiles
  /\ phase = "start" /\ level = 0 /\ lo = 0 /\ hi = n /\ answer = NULL

Answer(a) == phase' = "done" /\ answer' = a

\* Mutant: the upper end is searched for like any other level.
StartUnmapped ==
  /\ phase = "start"
  /\ level' = IF method = "ppf" THEN q ELSE Minus(One, q)
  /\ \/ ~ InUnit(level') /\ Answer(NULL)
     \/ level' = 0 /\ Answer(0)
     \/ level' \in 1 .. One /\ phase' = "search" /\ answer' = answer
  /\ UNCHANGED <<cdf, method, q, lo, hi>>

\* isf_value hands ppf_value the complement; ppf_value maps what is outside the unit interval and
\* its two ends itself, and searches for the rest.
Start ==
  /\ phase = "start"
  /\ level' = IF method = "ppf" THEN q ELSE Minus(One, q)
  /\ \/ ~ InUnit(level') /\ Answer(NULL)
     \/ level' = 0 /\ Answer(0)
     \/ level' = One /\ Answer(n)
     \/ level' \in 1 .. One - 1 /\ phase' = "search" /\ answer' = answer
  /\ UNCHANGED <<cdf, method, q, lo, hi>>

\* Mutant: a point that reached the level is dropped from the bracket.
SearchSkipping ==
  /\ phase = "search" /\ lo < hi
  /\ LET mid == lo + (hi - lo) \div 2
     IN  \/ MayReach(mid) /\ mid > lo /\ hi' = mid - 1 /\ lo' = lo
         \/ MayMiss(mid) /\ lo' = mid + 1 /\ hi' = hi
  /\ UNCHANGED <<cdf, method, q, phase, level, answer>>

\* Mutant: a point that missed the level is kept in the bracket.
SearchStuck ==
  /\ phase = "search" /\ lo < hi
  /\ LET mid == lo + (hi - lo) \div 2
     IN  \/ MayReach(mid) /\ hi' = mid /\ lo' = lo
         \/ MayMiss(mid) /\ lo' = mid /\ hi' = hi
  /\ UNCHANGED <<cdf, method, q, phase, level, answer>>

\* One turn of inverse_cdf's loop.
Search ==
  /\ phase = "search" /\ lo < hi
  /\ LET mid == lo + (hi - lo) \div 2
     IN  \/ MayReach(mid) /\ hi' = mid /\ lo' = lo
         \/ MayMiss(mid) /\ lo' = mid + 1 /\ hi' = hi
  /\ UNCHANGED <<cdf, method, q, phase, level, answer>>

Return ==
  /\ phase = "search" /\ lo >= hi
  /\ Answer(lo)
  /\ UNCHANGED <<cdf, method, q, level, lo, hi>>

Finished == phase = "done" /\ UNCHANGED vars

Next == Start \/ Search \/ Return \/ Finished

Spec == Init /\ [][Next]_vars /\ WF_vars(Next)

-----------------------------------------------------------------------------
\* The bracket of the search: every point the search moved hi to may have reached the level, and
\* the point under lo may have missed it.
BracketHolds ==
  /\ lo \in 0 .. hi /\ hi \in 0 .. n
  /\ hi < n => MayReach(hi)
  /\ lo > 0 => MayMiss(lo - 1)

PhaseOfSearch ==
  /\ phase = "start" => lo = 0 /\ hi = n
  /\ phase # "start" => level = IF method = "ppf" THEN q ELSE Minus(One, q)
  /\ phase = "search" => level \in 1 .. One - 1
  /\ phase = "done" =>
       \/ ~ InUnit(level) /\ answer = NULL
       \/ level = 0 /\ answer = 0
       \/ level = One /\ answer = n
       \/ level \in 1 .. One - 1 /\ answer = lo /\ lo = hi

TypeOK ==
  /\ cdf \in Cdfs /\ method \in {"ppf", "isf"} /\ q \in Quantiles
  /\ phase \in {"start", "search", "done"}
  /\ answer \in 0 .. n \cup {NULL}

\* The inductive invariant.
IInv == TypeOK /\ BracketHolds /\ PhaseOfSearch

\* What is answered for a level inside the unit interval is a step of the cdf as far as its
\* evaluation can tell: the answer may reach the level, the point before it may miss it, though
\* the search read neither of them twice (binomial.rs:191-207: "smallest k with cdf(k) >= q (1 - tol)").
AnswerIsQuantile ==
  phase = "done" /\ level \in 1 .. One - 1 =>
    /\ answer \in 0 .. n
    /\ answer = n \/ MayReach(answer)
    /\ answer = 0 \/ MayMiss(answer - 1)

\* A cdf value inverts to its own step, whichever way its last bit rounded, wherever the step
\* before stands clear of the tolerance (binomial.rs:185-189, PPF_CDF_TOL).
RoundTrips ==
  phase = "done" /\ method = "ppf" /\ level \in 1 .. One - 1 =>
    \A k \in 0 .. n :
      /\ \E e \in - Noise .. Noise : At(k) * (Grain + e) = q * Grain
      /\ k = 0 \/ At(k - 1) * (Grain + Noise) * One < q * (One - 2 * Tolerance) * Grain
      => answer = k

\* A quantile outside [0, 1] is null, whichever inverse is asked (parameters-and-contracts.md:167:
\* "guaranteed for every distribution").
NullOutsideUnit == phase = "done" /\ ~ InUnit(q) => answer = NULL

\* The search ends, on a cdf as noisy as this too.
Terminates == <>(phase = "done")
=============================================================================
