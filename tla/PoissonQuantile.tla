-------------------------- MODULE PoissonQuantile --------------------------
(***************************************************************************)
(* Poisson::quantile and Poisson::smallest_reaching: ppf and isf as a      *)
(* gallop out from an estimate and a bisection of the bracket it finds,    *)
(* over whole numbers stored as floats.                                    *)
(*                                                                         *)
(* The distribution is a step function in levels of probability, Whole     *)
(* levels making 1.  The tails are compared as logs, so every error is a   *)
(* ratio, counted in parts of Unit: an evaluated tail is Noise parts off   *)
(* the step at most, afresh each time, and Slack parts are forgiven.  The  *)
(* estimate the search starts from is any support point.                   *)
(***************************************************************************)
EXTENDS TinyFloat

CONSTANTS Whole,       \* probability 1, in levels
          Cdfs,        \* the distributions: P(X <= k) in levels
          Levels,      \* the quantiles asked for, among 0 .. Whole
          Unit,        \* the parts that make 1 in a ratio of two levels
          Noise,       \* an evaluated tail is off by a factor of 1 - Noise / Unit at most
          Slack,       \* exp(-STEP_TOLERANCE) is 1 - Slack / Unit
          SeedError    \* how far above the answer an estimate of the code can be

Support == WholeFloats

ASSUME LevelsAssumption ==
  /\ Precision \in Nat /\ 2 < Precision
  /\ Whole \in Nat \ {0} /\ Unit \in Nat \ {0} /\ SeedError \in Nat
  /\ Noise \in 0 .. Unit - 1 /\ Slack \in 0 .. Unit - 1
  /\ Levels \subseteq 0 .. Whole
  /\ \A f \in Cdfs : /\ f \in [Support -> 1 .. Whole - 1]
                     /\ \A j, k \in Support : j <= k => f[j] <= f[k]

VARIABLES cdf,      \* the distribution
          method,   \* "ppf" or "isf"
          q,        \* the quantile asked for
          phase,
          tail,     \* the tail compared, "CDF" or "SF"
          target,   \* the level it must reach
          seed, step, lo, hi

vars == <<cdf, method, q, phase, tail, target, seed, step, lo, hi>>

Phases == {"start", "seed", "down", "up", "bisect", "done"}

TailOf(m) == IF m = "ppf" THEN "CDF" ELSE "SF"
Complement(t) == IF t = "CDF" THEN "SF" ELSE "CDF"

\* The step at k, as the tail compared.
Compared(k) == IF tail = "CDF" THEN cdf[k] ELSE Whole - cdf[k]

\* An evaluated tail over the exact one: the two extremes, and none.
Errors == {<<Unit - Noise, Unit>>, <<Unit, Unit>>, <<Unit, Unit - Noise>>}

\* Mutant: the tolerance is a number of levels, wide enough for the quantiles near 1/2.
ReachesInLevels(k, error) ==
  k # Infinity =>
    IF tail = "CDF" THEN Compared(Floor(k)) * error[1] >= (target - 4) * error[2]
                    ELSE Compared(Floor(k)) * error[1] <= (target + 4) * error[2]

\* The closure reached, at a point and with an error of evaluation: +inf reaches every level.
Reaches(k, error) ==
  k # Infinity =>
    IF tail = "CDF"
    THEN Compared(Floor(k)) * error[1] * Unit >= target * error[2] * (Unit - Slack)
    ELSE Compared(Floor(k)) * error[1] * (Unit - Slack) <= target * error[2] * Unit
MayReach(k) == \E e \in Errors : Reaches(k, e)
MayMiss(k) == \E e \in Errors : ~ Reaches(k, e)

Init ==
  /\ cdf \in Cdfs /\ method \in {"ppf", "isf"} /\ q \in Levels
  /\ phase = "start" /\ tail = TailOf(method) /\ target = q
  /\ seed = 0 /\ step = One /\ lo = 0 /\ hi = 0

\* The spacing of floats at the estimate, at least 1.
FirstStep(s) ==
  LET scaled == Round(s, EpsilonInverse) IN IF scaled > One THEN scaled ELSE One

Answer(k) == phase' = "done" /\ hi' = k

\* Mutant: past one half the target is the complement's and the tail is not.
StartSameTail ==
  /\ phase = "start"
  /\ tail' = TailOf(method) /\ target' = (IF 2 * q <= Whole THEN q ELSE Whole - q)
  /\ IF target' = 0
     THEN Answer(IF tail' = "CDF" THEN 0 ELSE Infinity) /\ UNCHANGED <<seed, step>>
     ELSE /\ phase' = "seed" /\ seed' \in Support /\ step' = FirstStep(seed') /\ hi' = hi
  /\ UNCHANGED <<cdf, method, q, lo>>

\* quantile: the smaller of the two tails, and the support's edge where its target is nothing.
Start ==
  /\ phase = "start"
  /\ IF 2 * q <= Whole
     THEN tail' = TailOf(method) /\ target' = q
     ELSE tail' = Complement(TailOf(method)) /\ target' = Whole - q
  /\ IF target' = 0
     THEN Answer(IF tail' = "CDF" THEN 0 ELSE Infinity) /\ UNCHANGED <<seed, step>>
     ELSE /\ phase' = "seed" /\ seed' \in Support /\ step' = FirstStep(seed') /\ hi' = hi
  /\ UNCHANGED <<cdf, method, q, lo>>

\* The first evaluation: the answer is at or below the estimate, or above it.
SearchFromSeed ==
  /\ phase = "seed"
  /\ \/ MayReach(seed) /\ phase' = "down" /\ hi' = seed /\ lo' = lo
     \/ MayMiss(seed) /\ phase' = "up" /\ lo' = seed /\ hi' = hi
  /\ UNCHANGED <<cdf, method, q, tail, target, seed, step>>

Below(k) == LET gap == Minus(k, step) IN IF gap < 0 THEN 0 ELSE gap

GallopDown ==
  /\ phase = "down"
  /\ \/ hi = 0 /\ Answer(0) /\ UNCHANGED <<step, lo>>
     \/ /\ hi # 0 /\ MayReach(Below(hi))
        /\ hi' = Below(hi) /\ step' = Double(step) /\ UNCHANGED <<phase, lo>>
     \/ /\ hi # 0 /\ MayMiss(Below(hi))
        /\ phase' = "bisect" /\ lo' = Below(hi) /\ UNCHANGED <<step, hi>>
  /\ UNCHANGED <<cdf, method, q, tail, target, seed>>

\* Mutant: the step is never doubled.
GallopUpSteadily ==
  /\ phase = "up"
  /\ LET above == Plus(lo, step)
     IN  \/ MayReach(above) /\ phase' = "bisect" /\ hi' = above /\ UNCHANGED <<step, lo>>
         \/ MayMiss(above) /\ lo' = above /\ UNCHANGED <<phase, hi, step>>
  /\ UNCHANGED <<cdf, method, q, tail, target, seed>>

\* Mutant: the step grows fourfold.
GallopUpFourfold ==
  /\ phase = "up"
  /\ LET above == Plus(lo, step)
     IN  \/ MayReach(above) /\ phase' = "bisect" /\ hi' = above /\ UNCHANGED <<step, lo>>
         \/ /\ MayMiss(above)
            /\ lo' = above /\ step' = Double(Double(step)) /\ UNCHANGED <<phase, hi>>
  /\ UNCHANGED <<cdf, method, q, tail, target, seed>>

GallopUp ==
  /\ phase = "up"
  /\ LET above == Plus(lo, step)
     IN  \/ MayReach(above) /\ phase' = "bisect" /\ hi' = above /\ UNCHANGED <<step, lo>>
         \/ MayMiss(above) /\ lo' = above /\ step' = Double(step) /\ UNCHANGED <<phase, hi>>
  /\ UNCHANGED <<cdf, method, q, tail, target, seed>>

Midpoint(a, b) == Floor(Plus(a, Half(Minus(b, a))))

\* No float strictly inside the bracket is left to try, or the middle is.
Bisect ==
  /\ phase = "bisect"
  /\ LET mid    == Midpoint(lo, hi)
         inside == lo < mid /\ mid < hi
     IN  \/ ~ inside /\ Answer(hi) /\ lo' = lo
         \/ inside /\ MayReach(mid) /\ hi' = mid /\ UNCHANGED <<phase, lo>>
         \/ inside /\ MayMiss(mid) /\ lo' = mid /\ UNCHANGED <<phase, hi>>
  /\ UNCHANGED <<cdf, method, q, tail, target, seed, step>>

Finished == phase = "done" /\ UNCHANGED vars

Next == Start \/ SearchFromSeed \/ GallopDown \/ GallopUp \/ Bisect \/ Finished

Spec == Init /\ [][Next]_vars /\ WF_vars(Next)

-----------------------------------------------------------------------------
TypeOK ==
  /\ cdf \in Cdfs /\ method \in {"ppf", "isf"} /\ q \in Levels /\ phase \in Phases
  /\ seed \in Support /\ lo \in Floats /\ {step, hi} \subseteq Floats \cup {Infinity}

\* Which tail is compared, and at what level.
SmallerTail ==
  phase # "start" =>
    IF 2 * q <= Whole THEN tail = TailOf(method) /\ target = q
                      ELSE tail = Complement(TailOf(method)) /\ target = Whole - q

\* The support point before k.
Before(k) ==
  LET spacing == Spacing(k - 1, 1) IN k - (IF spacing > One THEN spacing ELSE One)

\* What the search has found of either end, and what is left of it at the end.
Bracket ==
  /\ phase = "start" => seed = 0
  /\ phase \in {"seed", "down", "up", "bisect"} => target # 0
  /\ phase \in {"down", "bisect"} => MayReach(hi)
  /\ phase \in {"up", "bisect"} => MayMiss(lo)
  /\ phase = "done" =>
       IF target = 0 THEN hi = IF tail = "CDF" THEN 0 ELSE Infinity
       ELSE /\ MayReach(hi)
            /\ hi = Infinity \/ Floor(hi) = 0 \/ MayMiss(Before(Floor(hi)))

\* f64::EPSILON.
Epsilon == 2 ^ (FractionBits - (Precision - 1))

\* No part of a number the search forms is smaller than the spacing of the floats at 1, and none is
\* a fraction unless the estimate is past the point where the first step can be one.
Fractions ==
  \A x \in {lo, hi, step} : x % Epsilon = 0 /\ (x % One = 0 \/ seed > EpsilonInverse * One)

IInv == TypeOK /\ SmallerTail /\ Bracket /\ Fractions

\* The gallop up has covered what its step has come to, but for the first step's length and the last
\* part of the spacing it stands in; where it overflows, it stands at a point that was missed.
KeepsUp ==
  \A z \in 0 .. step : z < step /\ z % Spacing(lo, 1) = 0 => z <= lo - seed + FirstStep(seed)

Gallop ==
  /\ phase = "seed" => step = FirstStep(seed)
  /\ phase = "down" => hi # Infinity
  /\ phase = "up" => KeepsUp
  /\ phase \in {"bisect", "done"} /\ hi = Infinity /\ target # 0 =>
       MayMiss(lo) /\ KeepsUp /\ Plus(lo, step) = Infinity

\* The step at k meets the quantile asked for, in the smaller tail there, eased by num / den.
Meets(k, num, den) ==
  LET small == 2 * q <= Whole
      level == IF small THEN q ELSE Whole - q
  IN  IF small = (method = "ppf") THEN cdf[k] * den >= level * num
                                  ELSE (Whole - cdf[k]) * num <= level * den

\* What an answer may be eased by, and what a point passed over must miss by.
MeetsEased(k) == Meets(k, (Unit - Slack) * (Unit - Noise), Unit * Unit)
MeetsClearly(k) == Meets(k, Unit - Slack, Unit - Noise)

\* A finite answer stands for the smallest support point that meets the quantile, as far as the
\* tails can be told apart: the point meets it within the error and the tolerance, the one before
\* does not meet it clearly (poisson.rs:115-168: "the smallest support point where tail has
\* reached the level").  From an estimate this close the answer is the point itself, though the
\* first step need not be a whole number and the gallop may cross to where fractions are floats.
AnswerIsQuantile ==
  phase = "done" /\ hi # Infinity =>
    /\ MeetsEased(Floor(hi))
    /\ Floor(hi) = 0 \/ ~ MeetsClearly(Before(Floor(hi)))
    /\ seed - hi <= SeedError * One => hi % One = 0

\* The error of a quantile computed at the step of k, in parts of a level.
OwnError(k) == Noise * (IF method = "ppf" THEN cdf[k] ELSE Whole - cdf[k])

\* q is such a quantile, with its last bits rounded either way.
Inverted(k) ==
  LET own == IF method = "ppf" THEN cdf[k] ELSE Whole - cdf[k]
  IN  (q - own) * Unit \in - OwnError(k) .. OwnError(k)

\* The tail compared still tells q from its neighbours: its error is within the tolerance.
Resolved(k) == OwnError(k) <= (Slack - Noise) * Compared(k)

\* The tail compared moves at k by more than the errors come to.
Apart(k) ==
  \/ k = 0
  \/ IF tail = "CDF"
     THEN Compared(Before(k)) * Unit * Unit * Unit
            < (Compared(k) * Unit - OwnError(k)) * (Unit - Slack) * (Unit - Noise)
     ELSE Compared(Before(k)) * (Unit - Slack) * (Unit - Noise)
            > (Compared(k) * Unit + OwnError(k)) * Unit

\* A quantile computed on a step inverts to that step, where the tail compared resolves it, and
\* to the next one at the latest where it does not: past 1/2 that tail is 1 - q, and q's own
\* rounding outgrows the tolerance (poisson.rs:61-65, tests/scipy_parity/poisson_test.py:122,
\* docs/explanation/accuracy.md:55-57).
RoundTrips ==
  phase = "done" /\ hi # Infinity =>
    \A k \in Support :
      Inverted(k) /\ Apart(k) =>
        /\ k <= Floor(hi)
        /\ Resolved(k) => Floor(hi) = k
        /\ \A n \in Support : n > k /\ Before(n) = k /\ Apart(n) => Floor(hi) <= n

\* The gallop jumps to infinity only past the reach of doubling: an answer +inf inside the unit
\* interval leaves no support point that clearly meets the quantile in the nearer half of what
\* separates the estimate from overflow (poisson.rs:118-119: "up, it ends because +inf reaches").
InfinityIsOutOfReach ==
  phase = "done" /\ hi = Infinity /\ target # 0 =>
    \A k \in Support :
      MeetsClearly(k) => 2 * (k - seed) + FirstStep(seed) >= Infinity - seed

\* Both gallops and the bisection end, whatever the tails are evaluated to (poisson.rs:118-120).
Terminates == <>(phase = "done")

=============================================================================
