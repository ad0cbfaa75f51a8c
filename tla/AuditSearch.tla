---------------------------- MODULE AuditSearch -----------------------------
(***************************************************************************)
(* The two searches behind every discrete inverse oracle of the accuracy   *)
(* audit (tools/accuracy/audit.py).  smallest_satisfying bisects [0, n];   *)
(* smallest_from gallops outward from a seed, the library's own answer     *)
(* right or wrong, then bisects the bracket it found.  A monotone          *)
(* predicate on 0, 1, 2, ... is the number of points it fails at.          *)
(***************************************************************************)
EXTENDS Integers

VARIABLES
  wanted,   \* the predicate: it holds from this k on
  limit,    \* smallest_satisfying's n, or Unbounded
  lo, hi,   \* the bracket
  step,     \* the stride of the gallop
  phase

searchVars == <<wanted, limit, lo, hi, step, phase>>

Unbounded == -1

Holds(k) == k >= wanted

SearchInit ==
  /\ wanted = 0 /\ limit = Unbounded
  /\ lo = 0 /\ hi = 0 /\ step = 1
  /\ phase = "idle"

\* smallest_satisfying(n, holds) is called.
Within(n, k) ==
  /\ phase \in {"idle", "found"}
  /\ wanted' = k /\ limit' = n
  /\ lo' = 0 /\ hi' = n /\ step' = 1
  /\ phase' = "halve"

\* smallest_from(start, holds) is called; one end of the bracket is known at once.
From(start, k) ==
  /\ phase \in {"idle", "found"}
  /\ wanted' = k /\ limit' = Unbounded
  /\ lo' = start /\ hi' = start /\ step' = 1
  /\ phase' = IF start >= k THEN "down" ELSE "up"

GallopDown ==
  /\ phase = "down"
  /\ IF hi - step >= 0 /\ Holds(hi - step)
     THEN hi' = hi - step /\ step' = 2 * step /\ UNCHANGED <<lo, phase>>
     ELSE /\ lo' = (IF hi - step + 1 > 0 THEN hi - step + 1 ELSE 0)
          /\ phase' = "halve"
          /\ UNCHANGED <<hi, step>>
  /\ UNCHANGED <<wanted, limit>>

GallopUp ==
  /\ phase = "up"
  /\ IF ~ Holds(lo + step)
     THEN lo' = lo + step /\ step' = 2 * step /\ UNCHANGED <<hi, phase>>
     ELSE lo' = lo + 1 /\ hi' = lo + step /\ phase' = "halve" /\ UNCHANGED step
  /\ UNCHANGED <<wanted, limit>>

Middle == lo + (hi - lo) \div 2

\* Mutant: the lower end skips past the midpoint's neighbour.
HalveShort ==
  /\ phase = "halve" /\ lo < hi
  /\ IF Holds(Middle) THEN hi' = Middle /\ UNCHANGED lo ELSE lo' = Middle + 2 /\ UNCHANGED hi
  /\ UNCHANGED <<wanted, limit, step, phase>>

\* Mutant: a midpoint that fails is kept as the lower end.
HalveInclusive ==
  /\ phase = "halve" /\ lo < hi
  /\ IF Holds(Middle) THEN hi' = Middle /\ UNCHANGED lo ELSE lo' = Middle /\ UNCHANGED hi
  /\ UNCHANGED <<wanted, limit, step, phase>>

Halve ==
  /\ phase = "halve" /\ lo < hi
  /\ IF Holds(Middle) THEN hi' = Middle /\ UNCHANGED lo ELSE lo' = Middle + 1 /\ UNCHANGED hi
  /\ UNCHANGED <<wanted, limit, step, phase>>

Return ==
  /\ phase = "halve" /\ lo >= hi
  /\ phase' = "found"
  /\ UNCHANGED <<wanted, limit, lo, hi, step>>

SearchStep == GallopDown \/ GallopUp \/ Halve \/ Return

SearchNext ==
  \/ \E n \in Nat, k \in Nat : Within(n, k) \/ From(n, k)
  \/ SearchStep

SearchSpec == SearchInit /\ [][SearchNext]_searchVars

-----------------------------------------------------------------------------
\* The smallest k that holds, or n where nothing in [0, n] does.
Smallest == IF limit # Unbounded /\ wanted > limit THEN limit ELSE wanted

(***************************************************************************)
(* Whatever it was seeded with, a search returns the smallest point that   *)
(* satisfies its predicate: a wrong library answer cannot become its own   *)
(* reference (smallest_satisfying, smallest_from).                         *)
(***************************************************************************)
SearchFindsSmallest == phase = "found" => lo = Smallest

\* Inductive: the answer never leaves the bracket.
SearchIInv ==
  /\ wanted \in Nat /\ lo \in Nat /\ hi \in Nat /\ step \in Nat \ {0}
  /\ limit \in Nat \cup {Unbounded}
  /\ phase \in {"idle", "down", "up", "halve", "found"}
  /\ phase \in {"down", "up"} => limit = Unbounded
  /\ phase = "down" => wanted <= hi
  /\ phase = "up" => lo < wanted
  /\ phase = "halve" => lo <= Smallest /\ Smallest <= hi
  /\ phase = "halve" /\ limit # Unbounded => hi <= limit
  /\ phase = "found" => lo = Smallest

=============================================================================
