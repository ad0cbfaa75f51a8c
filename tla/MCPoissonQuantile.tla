------------------------- MODULE MCPoissonQuantile -------------------------
EXTENDS PoissonQuantile

\* Three steps: at 0, at a first point, and at a second one at most one support point on.
StepsAt(first, second, levels) ==
  [k \in Support |-> levels[IF k < first THEN 1 ELSE IF k < second THEN 2 ELSE 3]]

After(k, n) ==
  LET above == {j \in Support : j > k}
  IN  IF n = 0 THEN k
      ELSE IF \E j \in above : \A i \in above : j <= i
           THEN CHOOSE j \in above : \A i \in above : j <= i ELSE k

\* Steps whose small tail is the lower one, or the upper one: its last step is lost beside 1.
MCSteps == {<<1, 8, 40>>, <<24, 56, 63>>}
MCCdfs == {StepsAt(first, After(first, n), levels) : first \in Support, n \in {0, 1}, levels \in MCSteps}
MCLevels == {0, 8, 40, 55, 56, 59, 63, 64}
=============================================================================
