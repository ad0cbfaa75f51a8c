------------------------ MODULE MCBinomialQuantile -------------------------
EXTENDS BinomialQuantile

Steps == {32, 512, 2048, 4032}

MCCdfs ==
  {Append(f, One) : f \in
     UNION {{g \in [1 .. m -> Steps] : \A i \in 1 .. m - 1 : g[i] <= g[i + 1]} : m \in 0 .. 4}}

\* The steps themselves, an error off them, the ends, and what lies outside the unit interval.
MCQuantiles ==
  {- 4096, - 66, - 64, - 1, 0, 1, 2, 31, 32, 33, 36, 496, 512, 528, 576, 1984, 2048, 2112, 2304,
   3968, 4032, 4096, 4224, 8192}
=============================================================================
