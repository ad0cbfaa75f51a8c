------------------------ MODULE MCDiscreteUniform --------------------------
EXTENDS DiscreteUniform

\* Floats of 5 bits address the integers to +-32: bounds inside, across and past them, up to both
\* ends of a 7-bit integer.
MCBounds == {-64, -41, -33, -31, -4, -1, 0, 1, 2, 4, 5, 6, 9, 12, 13, 14, 22, 31, 33, 40, 41, 63}

\* Bounds past the grid, whose casts part by more than they do.
MCGapBounds == {33, 35}

MCIntPoints ==
  (-64 .. -62) \cup (-42 .. -40) \cup (-34 .. -30) \cup (-6 .. 24) \cup (30 .. 42)
  \cup (62 .. 65) \cup {90, 126, 127}
MCFloatPoints ==
  {i * (One \div 2) : i \in -12 .. 30} \cup
  {i * One : i \in {-68, -64, -40, -34, -32, -31, -30, 15, 22, 30, 31, 32, 34, 40, 42, 60, 62, 64, 68}}

MCQuantiles ==
  {s * 2 ^ e : s \in 0 .. 31, e \in 0 .. 5} \cup {-1088, -1, One, One + 64}
=============================================================================
