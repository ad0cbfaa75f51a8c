CONSTANTS
  Precision = 5
  FractionBits = 10
  MaxExponent = 14
  IntBits = 7
  NULL = NULL
  Bounds <- MCGapBounds
  IntPoints <- MCIntPoints
  FloatPoints <- MCFloatPoints
  Quantiles <- MCQuantiles
SPECIFICATION Spec
INVARIANT CountsStayInside
