CONSTANTS
  Precision = 5
  FractionBits = 10
  MaxExponent = 14
  IntBits = 7
  NULL = NULL
  Bounds <- MCBounds
  IntPoints <- MCIntPoints
  FloatPoints <- MCFloatPoints
  Quantiles <- MCQuantiles
SPECIFICATION Spec
INVARIANTS CdfClimbs IntAndFloatAgree InverseClimbs InversesInvert MidpointIsExact
