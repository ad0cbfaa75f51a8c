CONSTANTS
  Precision = 6
  FractionBits = 12
  MaxExponent = 8
  Noise = 1
  Grain = 32
  Tolerance = 512
  NULL = NULL
  Cdfs <- MCCdfs
  Quantiles <- MCQuantiles
SPECIFICATION Spec
INVARIANT NullOutsideUnit
