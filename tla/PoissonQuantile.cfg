CONSTANTS
  Precision = 4
  FractionBits = 3
  MaxExponent = 5
  Whole = 64
  Unit = 16
  Noise = 1
  Slack = 3
  SeedError = 1
  Cdfs <- MCCdfs
  Levels <- MCLevels
SPECIFICATION Spec
INVARIANTS AnswerIsQuantile RoundTrips InfinityIsOutOfReach
PROPERTY Terminates
