CONSTANTS
  Null = Null
  NotANumber = NotANumber
  PosInf = PosInf
  NegInf = NegInf
  NoSkip = NoSkip
  Panic = Panic
  Unavailable = Unavailable
  Broken = Broken
  Largest = 320
  SmallestNormal = 16
  Tolerance = 8
  One = 64
  Registry <- MCRegistry
  CommandLines <- MCCommandLines
  KnownHangs <- MCKnownHangs
  ControlAnswers <- MCControlAnswers
  SaturatedTruth <- MCControlTruth
  ControlTruth <- MCControlTruth
SPECIFICATION AuditSpec
INVARIANT SearchFindsSmallest
INVARIANT VerdictsAreFair
INVARIANT EachPointOnce
INVARIANT ExitIsHonest
PROPERTY SweepEnds
