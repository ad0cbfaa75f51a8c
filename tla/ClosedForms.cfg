CONSTANTS
  Precision = 5
  Depth = 12
  Binades = 17
  ExpAt <- MCExp
  LnAt <- MCLn
  Ln1pAt <- MCLn1p
  SinhAt <- MCSinh
  NaN = NaN
  NULL = NULL
  TailSlack <- MCTailSlack
  LogUlps = 8
  TailUlps = 3
  InverseUlps = 8
  MaxCount <- MCMaxCount
  DirectComplement <- MCDirectComplement
  Parameters <- MCParameters
  Points <- MCPoints
  Quantiles <- MCQuantiles
SPECIFICATION Spec
INVARIANTS AnswersAreNumbers TailsClimb LogsKeepTheTail PdfKeepsItsRange InversesInvert DrawsStayInside
