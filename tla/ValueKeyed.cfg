CONSTANTS
  NULL = NULL
  NaN = NaN
  NoPoint = NoPoint
  Params <- MCParams
  Values <- MCValues
  Accepted <- MCAccepted
  Joint <- MCJoint
  Points <- MCPoints
  Undefined <- MCUndefined
  Calls <- MCCalls
SPECIFICATION Spec
INVARIANT IInv
INVARIANT ValueDriversReportInOrder
PROPERTY ImplementsContract
