CONSTANTS
  NULL = NULL
  Params <- MCParams
  Values <- MCValues
  Accepted <- MCAccepted
  Joint <- MCJoint
  First = "a"
  Second = "b"
  Columns <- MCColumns
SPECIFICATION Spec
INVARIANT IInv
INVARIANT VerdictIsTheDomains
INVARIANT RejectsTheFirst
