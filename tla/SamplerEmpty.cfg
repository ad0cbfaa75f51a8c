CONSTANTS
  NULL = NULL
  NoSeed = NoSeed
  Zero = Zero
  Params <- MCParams
  Values <- MCValues
  Accepted <- MCAccepted
  Joint <- MCJoint
  Buildable <- MCBuildable
  Roots = {"s", "e"}
  MaxUsize = 3
  Calls <- InputCalls
  Workers = {"w1"}
  Caller = "w1"
  ParallelMinDraws = 2
SPECIFICATION Spec
INVARIANT ConstantsAlwaysChecked
