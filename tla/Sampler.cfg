CONSTANTS
  NULL = NULL
  NoSeed = NoSeed
  Zero = Zero
  Params <- MCParams
  Values <- MCValues
  Accepted <- MCAccepted
  Joint <- MCJoint
  Buildable <- MCBuildable
  Roots = {"s", "e"}
  MaxUsize = 9
  Calls <- AllCalls
  Workers = {"w1", "w2"}
  Caller = "w1"
  ParallelMinDraws = 6
SPECIFICATION Spec
INVARIANT IInv
INVARIANT BufferHoldsPrefixes
PROPERTY DrawsWrittenOnce
PROPERTY ImplementsContract
