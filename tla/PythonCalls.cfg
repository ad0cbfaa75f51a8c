CONSTANTS
  NULL = NULL
  NaN = NaN
  Half = Half
  Infinite = Infinite
  NoSeed = NoSeed
  NoFrame = NoFrame
  NoDistro = NoDistro
  MaxWireInt = 2
  MaxWidth = 3
  MaxUsize = 4
  MaxHeight = 2
  Params <- MCParams
  Values <- MCValues
  Accepted <- MCAccepted
  Joint <- MCJoint
  Buildable <- MCTuples
  Roots = {0, 2}
  DrawClass = "Uniform"
  Distros <- MCDistros
  Sizes <- MCSizes
  Seeds <- MCSeeds
  Points <- MCPoints
SPECIFICATION PythonSpec
INVARIANT AnswerIsFrames
INVARIANT RowsHaveOwnStreams
INVARIANT RaisesAsOneCall
INVARIANT MomentsFollowTheirParameters
INVARIANT OnlyTheWireable
