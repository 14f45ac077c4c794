SPECIFICATION Spec
CONSTANTS
  NumPorts = 1
  Sources <- OneNeighbour
  OwnSource = "own"
  NoSource = "none"
  SeqModulus = 2
  Intervals <- OneOrTwo
  MaxTicks = 2
  BootInterval = 2
  Messages <- TwoSyncs
  NoSync = NoSync
INVARIANT MatchesLastSync
CHECK_DEADLOCK FALSE
