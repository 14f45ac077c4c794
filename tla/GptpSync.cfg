SPECIFICATION Spec
CONSTANTS
  NumPorts = 2
  Sources <- TwoNeighbours
  OwnSource = "own"
  NoSource = "none"
  SeqModulus = 2
  Intervals <- OneOrTwo
  MaxTicks = 2
  BootInterval = 2
  Messages <- ThreeSyncs
  NoSync = NoSync
INVARIANTS
  TypeOK
  MatchedWhileSteady
  SyncUsedOnce
  SyncPaced
PROPERTIES
  MasterSequence
  KeepsSyncing
CHECK_DEADLOCK FALSE
