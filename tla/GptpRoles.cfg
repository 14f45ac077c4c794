SPECIFICATION Spec
CONSTANTS
  NumPorts = 2
  MaxRoot = 3
  SystemRoot = 2
  SelfRoots <- SelfIsTwo
  NoGmRoots <- MCNoGmRoots
  MaxSteps = 3
  MaxSource = 3
  OwnSource = 1
  Announces <- LessAndFar
  NoAnnounce = NoAnnounce
  MaxQualifiedSteps = 1
  AnnounceReceiptTimeout <- Configured
  SyncReceiptTimeout <- Configured
  SyncTicks <- AsBooted
  BootTicks = 8
  RxBufferReused = TRUE
INVARIANTS
  TypeOK
  SlaveFollowsGm
  GrandmasterAlone
  MasterDefendsWhatItAnnounces
  BestPathSelected
  GmChangeReported
PROPERTY ReceivedNeverWorsens
