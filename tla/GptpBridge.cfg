SPECIFICATION BridgeSpec
CONSTANTS
  NumPorts = 2
  MaxRoot = 2
  SystemRoot = 1
  SelfRoots <- MCSelfRoots
  NoGmRoots <- MCNoGmRoots
  MaxSteps = 1
  MaxSource = 2
  OwnSource = 1
  Announces <- OneBetter
  NoAnnounce = NoAnnounce
  MaxQualifiedSteps = 0
  AnnounceReceiptTimeout <- Configured
  SyncReceiptTimeout <- Configured
  SyncTicks <- EveryTick
  BootTicks = 1
  RxBufferReused = TRUE
  SeqModulus = 2
  MaxTicks = 1
  Syncs <- OneSync
  NoSync = NoSync
INVARIANT OneTimeSource
PROPERTY ImplementsSync
CHECK_DEADLOCK FALSE
