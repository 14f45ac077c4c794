SPECIFICATION Spec
CONSTANTS
  NumPorts = 2
  MaxRoot = 3
  SystemRoot = 1
  SelfRoots <- MCSelfRoots
  NoGmRoots <- MCNoGmRoots
  MaxSteps = 3
  MaxSource = 3
  OwnSource = 1
  Announces <- OneBetter
  NoAnnounce = NoAnnounce
  MaxQualifiedSteps = 1
  AnnounceReceiptTimeout <- Configured
  SyncReceiptTimeout <- Configured
  SyncTicks <- AsBooted
  BootTicks = 8
  RxBufferReused = FALSE
INVARIANT GmAnnouncedByAnother
