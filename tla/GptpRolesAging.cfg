SPECIFICATION Spec
CONSTANTS
  NumPorts = 2
  MaxRoot = 3
  SystemRoot = 1
  SelfRoots <- MCSelfRoots
  NoGmRoots <- NotCapable
  MaxSteps = 3
  MaxSource = 3
  OwnSource = 1
  Announces <- NearAndFar
  NoAnnounce = NoAnnounce
  MaxQualifiedSteps = 1
  AnnounceReceiptTimeout <- OnlyFirst
  SyncReceiptTimeout <- Configured
  SyncTicks <- ZeroOnFirst
  BootTicks = 8
  RxBufferReused = FALSE
INVARIANTS
  UnconfiguredNotFollowed
  ReceivedWasQualified
  TickMoves
PROPERTIES
  AgedPortTakesOver
  ComesToRest
