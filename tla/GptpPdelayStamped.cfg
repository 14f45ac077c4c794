SPECIFICATION Spec
CONSTANTS
  NumPorts = 1
  TimestampPort = 0
  AllowedLost = 1
  SeqModulus = 8
  InitialLog = 0
  MaxTimer = 2
  ShiftWidth = 16
  OverShift = 1
  Responses <- Own
  FollowUps <- OwnFollowUps
  Signals <- Slower
  NoMessage = NoMessage
INVARIANTS
  CapableHasMeasured
  CallsMove
PROPERTIES
  KeepsRequesting
  AcceptsNothingOlder
