SPECIFICATION Spec
CONSTANTS
  NumPorts = 2
  TimestampPort = 2
  AllowedLost = 0
  SeqModulus = 2
  InitialLog = 0
  MaxTimer = 2
  ShiftWidth = 16
  OverShift = 1
  Responses <- Foreign
  FollowUps <- NoMessages
  Signals <- OneSlower
  NoMessage = NoMessage
INVARIANTS
  TypeOK
  CeasesAfterThree
  OneRequestPerCall
