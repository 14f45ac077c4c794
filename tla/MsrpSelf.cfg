SPECIFICATION Spec
CONSTANTS
  NumPorts = 2
  MachineSlots = 2
  StreamSlots = 1
  ReservationSlots = 6
  JoinPeriod = 1
  Streams <- OneStream
  ZeroStream = "z"
  Offers <- OfferOfOne
  FallOff <- AnyPointer
  NullPointToPoint = FALSE
INVARIANTS
  PropagatedExceptToSelf
CHECK_DEADLOCK FALSE
