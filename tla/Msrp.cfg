SPECIFICATION Spec
CONSTANTS
  NumPorts = 2
  MachineSlots = 2
  StreamSlots = 2
  ReservationSlots = 12
  JoinPeriod = 1
  Streams <- TwoStreams
  ZeroStream = "z"
  Offers <- OffersAndZero
  FallOff <- NullOrFirst
  NullPointToPoint = FALSE
INVARIANTS
  TypeOK
  RegisteredIsReserved
  RegisteredIsPropagated
  DeclaredIsRegistered
  ReservationsFit
  FairStepsMove
PROPERTIES
  ImplementsReservation
  KeepsOffering
CHECK_DEADLOCK FALSE
