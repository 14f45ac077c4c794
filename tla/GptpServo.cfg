CONSTANTS
  LogBits = 3
  Half = 16
  Second = 50
  AcquireThreshold = 2
  ResetThreshold = 20
  IntegralMax = 20
  IncrementDelta = 16
  Nominals <- SomeNominals
  RxTimestamps <- Received
  TxTimestamps <- Sent
  Corrections <- SomeCorrections
  Exchanges <- SomeExchanges
  MasterRatios <- SomeRatios
  NoExchange = NoExchange
  NoRatio = NoRatio
  NoOffset = NoOffset
  NoGoal = NoGoal

SPECIFICATION Spec

INVARIANTS
  TypeOK
  RateIsGoal
  LockTellsOffset
  NothingAccumulates
  MeasurementIsExact
