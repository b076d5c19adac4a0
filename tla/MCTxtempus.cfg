CONSTANTS
  p1 = p1
  Proc <- MCProc
  Carrier <- MCCarrier
  LeftBehind <- MCLeftBehind
  Job <- MCJob
  CarrierOf <- MCCarrierOf
  Modulation <- MCModulation
  TicksPerSecond = 10
  SecondsPerMinute = 3
  MaxTime = 100
  ClockSteps <- ForwardSteps
  MaxClockSteps = 1
  RealTime = TRUE
SPECIFICATION TxSpec
INVARIANTS
  TxTypeOK
  OnSchedule
  StopsWithinASecond
  NoCarrierAfterExit
PROPERTIES
  DryRunTouchesNothing
  LowIsNeverRekeyed
CHECK_DEADLOCK FALSE
