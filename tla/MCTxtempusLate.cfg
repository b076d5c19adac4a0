CONSTANTS
  p1 = p1
  Proc <- MCProc
  Carrier <- MCCarrier
  LeftBehind <- MCLeftBehind
  Job <- MCJob
  CarrierOf <- MCCarrierOf
  Modulation <- MCModulation
  TicksPerSecond = 4
  SecondsPerMinute = 2
  MaxTime = 24
  ClockSteps <- EitherSteps
  MaxClockSteps = 1
  RealTime = FALSE
SPECIFICATION TxSpec
INVARIANTS
  RunLength
PROPERTIES
  NeverEarly
  SignalledProcessStops
CHECK_DEADLOCK FALSE
