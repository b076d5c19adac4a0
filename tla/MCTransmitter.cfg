CONSTANTS
  p1 = p1
  Driver = p1
  Proc <- MCProc
  Carrier <- MCCarrier
  LeftBehind <- MCLeftBehind
  Job <- MCJob
  CarrierOf <- GetCarrierFrequency
  Modulation <- SourceModulation
  ZoneOf <- MCZoneOf
  LaunchTime = {0, 137, 594}
  TicksPerSecond = 10
  SecondsPerMinute = 60
  MaxTime = 1210
  ClockSteps = {}
  MaxClockSteps = 0
  RealTime = TRUE
SPECIFICATION PartSpec
INVARIANTS
  TypeOK
  StaysTuned
  PowerIsKeyed
  RadioClockShowsTheTime
PROPERTIES
  ClockChangesOnlyWhenIdle
  CallsReturn
  ImplementsHardwareControl
  JetsonKeysAsAsked
CHECK_DEADLOCK FALSE
