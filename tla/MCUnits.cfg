CONSTANTS
  c1 = c1
  c2 = c2
  s1 = s1
  s2 = s2
  night = night
  standard = standard
  typo = typo
  None = None
  Caller <- MCCaller
  Station <- MCStation
  Time <- MCTime
  Invalid = typo
  Times <- MCTimes
  Default <- MCDefault
SYMMETRY Symmetry
SPECIFICATION Spec
CONSTRAINT Bound
INVARIANTS
  UnitsTypeOK
  StartedStationIsOnAir
  StopSilencesTransmitters
  AppliedScheduleIsSaved
