CONSTANTS
  t1 = t1
  t2 = t2
  Thread <- MCThread
  TTL = 1
  Preemptive = FALSE
  MaxTime = 3
  MaxChanges = 2
SYMMETRY Symmetry
SPECIFICATION HistorySpec
CHECK_DEADLOCK FALSE
INVARIANTS
  StatusTypeOK
  ForcedIsLive
  AgeIsBounded
  LiveAfterPost
PROPERTIES
  ImplementsStatusServer
