CONSTANTS
  r1 = r1
  r2 = r2
  Thread <- MCThread
  MaxChanges = 2
SPECIFICATION PageSpec
INVARIANTS
  PollingGoesOn
  ActionIsShown
PROPERTIES
  PageCatchesUp
