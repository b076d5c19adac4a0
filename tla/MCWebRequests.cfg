CONSTANTS
  t1 = t1
  t2 = t2
  i1 = i1
  i2 = i2
  i3 = i3
  i4 = i4
  Thread <- MCThread
  Inode <- MCInode
  Key <- MCKey
  Value <- MCValue
  Width <- MCWidth
  Installed <- MCInstalled
  Request <- MCRequest
  MaxOverlaps = 1
  STATIONS <- MCSTATIONS
  int <- MCint
  split <- MCsplit
  HHMM <- MCHHMM
  Minutes <- Text
  ConfigBody <- MCConfigBody
  ScheduleBody <- MCScheduleBody
  StartBody <- MCStartBody
  MaxMissed = 1
SYMMETRY Symmetry
SPECIFICATION WebSpec
INVARIANTS
  WebTypeOK
  WholeUnlessOverlapped
  AnsweredMeansStored
  SeesSavedSettings
  PageShowsWhatRuns
CHECK_DEADLOCK FALSE
