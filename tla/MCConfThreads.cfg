CONSTANTS
  t1 = t1
  t2 = t2
  i1 = i1
  i2 = i2
  i3 = i3
  i4 = i4
  Thread <- MCThread
  Inode <- MCInode
  Key <- MCKey
  Value <- MCValue
  Width <- MCWidth
  Installed <- MCInstalled
  Request <- MCRequest
  MaxOverlaps = 2
SYMMETRY Symmetry
SPECIFICATION Spec
CHECK_DEADLOCK FALSE
INVARIANTS
  ConfIsWhole
