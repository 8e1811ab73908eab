CONSTANTS
  Threads = {t1, t2}
  v1 = v1
  v2 = v2
  v3 = v3
  Versions <- MCVersions
  Size <- MCSize
  FloorCap = 1
  OutSizes = {1, 2}
  None = None
  MaxSessions = 2
  MaxNames = 1
SYMMETRY MCSymmetry
SPECIFICATION Spec
INVARIANTS
  OutputIsWhole
  StagingWiped
  NothingOrphaned
  FreedOnce
CHECK_DEADLOCK FALSE
