SPECIFICATION FairSpec
CONSTANTS
  Requests = {p1, p2}
  Workers = {t1, t2}
  Paths = {a, b}
  MaxClock = 1
  MaxFaults = 0
  MaxCreates = 1
  MaxPuts = 1
  MaxChanges = 1
  MaxDeletes = 0
  MaxSyncs = 0
  MaxSettings = 1
  MaxFetches = 0
  DefaultPath = a
  None = None
PROPERTY MirrorCatchesUp
CHECK_DEADLOCK FALSE
