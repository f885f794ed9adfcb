SPECIFICATION Spec
CONSTANTS
  Requests = {p1, p2}
  Workers = {t1, t2}
  Paths = {a}
  MaxClock = 0
  MaxFaults = 0
  MaxCreates = 1
  MaxPuts = 1
  MaxChanges = 1
  MaxDeletes = 1
  MaxSyncs = 0
  MaxSettings = 0
  MaxFetches = 0
  DefaultPath = a
  None = None
INVARIANT NoOrphan
SYMMETRY Symmetry
CHECK_DEADLOCK FALSE
