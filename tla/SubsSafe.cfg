SPECIFICATION Spec
CONSTANTS
  Requests = {p1, p2}
  Workers = {t1, t2}
  Paths = {a}
  MaxClock = 1
  MaxFaults = 1
  MaxCreates = 1
  MaxPuts = 1
  MaxChanges = 1
  MaxDeletes = 1
  MaxSyncs = 0
  MaxSettings = 0
  MaxFetches = 1
  DefaultPath = a
  None = None
INVARIANT DeleteRemoves
INVARIANT BundleMirrorExists
INVARIANT ClientsNotice
PROPERTY MirrorNotOlder
SYMMETRY Symmetry
CHECK_DEADLOCK FALSE
