SPECIFICATION Spec
CONSTANTS
  Procs = {p1, p2}
  MaxId = 2
  Names = {n1, n2}
  Rooms = {r1}
  Tokens = {t1}
  MaxInstances = 2
  Kinds <- AllKinds
  MaxOps = 3
  MaxOverlaps = 3
  MaxCrashes = 1
  MaxCancels = 1
  MaxDisk = 1
  MaxCtl = 1
  MaxDeaths = 0
  Nil = Nil
  EmptyFile = EmptyFile
  Keep = Keep
SYMMETRY Symmetry
INVARIANT NoClientIdClash
PROPERTY NoResurrection
CHECK_DEADLOCK FALSE
