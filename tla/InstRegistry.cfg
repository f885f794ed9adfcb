SPECIFICATION FairSpec
CONSTANTS
  Procs = {p1}
  MaxId = 2
  Names = {n1, n2}
  Rooms = {r1, r2}
  Tokens = {t1, t2}
  MaxInstances = 2
  Kinds <- SingleKinds
  MaxOps = 3
  MaxOverlaps = 0
  MaxCrashes = 1
  MaxCancels = 0
  MaxDisk = 1
  MaxCtl = 0
  MaxDeaths = 1
  Nil = Nil
  EmptyFile = EmptyFile
  Keep = Keep
PROPERTY RefinesRegistry
PROPERTY RequestsFinish
CHECK_DEADLOCK FALSE
