SPECIFICATION Spec
CONSTANTS
  Procs = {p1, p2}
  MaxId = 2
  Names = {n1, n2}
  Rooms = {r1, r2}
  Tokens = {t1, t2}
  MaxInstances = 2
  Kinds <- AllKinds
  MaxOps = 3
  MaxOverlaps = 0
  MaxCrashes = 1
  MaxCancels = 1
  MaxDisk = 2
  MaxCtl = 1
  MaxDeaths = 1
  Nil = Nil
  EmptyFile = EmptyFile
  Keep = Keep
SYMMETRY Symmetry
INVARIANT YamlMatchesRow
INVARIANT RollbackRestores
INVARIANT RunningMatchesDisk
INVARIANT NoLeftovers
INVARIANT TokenReachesAll
PROPERTY RoomChangeOnlyRoom
CHECK_DEADLOCK FALSE
