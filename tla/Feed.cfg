SPECIFICATION Spec
CONSTANTS
  Procs = {p1, p2}
  Instances = {i1}
  Configs <- AllConfigs
  RawURIs <- Raws
  Orders = {0}
  ImportFile <- File
  None = None
  Garbled = Garbled
  MaxEntries = 3
  MaxSubs = 2
  MaxUsed = 2
  MaxWrites = 3
  MaxRenders = 1
SYMMETRY Symmetry
INVARIANT FailsForReason
INVARIANT OrderAsSent
INVARIANT LinesParse
INVARIANT TokenWithheld
INVARIANT NothingLost
INVARIANT HeaderHonest
CHECK_DEADLOCK FALSE
