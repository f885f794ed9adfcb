SPECIFICATION FairSpec
CONSTANTS
  Units = {u1, u2}
  Shows = 1
  MaxEntries = 3
  MaxSec = 1
  MaxRotations = 1
  MaxStops = 2
  MaxResets = 1
  MaxDeletes = 1
  MaxDbErrors = 1
INVARIANT CountedOnce
INVARIANT NoGaps
PROPERTY RefinesMeter
PROPERTY EventuallyCounted
CHECK_DEADLOCK FALSE
