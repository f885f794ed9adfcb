SPECIFICATION Spec
CONSTANTS
  Procs = {p1, p2}
  Nil = Nil
  Length = 1
  MaxClock = 3
  MaxStarts = 2
  MaxRequests = 1
  MaxFaults = 1
INVARIANT AppliedOnce
INVARIANT StateOfSession
INVARIANT Progress
SYMMETRY Symmetry
CHECK_DEADLOCK FALSE
