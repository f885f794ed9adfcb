SPECIFICATION Spec
CONSTANTS
  Procs = {p1, p2}
  Client = c
  Proxy = q
  Ips = {c, d, q}
  Trusted = {q}
  Claims <- SomeClaims
  Nil = Nil
  Tokens = {t1, t2}
  MaxFailures = 2
  Window = 2
  Idle = 2
  Renew = 1
  Life = 3
  MaxClock = 4
  MaxVersion = 1
  MaxRequests = 4
SYMMETRY Symmetry
VIEW View
INVARIANT ChangeSignsOut
INVARIANT SessionWindow
INVARIANT LockoutBounded
INVARIANT OwnAddress
PROPERTY NoReturn
CHECK_DEADLOCK FALSE
