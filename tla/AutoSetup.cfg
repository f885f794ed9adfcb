SPECIFICATION Spec
CONSTANTS
  Tabs = {t1, t2}
  Nil = Nil
  Rooms = {r1, r2}
  RoomLimit = 2
  Typed <- NoneOrAll
  Foreign <- SomeForeign
  Hosts = {"missing", "installed"}
  MaxRequests = 2
  MaxEvents = 1
INVARIANT CompletionHonest
INVARIANT VerdictHolds
PROPERTY NothingForgotten
SYMMETRY Symmetry
CHECK_DEADLOCK FALSE
