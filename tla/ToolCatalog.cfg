SPECIFICATION AllSpec
CONSTANTS
  MaxChanges = 1
  MaxRefreshes = 2
  MaxBreaks = 1
  u1 = "u1"
  u2 = "u2"
  o1 = "o1"
  o2 = "o2"
  Gateways <- MCGateways
  Sent = {"a", "b"}
  Closers = {"k", "l"}
INVARIANTS
  EndsCleanly
PROPERTIES
  ChangesAreSeen
  NamesHold
  UnwantedEnds
CHECK_DEADLOCK FALSE
