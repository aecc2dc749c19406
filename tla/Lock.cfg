SPECIFICATION Spec
CONSTANTS
  Backends = {b1, b2}
  Refreshes = {r1, r2, r3}
  NoOne = NoOne
  Wait = 3
  TTL = 3
  Every = 1
  Try = 1
  Poll = 1
  Latency = 0
  Troubles = {"tryFails", "tryHangs", "renewalFails", "renewalHangs", "releaseFails", "cancel", "crash"}
  MaxTrouble = 2
  Together = {"renewalFails", "crash"}
  MaxTime = 6
SYMMETRY Alike
INVARIANTS
  ExclusiveWhileLeased
  LockKeepsItsWord
PROPERTIES
  OrphanIsWaitedOut
