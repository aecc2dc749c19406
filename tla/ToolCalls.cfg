SPECIFICATION Spec
CONSTANTS
  Calls = {c1, c2}
  MaxSessions = 3
  MaxTrouble = 1
  MaxAdmin = 1
SYMMETRY CallSymmetry
INVARIANTS
  UnsafeRunsOnce
  EndsAreAccountedFor
PROPERTIES
  HealKeepsReplacement
CHECK_DEADLOCK FALSE
