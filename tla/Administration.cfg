SPECIFICATION AllSpec
CONSTANTS
  Jobs = {c1, c2}
  NoJob = NoJob
  Kinds = {"hosted", "remote", "oauth"}
  MaxActions = 2
  MaxSessions = 2
  MaxTrouble = 1
  ReAdd = FALSE
  Callers = {c1, c2}
  Calls = {r1, r2, r3}
  CallerLimit = 1
  OrgLimit = 2
  Window = 1
  MaxTime = 1
  Sessions = {s1, s2}
  NoSession = NoSession
  IdleLimit = 1
  SweepEvery = 1
  Hows = {"revoked"}
SYMMETRY Symmetry
INVARIANTS
  SomeoneGoesOn
  WithinLimit
  SessionsFollowTheirOwners
PROPERTIES
  AnswersStayTrue
  SweepSparesTheBusy
CHECK_DEADLOCK FALSE
