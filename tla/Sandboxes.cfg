SPECIFICATION Spec
CONSTANTS
  MaxSandboxes = 3
  MaxVolumes = 2
  MaxSessions = 2
  MaxTrouble = 1
  MaxJobs = 1
  MaxBoots = 2
INVARIANTS
  KeptInSight
  EndsLeaveNothing
PROPERTIES
  LiveIsNotKilled
CHECK_DEADLOCK FALSE
