SPECIFICATION AllSpec
CONSTANTS
  j1 = j1
  j2 = j2
  Jobs <- TwoJobs
  NoJob = NoJob
  Kinds <- OthersAndReconnect
  MaxSignIns = 2
  MaxTokens = 2
  MaxClients = 2
  MaxTrouble = 1
  Tries = 2
  Threshold = 2
  Idle = 6
  MinGap = 1
  MaxRefresh = 2
  MaxAwaited = 3
  Frames = {request, ping}
  Counted = {request}
  MaxMissed = 1
  MaxStrays = 1
  MaxTime = 8
INVARIANTS
  StoredTokensWork
PROPERTIES
  NothingComesBack
  NewerTokensKept
  WorkingSignInKept
  PauseIsFair
CHECK_DEADLOCK FALSE
