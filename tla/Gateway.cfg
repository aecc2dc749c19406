SPECIFICATION FairSpec
CONSTANTS
  c1 = c1
  c2 = c2
  s1 = s1
  s2 = s2
  Clients <- OneClient
  SignIns <- OneSignIn
  NoSignIn = NoSignIn
  ClientOf <- ForOneClient
  MaxPairs = 2
  MaxQueue = 1
  MaxRevokes = 1
  MaxTrouble = 2
  MaxLapses = 1
INVARIANTS
  TokensAreSound
  RevokedHoldsNothing
PROPERTIES
  EveryChangeIsStored
CHECK_DEADLOCK FALSE
