SPECIFICATION AllSpec
CONSTANTS
  SharedSlots = {shared}
  UserSlots = {alice}
  Calls = {c1, c2}
  NoOne = NoOne
  MaxAborts = 1
  Writes = {"write"}
  Tools = {"tool"}
  Rows = {"row"}
  Loops = {"loop"}
  Steps = {"step"}
  Kills = {"kill"}
  Outer <- OneOuter
  Starts = {"start"}
  Flows = {"flow"}
  MaxSlow = 1
  MaxWork = 2
INVARIANTS
  StoppedHasNoSession
  ShutdownIsOrderly
PROPERTIES
  EveryCallReturns
  DrainIsBounded
\* Every call may have returned, and the stores are closed: then nothing is
\* left to do.
CHECK_DEADLOCK FALSE
