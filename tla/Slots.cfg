SPECIFICATION AllSpec
CONSTANTS
  SharedSlots = {shared}
  UserSlots = {alice}
  Calls = {c1, c2, c3}
  NoOne = NoOne
  MaxAborts = 1
  Ops = {c1, c2, c3}
  Roles = {first, other}
  First = first
  MaxAdds = 2
  MaxChanges = 2
  MaxFailures = 1
  Alone = TRUE
SYMMETRY Symmetry
INVARIANTS
  SessionNewerThanTeardown
  FlightsAreShared
  RenewedIsNotStale
  AddedStandsAlone
PROPERTIES
  ReplacedInOrder
  SlotsKeepTheirPromise
\* Every call may have returned: then nothing is left to do.
CHECK_DEADLOCK FALSE
