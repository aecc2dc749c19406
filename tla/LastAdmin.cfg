SPECIFICATION AllSpec
CONSTANTS
  None = None
  Upstreams <- TwoUpstreams
  People <- ThreePeople
  EmailKey <- Keyed
  Kept <- OldRows
  Calls <- SomeCalls
  Depth = 0
  Users = {u1}
  Nobody = Nobody
  MaxFlows = 0
  MaxRemovals = 0
  MaxRestarts = 0
  Founder = Founder
  Persons = {Founder, p1, p2}
  AdminRole = AdminRole
  MemberRole = MemberRole
  Names = {AdminRole, MemberRole, other}
  Labels = {}
  Nothing = Nothing
  Ops = {o1, o2, o3}
  MaxSeats = 3
  MaxFailures = 0
  InviteMeanwhile = FALSE
SYMMETRY Symmetry
INVARIANT
  AnAdminStays
CHECK_DEADLOCK FALSE
