SPECIFICATION AllSpec
CONSTANTS
  None = None
  Upstreams <- TwoUpstreams
  People <- ThreePeople
  EmailKey <- Keyed
  Kept <- OldRows
  Calls <- SomeCalls
  Depth = 2
  Users = {u1, u2}
  Nobody = Nobody
  MaxFlows = 2
  MaxRemovals = 0
  MaxRestarts = 0
  Founder = Founder
  Persons = {Founder, p1}
  AdminRole = AdminRole
  MemberRole = MemberRole
  Names = {AdminRole, MemberRole, other}
  Labels = {label}
  Nothing = Nothing
  Ops = {o1, o2, o3}
  MaxSeats = 2
  MaxFailures = 0
  InviteMeanwhile = FALSE
INVARIANT
  HealthCountsExpired
CHECK_DEADLOCK FALSE
