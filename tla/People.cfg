SPECIFICATION AllSpec
CONSTANTS
  None = None
  Upstreams <- TwoUpstreams
  People <- ThreePeople
  EmailKey <- Keyed
  Kept <- OldRows
  Calls <- SomeCalls
  Depth = 3
  Users = {u1, u2}
  Nobody = Nobody
  MaxFlows = 2
  MaxRemovals = 1
  MaxRestarts = 1
  Founder = Founder
  Persons = {Founder, p1}
  AdminRole = AdminRole
  MemberRole = MemberRole
  Names = {AdminRole, MemberRole, other}
  Labels = {label}
  Nothing = Nothing
  Ops = {o1, o2, o3}
  MaxSeats = 2
  MaxFailures = 1
  InviteMeanwhile = FALSE
SYMMETRY Symmetry
INVARIANTS
  FlowsStayApart
  MembersAgree
PROPERTIES
  SignInsAreKept
  StoresKeepTheirWord
CHECK_DEADLOCK FALSE
