SPECIFICATION Spec
CONSTANTS
  r1 = r1
  r2 = r2
  r3 = r3
  r4 = r4
  ann = ann
  bob = bob
  eve = eve
  auditor = auditor
  acme = acme
  other = other
  HomeOrg = home
  CustomRole = auditor
  HomeSlug = acme
  None = None
  Requests <- MCRequests
  Users <- MCUsers
  HomeRoles <- MCHomeRoles
  Names <- MCNames
  Invited = {eve}
  Calls <- MCCalls
  Configs <- MCConfigs
  InvitationTTL = 0
  MaxTime = 1
SYMMETRY Symmetric
CHECK_DEADLOCK FALSE
INVARIANTS
  TypeOK
  OwnersRemain
  MembershipIsEarned
  NothingLeftBehind
