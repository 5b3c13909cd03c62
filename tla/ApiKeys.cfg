SPECIFICATION Spec
CONSTANTS
  r1 = r1
  r2 = r2
  r3 = r3
  r4 = r4
  ann = ann
  bob = bob
  org = org
  metered = metered
  plain = plain
  shared = shared
  None = None
  Requests <- MCRequests
  Users = {ann, bob}
  Org = org
  OrgManagers = {bob}
  SeedKeys <- MCSeedKeys
  Calls <- MCCalls
  Configs <- MCConfigs
  HitWindow = 2
  HitMax = 1
  KeyMax = 2
  KeyWindow = 1
  MaxTime = 3
SYMMETRY Symmetric
CHECK_DEADLOCK FALSE
INVARIANTS
  TypeOK
  LimitsHold
PROPERTIES
  KeysGoAndAreGone
