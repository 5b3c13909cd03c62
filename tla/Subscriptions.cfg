SPECIFICATION Spec
CONSTANTS
  r1 = r1
  r2 = r2
  r3 = r3
  r4 = r4
  ann = ann
  bob = bob
  org = org
  held = held
  None = None
  Requests <- MCRequests
  Users = {ann, bob}
  Orgs = {org}
  MayActFor <- MCMayActFor
  Plans = {"solo", "team"}
  SeatPlan = "team"
  Seeds <- MCSeeds
  Calls <- MCCalls
  Configs <- MCConfigs
  MaxEvents = 8
SYMMETRY Symmetric
CHECK_DEADLOCK FALSE
INVARIANTS
  TypeOK
  
  TrialedOnce
