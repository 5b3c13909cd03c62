SPECIFICATION FairSpec
CONSTANTS
  r1 = r1
  r2 = r2
  r3 = r3
  r4 = r4
  w1 = w1
  w2 = w2
  ann = ann
  bob = bob
  here = here
  None = None
  Requests <- MCRequests
  Workers <- MCWorkers
  Users <- MCUsers
  Admins <- MCAdmins
  Addresses <- MCAddresses
  InitPlugins <- MCInitPlugins
  Rules <- MCRules
  SessionTTL = 0
  Calls <- MCCalls
  Configs <- MCConfigs
CONSTRAINT ArriveInOrder
CHECK_DEADLOCK FALSE
INVARIANTS
  TypeOK
  QuotasHold
  EffectsAreScreened
PROPERTIES
  RequestsSettle
