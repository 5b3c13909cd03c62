SPECIFICATION Spec
CONSTANTS
  r1 = r1
  r2 = r2
  r3 = r3
  r4 = r4
  g0 = g0
  g1 = g1
  app = app
  site = site
  s1 = s1
  s2 = s2
  ann = ann
  ben = ben
  None = None
  Requests <- MCRequests
  Grants <- MCGrants
  Old <- MCOld
  OldClient <- MCOldClient
  OldSession <- MCOldSession
  Clients <- MCClients
  Sessions <- MCSessions
  Users <- MCUsers
  UserOf <- MCUserOf
  Scopes <- MCScopes
  Configs <- MCConfigs
  CodeTTL = 0
  RefreshTTL = 0
  AccessTTL = 1
  SessionTTL = 1
  TokenTTL = 1
  RotationInterval = 1
  GracePeriod = 1
  Epoch = 2
CONSTRAINT ArriveInOrder
CHECK_DEADLOCK FALSE
INVARIANTS
  TypeOK
  TokensKeepToGrants
  KeysOutliveTokens
PROPERTIES
  ClientsKeepToTheirOwn
