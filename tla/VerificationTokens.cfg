SPECIFICATION FairSpec
CONSTANTS
  t1 = t1
  t2 = t2
  r1 = r1
  r2 = r2
  known = known
  new = new
  NoRow = NoRow
  Tokens <- MCTokens
  Requests <- MCRequests
  Emails <- MCEmails
  Registered <- MCRegistered
  Configs <- MCConfigs
  TokenTTL = 1
  SessionTTL = 1
  MaxTime = 2
CHECK_DEADLOCK FALSE
INVARIANTS
  TypeOK
  RedeemedAtMostOnce
  EffectsWereGranted
PROPERTIES
  ImplementsSingleUse
  RedemptionsEndWell
