SPECIFICATION FairSpec
CONSTANTS
  r1 = r1
  r2 = r2
  ann = ann
  bob = bob
  annEmail = annEmail
  bobEmail = bobEmail
  freeEmail = freeEmail
  None = None
  Requests <- MCRequests
  Founders <- MCFounders
  Emails <- MCEmails
  FounderEmail <- MCFounderEmail
  Configs <- MCConfigs
  SessionTTL = 0
  MaxTime = 1
CHECK_DEADLOCK FALSE
INVARIANTS
  TypeOK
  RowsAreSound
PROPERTIES
  SessionsEndForGood
  DeletionCompletes
