SPECIFICATION FairSpec
CONSTANTS
  r1 = r1
  r2 = r2
  r3 = r3
  r4 = r4
  None = None
  Requests <- MCRequests
  Configs <- MCConfigs
  Allowed = 1
  CodeTTL = 0
  MaxTime = 1
CONSTRAINT ArriveInOrder
CHECK_DEADLOCK FALSE
INVARIANTS
  TypeOK
PROPERTIES
  
  ResetCompletes
