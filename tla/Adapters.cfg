SPECIFICATION Spec
CONSTANTS
  MaxRows = 3
  MaxTime = 1
  NoValue = None
  None = None
  Pending = Pending
  Revoked = Revoked
  ann = ann
  joanna = joanna
  one = one
  u1 = u1
  Texts <- MCTexts
  Number <- MCNumber
  Sealed <- MCSealed
  Parts <- MCParts
  Core <- MCCore
  Configs <- MCConfigs
  Created <- MCCreated
  Patches <- MCPatches
CONSTRAINT Explored
INVARIANTS
  TypeOK
  
