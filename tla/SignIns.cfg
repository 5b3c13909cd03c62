SPECIFICATION Spec
CONSTANTS
  r1 = r1
  r2 = r2
  r3 = r3
  r4 = r4
  ann = ann
  bob = bob
  phone1 = phone1
  phone2 = phone2
  main = main
  side = side
  None = None
  Requests <- MCRequests
  Users = {ann, bob}
  Phones = {phone1, phone2}
  Wallets = {main, side}
  AddressOf <- MCAddressOf
  Seeds <- MCSeeds
  Calls <- MCCalls
  Configs <- MCConfigs
  CodeLife = 1
  Allowed = 1
  Interval = 1
  MaxTime = 2
SYMMETRY Symmetric
CHECK_DEADLOCK FALSE
INVARIANTS
  TypeOK
  
  AccountsStayUsable
