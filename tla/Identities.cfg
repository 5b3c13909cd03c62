SPECIFICATION Spec
CONSTANTS
  r1 = r1
  r2 = r2
  r3 = r3
  r4 = r4
  ann = ann
  bob = bob
  email1 = email1
  email2 = email2
  email3 = email3
  name1 = name1
  name2 = name2
  home = home
  work = work
  here = here
  there = there
  google = google
  github = github
  gina = gina
  hugo = hugo
  okta = okta
  iss1 = iss1
  iss2 = iss2
  corp = corp
  org1 = org1
  None = None
  Requests <- MCRequests
  Users = {ann, bob}
  Emails = {email1, email2, email3}
  Names = {name1, name2}
  Browsers = {home, work}
  Addresses = {here, there}
  Providers = {google, github}
  TrustedProviders = {google}
  ExplicitOnly = {github}
  Assertions <- MCAssertions
  Skew = 0
  Subjects = {gina, hugo}
  Profile <- MCProfile
  Connections = {okta}
  Issuers = {iss1, iss2}
  Domains = {corp}
  DomainOf <- MCDomainOf
  Orgs = {org1}
  Seeds <- MCSeeds
  Jars <- MCJars
  Calls <- MCCalls
  Configs <- MCConfigs
  StateLife = 1
  PayloadLife = 0
  BanLife = 0
  MaxList = 2
SYMMETRY Symmetric
CHECK_DEADLOCK FALSE
INVARIANTS
  TypeOK
  
  DirectoryIsSound
