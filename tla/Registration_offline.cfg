CONSTANTS
  Clients = {1, 2}
  Contacts = {k1, k2}
  NoClient = NoClient
  MaxOut = 2
  MaxOps = 1
  MayFailAtOnce = TRUE
  ReregisterOverlaps = FALSE
SPECIFICATION FairSpec
PROPERTY RegistrationRecovers
CHECK_DEADLOCK FALSE
