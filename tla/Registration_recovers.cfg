CONSTANTS
  Clients = {1, 2}
  Contacts = {k1, k2}
  NoClient = NoClient
  MaxOut = 2
  MaxOps = 2
  MayFailAtOnce = FALSE
  ReregisterOverlaps = FALSE
SPECIFICATION FairSpec
INVARIANTS TypeOK NoStall RegisteredIsReal NoFreedClientAnswered
PROPERTIES RegistrationRecovers OldClientsGo
CHECK_DEADLOCK FALSE
