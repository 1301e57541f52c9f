CONSTANTS
  Clients = {1, 2}
  Contacts = {k1, k2}
  NoClient = NoClient
  MaxOut = 2
  MaxOps = 2
  MayFailAtOnce = FALSE
  ReregisterOverlaps = TRUE
SPECIFICATION Spec
INVARIANT NoFreedClientAnswered
CHECK_DEADLOCK FALSE
