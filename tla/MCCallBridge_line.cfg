CONSTANTS
  c1 = c1  c2 = c2  c3 = c3
  NoCall = NoCall
  Calls <- ThreeCalls
  Requests <- QuietRequests
  MaxPosted = 2
  CallWaiting = FALSE
  DialMayFailLate = FALSE
  SpawnMayFail = TRUE
SPECIFICATION Spec
INVARIANTS TypeOK NoUseAfterFree SingleLine ActiveMeansTalking
PROPERTY ImplementsPhoneLine
SYMMETRY CallSymmetry
