CONSTANTS
  c1 = c1  c2 = c2  c3 = c3
  NoCall = NoCall
  Calls <- ThreeCalls
  Requests <- LineRequests
  MaxPosted = 1
  CallWaiting = TRUE
  DialMayFailLate = FALSE
  SpawnMayFail = FALSE
SPECIFICATION Spec
INVARIANT SingleLine
