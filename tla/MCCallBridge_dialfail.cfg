CONSTANTS
  c1 = c1  c2 = c2  c3 = c3
  NoCall = NoCall
  Calls <- TwoCalls
  Requests <- LineRequests
  MaxPosted = 1
  CallWaiting = FALSE
  DialMayFailLate = TRUE
  SpawnMayFail = FALSE
SPECIFICATION Spec
INVARIANT NoUseAfterFree
CHECK_DEADLOCK FALSE
