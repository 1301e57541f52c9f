CONSTANTS
  c1 = c1  c2 = c2  c3 = c3
  NoCall = NoCall
  Calls <- TwoCalls
  Requests <- AllRequests
  MaxPosted = 1
  CallWaiting = FALSE
  DialMayFailLate = TRUE
  SpawnMayFail = TRUE
SPECIFICATION FairSpec
INVARIANT FlagsAgree
PROPERTIES HangUpReachesCall WatchedCallEnds
CHECK_DEADLOCK FALSE
