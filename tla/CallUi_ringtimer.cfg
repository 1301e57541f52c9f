CONSTANTS
  MaxOps = 2
  MaxMain = 1
  MaxIntents = 1
SPECIFICATION Spec
PROPERTY DialledCallNotTimedOut
