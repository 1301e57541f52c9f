CONSTANTS
  Modulus = 16
  RxTimeout = 6
  Period = 2
  MaxGap = 13
  MayTear = FALSE
  ClockMayStep = FALSE
SPECIFICATION Spec
INVARIANTS TypeOK DeathDetected
PROPERTY NoFalseAlarm
