CONSTANTS
  MaxOps = 2
  MaxMain = 1
  MaxIntents = 1
SPECIFICATION FairSpec
INVARIANTS TypeOK ScreenSettles HangUpAtHand TalkingHasCallAudio RingIsTimed SoundHasCall
PROPERTIES RingingEnds SoundStops
