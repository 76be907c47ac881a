SPECIFICATION FairSpec
CONSTANTS
  v1 = v1
  Addr <- TwoCells
  RamSize = 1
  Value <- OneValue
  RamImage <- AnyImage
  RamId = {0, 255}
  DelayMod = 2
  RetryCap = 1
  Timer = {0}
  TimerMode <- OneTimerMode
  SoftInt = {}
  Saved <- AnyStatus
INVARIANTS TypeOK NoLostWakeup
PROPERTIES Wakes AccessEnds
CHECK_DEADLOCK FALSE
