SPECIFICATION FairSpec
CONSTANTS
  v1 = v1
  Addr <- TwoCells
  RamSize = 2
  Value <- OneValue
  RamImage <- AnyImage
  RamId = {0}
  DelayMod = 2
  RetryCap = 1
  Timer = {}
  TimerMode <- NoTimer
  SoftInt = {}
  Saved <- Tasks
PROPERTIES ResetOnTripleFault
CHECK_DEADLOCK FALSE
