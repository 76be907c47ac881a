SPECIFICATION MachineSpec
CONSTANTS
  v1 = v1
  v2 = v2
  RamPeriod = 4
  CpuPeriod = 1
  BoardPeriod = 1
  TimerPeriod = 5
  Addr <- TwoCells
  RamSize = 2
  Value <- Values
  RamImage <- AnyImage
  RamId = {0}
  DelayMod = 2
  RetryCap = 1
  Timer = {0}
  TimerMode <- OneShotTimer
  SoftInt = {}
  Saved <- AnyStatus
  RamFirst = TRUE
  Period <- Periods
  CounterMod = 20
  Limit <- Limits
  TimerMod = 4
PROPERTIES OwnAnswer
