SPECIFICATION MachineSpec
CONSTANTS
  v1 = v1
  v2 = v2
  RamPeriod = 4
  CpuPeriod = 1
  BoardPeriod = 1
  TimerPeriod = 1
  Addr <- TwoCells
  RamSize = 2
  Value <- Values
  RamImage <- AnyImage
  RamId = {0}
  DelayMod = 2
  RetryCap = 1
  Timer = {}
  TimerMode <- NoTimer
  SoftInt = {}
  Saved <- AnyStatus
  RamFirst = FALSE
  Period <- Periods
  CounterMod = 4
  Limit <- Limits
  TimerMod = 4
PROPERTIES OnlyReadsRejected
