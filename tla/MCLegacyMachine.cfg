SPECIFICATION MachineFairSpec
CONSTANTS
  v1 = v1
  v2 = v2
  RamPeriod = 2
  CpuPeriod = 1
  BoardPeriod = 1
  TimerPeriod = 1
  Addr <- TwoCells
  RamSize = 2
  Value <- Values
  RamImage <- AnyImage
  RamId = {0}
  DelayMod = 2
  RetryCap = 1
  Timer = {0}
  TimerMode <- Watchdog
  SoftInt = {}
  Saved <- Tasks
  RamFirst = FALSE
  Period <- Periods
  CounterMod = 2
  Limit <- Limits
  TimerMod = 4
PROPERTIES OnlyReadsRejected ImplementsMemory ReadsReturn BusStaysFair ImplementsExecute
