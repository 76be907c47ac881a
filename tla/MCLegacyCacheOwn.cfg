SPECIFICATION SteadySpec
CONSTANTS
  v1 = v1
  v2 = v2
  Addr <- Reached
  RamSize = 3
  Value <- Values
  RamImage <- Striped
  RamId = {0}
  DelayMod = 2
  RetryCap = 1
  Timer = {}
  TimerMode <- NoTimer
  SoftInt = {}
  Saved <- Tasks
  Tags = 2
  Lines = 1
  LineWords = 1
  Ivt <- FirstWord
INVARIANTS HoldsOwnWords
CHECK_DEADLOCK FALSE
