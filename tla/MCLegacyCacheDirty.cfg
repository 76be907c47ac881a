SPECIFICATION SteadySpec
CONSTANTS
  v1 = v1
  v2 = v2
  Addr <- Reached
  RamSize = 3
  Value <- Values
  RamImage <- Striped
  RamId = {0}
  DelayMod = 2
  RetryCap = 1
  Timer = {}
  TimerMode <- NoTimer
  SoftInt = {}
  Saved <- Tasks
  Tags = 1
  Lines = 2
  LineWords = 1
  Ivt <- FirstWord
PROPERTIES DirtyLeavesByDetour
CHECK_DEADLOCK FALSE
