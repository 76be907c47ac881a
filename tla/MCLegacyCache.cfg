SPECIFICATION SteadySpec
CONSTANTS
  v1 = v1
  v2 = v2
  Addr <- Reached
  RamSize = 7
  Value <- Values
  RamImage <- Striped
  RamId = {0}
  DelayMod = 2
  RetryCap = 1
  Timer = {0}
  TimerMode <- OneTimer
  SoftInt = {}
  Saved <- Tasks
  Tags = 2
  Lines = 1
  LineWords = 2
  Ivt <- FirstWord
INVARIANTS CacheTypeOK WrittenBack FillInOrder ReadsMatch
PROPERTIES ImplementsBus InterruptEnds
CHECK_DEADLOCK FALSE
VIEW Live
CONSTRAINTS Healthy NearImage
