SPECIFICATION HistoryFairSpec
CONSTANTS
  Device <- Machine
  Root = "system"
  Children <- MachineChildren
  Period <- MachinePeriod
  CounterMod = 7
INVARIANTS TypeOK WalkIsPath NeverLate
PROPERTIES PostOrder KeepsExecuting
