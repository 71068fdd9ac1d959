SPECIFICATION SchedulerSpec
CONSTANTS
  Problems <- MCProblems
  Slot = 2
  Day = 10
  Earliest = 1
  Latest = 9
  Break = 1
  MaxCandidates = 12
  Hour = 1
  Weights <- MCWeights
INVARIANTS
  ScheduleKeepsRules
  NothingLeftOut
CHECK_DEADLOCK FALSE
