SPECIFICATION Spec
CONSTANTS
  MaxRuns = 3
  Requests = {r1, r2}
SYMMETRY Symmetry
INVARIANTS
  TypeOK
  PageIsSnapshot
  SecondOnlyByRaceOrLoss
  OpenLeadsOn
CHECK_DEADLOCK FALSE
