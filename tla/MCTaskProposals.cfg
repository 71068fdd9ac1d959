SPECIFICATION Spec
CONSTANTS
  MaxProposals = 1
  MaxDrafts = 2
  Manual = {m1}
  Works = {w1, w2}
  Alike <- MCAlike
  NoWork = NoWork
  Requests = {r1, r2}
SYMMETRY Symmetry
INVARIANTS
  TypeOK
  TasksAreAccepted
  OnlyLossStrands
CHECK_DEADLOCK FALSE
