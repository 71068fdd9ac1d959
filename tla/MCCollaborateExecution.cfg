SPECIFICATION Spec
CONSTANTS
  Actions = {a1, a2}
  Shared = {a2}
  NoAction = NoAction
  Sessions = {s1, s2}
  NoSession = NoSession
SYMMETRY Symmetry
INVARIANTS
  TypeOK
  RecordsAreTrue
  SomeoneCanMove
PROPERTIES
  EndedIsFinal
  ImplementsEffect
CHECK_DEADLOCK FALSE
