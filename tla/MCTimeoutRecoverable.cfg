SPECIFICATION Spec
CONSTANTS
  Events = {e1, e2}
  Destinations = {d1, d2}
  NoDest = NoDest
  Sessions = {s1, s2}
  NoSession = NoSession
  NoExecution = NoExecution
  MaxPolls = 1
PROPERTY TimeoutStaysRecoverable
CHECK_DEADLOCK FALSE
