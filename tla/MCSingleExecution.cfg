SPECIFICATION FairSpec
CONSTANTS
  Events = {e1, e2}
  Destinations = {d1, d2}
  NoDest = NoDest
  Sessions = {s1, s2}
  NoSession = NoSession
  NoExecution = NoExecution
  MaxPolls = 2
INVARIANTS
  TypeOK
  OneRequestPerKey
  WrittenAtMostOnce
  OutcomeMatchesRuntime
PROPERTIES
  EndedIsQuiet
  RequestsEnd
  ImplementsEffect
CHECK_DEADLOCK FALSE
