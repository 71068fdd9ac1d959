SPECIFICATION Spec
CONSTANTS
  Actions = {a1, a2}
  Contents = {c1, c2}
  Destinations = {d1, d2}
  NoPayload = NoPayload
  NoRequest = NoRequest
  Sessions = {s1, s2}
SYMMETRY Symmetry
INVARIANTS
  TypeOK
  RunFollowsDecisions
  AwaitingIsDecidable
  ApprovedIsWhatWasProposed
PROPERTY DecisionsAreFinal
CHECK_DEADLOCK FALSE
