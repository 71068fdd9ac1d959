SPECIFICATION Spec
CONSTANTS
  LastSlot = 2
  Needs = {2}
  Calendars = {{0}}
  Requests = {r1, r2}
SYMMETRY Symmetry
PROPERTIES
  LocksKept
CHECK_DEADLOCK FALSE
