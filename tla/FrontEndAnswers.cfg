SPECIFICATION Spec
CONSTANTS
  None = None
  c1 = c1
  c2 = c2
  Calls = {c1, c2}
  UnknownCalls = {}
  MaxFaults = 0
INVARIANTS
  OwnOutcome
CHECK_DEADLOCK FALSE
