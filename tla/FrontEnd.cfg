SPECIFICATION FairSpec
CONSTANTS
  None = None
  c1 = c1
  c2 = c2
  c3 = c3
  Calls = {c1, c2, c3}
  UnknownCalls = {c3}
  MaxFaults = 3
INVARIANTS
  TypeOK
  HandledInOrder
  AnswersAddUp
  RefusalIsFinal
PROPERTIES
  WorkedOff
CHECK_DEADLOCK FALSE
