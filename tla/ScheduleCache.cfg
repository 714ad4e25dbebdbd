SPECIFICATION Spec
CONSTANTS
  Requests = {r1, r2, r3}
  Empty = Empty
  TTL = 2
  DayLength = 3
  MaxTime = 5
INVARIANTS
  AnswersAreOfTheirTime
PROPERTIES
  EveryRequestEnds
CHECK_DEADLOCK FALSE
