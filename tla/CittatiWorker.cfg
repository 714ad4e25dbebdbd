SPECIFICATION Spec
CONSTANTS
  RetryInitial = 1
  RetryMax = 3
  MaxDay = 2
  MaxTrouble = 4
  MaxFailures = 3
INVARIANTS
  TypeOK
  BackoffFollowsStreak
  CorrelatesWithItsDate
  GoodCyclesAreWhole
PROPERTIES
  Recovers
  StopsWhenAsked
CHECK_DEADLOCK FALSE
