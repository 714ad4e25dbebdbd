SPECIFICATION MCSpec
CONSTANTS
  line = line
  circle = circle
  backwards = backwards
  StopPlaces <- MCPlaces
  Patterns <- MCPatterns
  Jobs = {j1, j2, j3}
  Contents <- MCContents
  PatternOf <- MCPatternOf
  Nothing = Nothing
  MaxTime = 4
SYMMETRY JobSymmetry
INVARIANT FailedRunsAreRecorded
CHECK_DEADLOCK FALSE
