SPECIFICATION Spec
CONSTANTS
  Keys = {k1}
  Requests = {r1, r2, r3}
  Operators = {anna, bruno}
  Reasons = {breakdown}
  NoReason = NoReason
  NoRow = NoRow
  MaxGeneration = 0
INVARIANT
  RowNamesTheActor
CHECK_DEADLOCK FALSE
