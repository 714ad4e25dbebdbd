SPECIFICATION FairSpec
CONSTANTS
  Keys = {k1}
  Requests = {r1, r2, r3}
  Operators = {anna}
  Reasons = {breakdown}
  NoReason = NoReason
  NoRow = NoRow
  MaxGeneration = 0
PROPERTY
  FinalDecisionStands
CHECK_DEADLOCK FALSE
