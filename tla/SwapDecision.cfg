SPECIFICATION Spec
CONSTANTS
  Keys = {k1}
  Requests = {r1, r2, r3}
  Operators = {anna}
  Reasons = {breakdown}
  NoReason = NoReason
  NoRow = NoRow
  MaxGeneration = 1
INVARIANTS
  TypeOK
  AuditAgreesWithAnswers
  RowMirrorsLastEvent
  EventsLegalFromBasis
  SnapshotColumnsOrdered
PROPERTIES
  ImplementsLog
CHECK_DEADLOCK FALSE
