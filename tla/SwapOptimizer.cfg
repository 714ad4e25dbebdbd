SPECIFICATION Spec
CONSTANTS
  VehicleCount = 4
  Arrivals = {1, 2, 4}
  Departures = {0, 2, 4}
  EvaluatedAt = 1
  DelayThreshold = 1
  ProtectedWindow = 1
  MaxIdle = 2
  Infinity = 1000000
  NoPlan = NoPlan
INVARIANTS
  PotentialsFeasible
  PlanIsBest
  EveryGroupPays
  GroupsClosed
PROPERTY Terminates
CHECK_DEADLOCK FALSE
