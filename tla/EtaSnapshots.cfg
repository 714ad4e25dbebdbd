SPECIFICATION Spec
CONSTANTS
  v1 = v1
  v2 = v2
  t1 = t1
  t2 = t2
  Vehicles <- MCVehicles
  Trips <- MCTrips
  TripsOf <- MCTripsOf
  NoTrip = NoTrip
  NoSnapshot = NoSnapshot
  Measurable <- MCMeasurable
  Indexed <- MCTrips
  Window = 2
  StateFresh = 1
  PlannedFresh = 0
  MaxAge = 3
  MaxLag = 1
INVARIANTS
  TypeOK
  OneRefreshPerWindow
PROPERTIES
  CommitServesMatched
  MatchedVehiclesAreShown
