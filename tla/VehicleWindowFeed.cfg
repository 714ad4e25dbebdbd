SPECIFICATION Spec
CONSTANTS
  a = a
  b = b
  NoTrip = NoTrip
  Nothing = Nothing
  Trips <- MCTrips
  Feeds = 2
  ShapeOf <- MCShapeOf
  Stops <- MCStops
  Nears <- MCNears
  MaxGap = 1
  Jitter = 1
  MaxTime = 6
INVARIANTS
  MeasurementsStorable
CHECK_DEADLOCK FALSE
