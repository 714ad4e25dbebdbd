SPECIFICATION MCSpec
CONSTANTS
  Keys = {k1, k2}
  WindowTicks = 2
  SlotsPerDay = 1
  Life = 3
  Lookback = 2
  MaxLag = 1
  MaxPending = 4
  FirstDay = 3
  MaxTime = 6
  NoRow = NoRow
  Measurements <- MCMeasurements
  Hour = 3
  MaxBatch = 3
  SlotLength = 2
  SlotsOfDay = 3
  FirstWeekday = 4
  Offsets <- MCOffsets
  LiveMaxAge = 3
  Loaded <- MCLoaded
  LiveRows <- MCLiveRows
  Profiles <- MCProfiles
  Traversals <- MCTraversals
SYMMETRY KeySymmetry
INVARIANTS
  TypeOK
  MissingRowsAreOlder
  LiveMirrorsDaily
  CatalogAgreesWithQuery
  NewPaceIsLearned
PROPERTIES
  DailyRowsNeverShrink
  ProfilesCountEveryDay
CHECK_DEADLOCK FALSE
