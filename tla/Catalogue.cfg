SPECIFICATION FeedSpec
CONSTANTS
  p1 = p1
  p2 = p2
  u1 = u1
  Procs = {p1, p2}
  Locations <- OwnLocations
  Tariffs <- OwnTariffs
  Base <- FileObjects
  Parts = {u1}
  MaxTime = 2
  MaxRequests = 3
  MayFail = TRUE
  DefaultLimit = 1
  MaxLimit = 2
  Limits = {0, 3}
  Bounds = {2, 3}
SYMMETRY Slots
INVARIANTS TypeOK CatalogueWhole BatchKept DatedOnce PartsCovered WalkExact NothingMissed
PROPERTY RestartKeeps
