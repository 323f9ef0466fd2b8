SPECIFICATION Spec
CONSTANTS
  p1 = p1
  p2 = p2
  u1 = u1
  u2 = u2
  Procs = {p1, p2}
  Locations <- OwnLocations
  Tariffs <- OwnTariffs
  Base <- FileObjects
  Parts = {u1, u2}
  MaxTime = 2
  MaxRequests = 2
  MayFail = FALSE
SYMMETRY Slots
PROPERTY NoDrift
