SPECIFICATION Spec
CONSTANTS
  u1 = u1
  u2 = u2
  c1 = c1
  Procs = {p1, p2}
  Evses = {u1, u2}
  Connectors = {c1}
  MaxTime = 2
  MaxRequests = 3
  Bodies <- SampleBodies
  MayFail = TRUE
SYMMETRY Slots
INVARIANTS TypeOK SplitComplete ParentCovers
