SPECIFICATION Spec
CONSTANTS
  Procs = {p1, p2}
  MaxRequests = 3
  MayLoseReply = TRUE
  MayCancel = TRUE
  StrictCallback = FALSE
SYMMETRY Slots
INVARIANTS TypeOK TokenUnique RegisteredComplete
