SPECIFICATION Spec
CONSTANTS
  Procs = {p1}
  MaxRequests = 4
  MayLoseReply = TRUE
  MayCancel = TRUE
  StrictCallback = FALSE
INVARIANT WholePair
