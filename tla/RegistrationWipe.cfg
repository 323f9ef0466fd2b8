SPECIFICATION Spec
CONSTANTS
  Procs = {p1, p2}
  MaxRequests = 4
  MayLoseReply = FALSE
  MayCancel = FALSE
  StrictCallback = FALSE
INVARIANT TokensDie
