SPECIFICATION Spec
CONSTANTS
  Procs = {p1}
  MaxRequests = 4
  MayLoseReply = FALSE
  MayCancel = FALSE
  StrictCallback = FALSE
PROPERTY PendingIsRefused
