SPECIFICATION PairingSpec
CONSTANTS
  Procs = {p1}
  MaxRequests = 5
  MayLoseReply = TRUE
  MayCancel = FALSE
  StrictCallback = FALSE
INVARIANTS TokensDie WholePair SingleRow CallbackAuthenticates
PROPERTY ImplementsPairing
