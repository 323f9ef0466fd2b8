SPECIFICATION Spec
CONSTANTS
  Rows <- Three
  Procs = {q1, q2}
  MaxRequests = 2
  EvoltDB = TRUE
  Statuses = {available, charging}
  Absent = absent
  Jobs = {locations_pull, tariffs_pull}
  NoJob = none
SYMMETRY Symmetry
INVARIANTS TypeOK MismatchExplained SweepComplete RotationShown StatusReaches BatchCollected
