SPECIFICATION PollSpec
CONSTANTS
  Procs = {q1, q2}
  Callers = {c1, c2}
  NoCaller = NoCaller
  Burst = 2
  Rate = 1
  Cost = 2
  MaxBuckets = 1
  MaxAge = 4
  MaxWait = 1
  MaxTime = 6
  Fresh = 3
  Timeout = 1
SYMMETRY Symmetry
INVARIANTS TypeOK WithinRate OneProbe
PROPERTY OldOnlyWhileProbing
