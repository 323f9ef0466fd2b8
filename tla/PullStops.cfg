SPECIFICATION Spec
CONSTANTS
  Objects = {1, 2, 3, 4}
  Listed <- FirstList
  Broken = {2}
  PageLimit = 2
  MaxPages = 3
  Caps = {0, 1, 2}
  MaxChanges = 1
  MaxPulls = 2
  MayFail = FALSE
INVARIANT StopsForAReason
