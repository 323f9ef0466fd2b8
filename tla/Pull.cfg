SPECIFICATION Spec
CONSTANTS
  Objects = {1, 2, 3, 4}
  Listed <- FirstList
  Broken = {2}
  PageLimit = 2
  MaxPages = 2
  Caps = {0, 1, 2}
  MaxChanges = 2
  MaxPulls = 2
  MayFail = TRUE
INVARIANTS TypeOK WithinCap ListCopied NoGhost
PROPERTY PullEnds
