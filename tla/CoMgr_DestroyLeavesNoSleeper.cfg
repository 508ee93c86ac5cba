\* Once every worker is off, is any coroutine left on the sleeper list?
CONSTANTS
  NW = 2
  l1 = l1
  l2 = l2
  l3 = l3
  Lwts <- MCLwts2
  Durations = {1, 2}
  WithDestroy = TRUE
SPECIFICATION Spec
SYMMETRY Symmetry2
INVARIANTS
  DestroyLeavesNoSleeper
CHECK_DEADLOCK FALSE
