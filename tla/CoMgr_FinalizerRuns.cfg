\* A coroutine resumed with ret -1 at shutdown returns: is its finalizer called?
CONSTANTS
  NW = 2
  l1 = l1
  l2 = l2
  l3 = l3
  Lwts <- MCLwts2
  Durations = {1, 2}
  WithDestroy = TRUE
SPECIFICATION Spec
SYMMETRY Symmetry2
INVARIANTS
  FinalizerRuns
CHECK_DEADLOCK FALSE
