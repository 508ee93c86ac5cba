\* comgr_destroy, with stimer_destroy stopping the timer thread, racing
\* running, sleeping and cosem-blocked coroutines.
\* After the last worker is off the manager has stopped for good, so a
\* state with no successor is the expected end, not a deadlock.  The
\* destroy must return under fair threads (no symmetry: liveness).
CONSTANTS
  NW = 2
  l1 = l1
  l2 = l2
  l3 = l3
  Lwts <- MCLwts2
  Durations = {1, 2}
  WithDestroy = TRUE
SPECIFICATION FairSpec
 
INVARIANT CosemRendezvous
INVARIANT FiniNotWhileWaiting
 
CHECK_DEADLOCK FALSE
