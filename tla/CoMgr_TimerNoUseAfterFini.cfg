\* comgr_destroy racing the stimer thread: _sleeper_fini reads idle
\* without the mutex, so it can destroy the sleeper between the thread's
\* is_run check and its pthread_mutex_lock.
CONSTANTS
  NW = 2
  l1 = l1
  l2 = l2
  l3 = l3
  Lwts <- MCLwts2
  Durations = {1, 2}
  WithDestroy = TRUE
SPECIFICATION Spec
SYMMETRY Symmetry2
INVARIANT TimerNoUseAfterFini
CHECK_DEADLOCK FALSE
