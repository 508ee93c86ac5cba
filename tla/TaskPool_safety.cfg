\* taskset_process with depth 4 and five jobs (one refetch after a DONE
\* job), job_handle submitting to a pool of two threads, fair (no
\* symmetry: liveness cannot use it).  A finished call with the pool
\* destroyed is a final state, so deadlock is not checked.
CONSTANTS
  Depth = 4
  NJobs = 5
  NT = 2
  Slots <- MCSlots
  Workers <- MCWorkers
  Main = Main
  s1 = s1
  s2 = s2
  s3 = s3
  s4 = s4
SPECIFICATION TPFairSpec
INVARIANT TPTypeOK
INVARIANT DepthCap
INVARIANT SingleRunner
INVARIANT NoUseAfterDestroy
INVARIANT TaskDoneOnce
INVARIANT DispatchedQueuedOnce
INVARIANT PoolFifo
PROPERTY TaskDoneEventually
PROPERTY PoolDestroyReturns
CHECK_DEADLOCK FALSE
