\* Scheduling, sleep and cosem paths of two coroutines on two workers, with
\* the stimer thread driving the tick, in normal operation (no
\* comgr_destroy): safety, and liveness under fair workers, timer and
\* posters (no symmetry: liveness checking cannot use it).
CONSTANTS
  NW = 2
  l1 = l1
  l2 = l2
  l3 = l3
  Lwts <- MCLwts2
  Durations = {1, 2}
  WithDestroy = FALSE
SPECIFICATION FairSpec
INVARIANT TypeOK
INVARIANT LwtPlacement
INVARIANT SleeperDeltaEncoding
INVARIANT CosemRendezvous
PROPERTY SuspendedResumes
PROPERTY SchedulerContract
