\* cosem_sleep(0) in a polling loop: the other sleepers are never woken.
CONSTANTS
  NW = 2
  l1 = l1
  l2 = l2
  l3 = l3
  Lwts <- MCLwts2
  Durations = {0, 1}
  WithDestroy = FALSE
SPECIFICATION FairSpec
PROPERTIES
  SuspendedResumes
