\* Two threads allocating and freeing elements of a pool of 5 elements
\* over 2 sub-bitmaps (2 + 3 bits); MAX_WAIT 4 keeps two passes of the back-off (1 and 2 ms)
\* instead of the code's ten, enough for a pass to fail and be retried.
\* The layout is checked for pools of 1 to 20000 elements (up to 64
\* sub-bitmaps of 256 bits or more).
CONSTANTS
  RECOMMEND_BITS = 4
  MAX_CPUS = 64
  MIN_WAIT = 1
  MAX_WAIT = 4
  FixSize = 8
  Count = 5
  Cpu = 2
  Threads <- MCThreads
  t1 = t1
  t2 = t2
  MaxCount = 20000
SPECIFICATION Spec
INVARIANT TypeOK
INVARIANT BlockExclusive
INVARIANT LayoutFreeInvertsMalloc
INVARIANT UsedAccounting
PROPERTY NullOnlyOnExhaustion
