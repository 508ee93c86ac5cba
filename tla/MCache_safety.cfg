\* Two callers and the sweeper on a cache of scale 1 over two items, one
\* caller reference allowed: safety, and that every mc call returns
\* under fair callers and sweeper (no symmetry: liveness cannot use it).
CONSTANTS
  i1 = i1
  i2 = i2
  i3 = i3
  k1 = k1
  k2 = k2
  c1 = c1
  c2 = c2
  Items <- MCItems2
  Keys <- MCKeys
  Callers <- MCCallers
  Sweeper = Sweeper
  Scale = 1
  MaxPinned = 1
  MC_RETRY = 3
  NB <- MCNB
  HashOf <- MCHashOf
SPECIFICATION FairSpec
INVARIANT TypeOK
INVARIANT ItemExclusive
INVARIANT TotalKeysAccounting
INVARIANT GateExclusive
INVARIANT WakeupSafe
PROPERTY CallsReturn
PROPERTY BucketNewestFirst
PROPERTY CacheContract
