\* Two allocators pass the alloc_count < scale test together: can alloc_count exceed scale?
CONSTANTS
  i1 = i1
  i2 = i2
  i3 = i3
  k1 = k1
  k2 = k2
  c1 = c1
  c2 = c2
  Items <- MCItems3
  Keys <- MCKeys
  Callers <- MCCallers
  Sweeper = Sweeper
  Scale = 2
  MaxPinned = 1
  MC_RETRY = 3
  NB <- MCNB
  HashOf <- MCHashOf
SPECIFICATION Spec
SYMMETRY Symmetry3
INVARIANTS
  AllocBound
