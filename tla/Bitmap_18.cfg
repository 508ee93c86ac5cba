\* 18 bits, slices of 4, words of 2: layers of 2, 5 and 18 bits, the last
\* slice of each layer partial.  Every sequence of allocbit and freebit.
CONSTANTS
  RECOMMEND_BITS = 4
  BMAP_U64_BITS = 2
  BMAP_MAX_LEVEL = 6
  BitCount = 18
SPECIFICATION Spec
INVARIANT TypeOK
INVARIANT LayerSummary
PROPERTY FlatSpec
