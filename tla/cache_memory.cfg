CONSTANTS
  ArenaSize = 28
  EntrySize = 2
  ALIGNMENT = 2
  HEAP_ALLOC_BITS = 3
  HEAP_ALLOC_SLOTS = 2
  ka = ka
  kb = kb
  kc = kc
  kz = kz
  Garbled = Garbled
  Keys = {ka, kb, kc, kz}
  Bins = {0, 1}
  HashOf <- MCHashOf
  KeyLength = 1
  HeaderSize = 1
  Data <- EmptyLong
  Base = 2
  UINT64_STRING_LENGTH = 3
  Numbers = {1}
  EXPTIME_OFFSET = 0
  Expirations = {1}
  Ops <- AllOps
  MaxTime = 2
  MaxCas = 3
SPECIFICATION Spec
CHECK_DEADLOCK FALSE
INVARIANTS TypeOK ChainsSound ItemsInTheirBlocks
PROPERTIES OthersKept LeaksWhere
SYMMETRY Colliding
VIEW AllButAnswer
