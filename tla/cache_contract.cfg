CONSTANTS
  ArenaSize = 24
  EntrySize = 2
  ALIGNMENT = 2
  HEAP_ALLOC_BITS = 6
  HEAP_ALLOC_SLOTS = 2
  ka = ka
  kb = kb
  kc = kc
  kz = kz
  Garbled = Garbled
  Keys = {ka, kb}
  Bins = {0, 1}
  HashOf <- MCHashOf
  KeyLength = 1
  HeaderSize = 2
  Data <- ShortLong
  Base = 2
  UINT64_STRING_LENGTH = 3
  Numbers = {1}
  EXPTIME_OFFSET = 2
  Expirations = {1}
  Ops <- ExactOps
  MaxTime = 2
  MaxCas = 3
SPECIFICATION Spec
CHECK_DEADLOCK FALSE
PROPERTIES KeepsContract StampNamesContent StaleOnlyAfterPause
SYMMETRY Colliding
