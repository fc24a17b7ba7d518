CONSTANTS
  ArenaSize = 4194304
  EntrySize = 16
  ALIGNMENT = 8
  HEAP_ALLOC_BITS = 20
  HEAP_ALLOC_SLOTS = 128
  Requests <- RealRequests
SPECIFICATION Spec
INVARIANTS NeverAborts
