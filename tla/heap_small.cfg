CONSTANTS
  ArenaSize = 44
  EntrySize = 2
  ALIGNMENT = 2
  HEAP_ALLOC_BITS = 4
  HEAP_ALLOC_SLOTS = 2
  Requests <- SmallRequests
SPECIFICATION Spec
INVARIANTS TypeOK Exclusive NotHandedOutTwice RefusedOnlyWhenFull
CHECK_DEADLOCK FALSE
