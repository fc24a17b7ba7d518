CONSTANTS
  Threads = {t1, t2}
  Packets = {p1, p2, p3, p4}
  PreAlloc = {p1, p2}
  NULL = NULL
SPECIFICATION Spec
INVARIANTS TypeOK InOnePlace DeletesItsOwn
CHECK_DEADLOCK FALSE
