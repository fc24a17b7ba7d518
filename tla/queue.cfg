CONSTANTS
  Length = 4
  CursorRange = 8
  NoItem = NoItem
  Items = {x, y}
  Takers = {t1, t2, t3}
SPECIFICATION FairSpec
INVARIANTS TypeOK NoLostWakeup
PROPERTIES ImplementsFifo
CHECK_DEADLOCK FALSE
