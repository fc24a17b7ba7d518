CONSTANTS
  N = 2
  MaxDatagrams = 2
  Kinds = {"short", "refused", "part", "async", "sync", "version"}
  NULL = NULL
SPECIFICATION FairSpec
INVARIANTS TypeOK Accounted
PROPERTIES NothingRunsAfterReturn StopEnds TxThreadsEnd
CHECK_DEADLOCK FALSE
