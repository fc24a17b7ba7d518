CONSTANTS
  N = 1
  MaxDatagrams = 1
  Kinds = {"short", "refused", "part", "async", "sync", "version"}
  NULL = NULL
SPECIFICATION Spec
INVARIANTS NothingLeaks
CHECK_DEADLOCK FALSE
