CONSTANTS
  BufferSize = 4
  HeaderLength = 1
  MaxRequestSize = 20
  SeqRange = 8
  WordRange = 64
  Now = 100
  EXPTIME_OFFSET = 30
  k = k
  j = j
  Keys = {k, j}
  Calls <- CalmCalls
  MultiKeys <- TwoKeys
  Clients = {c1}
  TxThreads = {t1, t2}
  ValueLength = 2
  RidRange = 8
  Rids = {0}
  Seqs = {0}
  Lossy = FALSE
  Reorder = TRUE
  Timeouts = FALSE
  TooLong = FALSE
  MayRunOut = FALSE
  MaxCopies = 0
  MaxCalls = 4
  MaxSockets = 1
SPECIFICATION FairSpec
INVARIANTS MultiAnswersAll
PROPERTIES CallsAnswered
CHECK_DEADLOCK FALSE
