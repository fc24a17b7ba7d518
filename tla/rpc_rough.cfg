CONSTANTS
  BufferSize = 4
  HeaderLength = 1
  MaxRequestSize = 20
  SeqRange = 8
  WordRange = 64
  Now = 100
  EXPTIME_OFFSET = 30
  k = k
  j = j
  Keys = {k, j}
  Calls <- RoughCalls
  MultiKeys <- TwoKeys
  Clients = {c1}
  TxThreads = {t1}
  ValueLength = 6
  RidRange = 8
  Rids = {6}
  Seqs = {7}
  Lossy = TRUE
  Reorder = TRUE
  Timeouts = TRUE
  TooLong = TRUE
  MayRunOut = TRUE
  MaxCopies = 1
  MaxCalls = 2
  MaxSockets = 2
SPECIFICATION ClientFair
INVARIANTS TypeOK AnswerIsOwn
PROPERTIES AbortsWhere CallsReturn
CHECK_DEADLOCK FALSE
