CONSTANTS
  BufferSize = 12
  HeaderLength = 4
  ByteRange = 8
  Size32 = 2
  Size64 = 4
  MaxRequestSize = 12
  SeqRange = 8
  long = long
  short = short
  again = again
  Threads = {t1}
  Messages = {long, short, again}
  Rid <- SharedRid
  Seq0 <- MCSeq0
  Asked <- SmallAsked
  Reorder = TRUE
  Lossy = TRUE
  MaxCopies = 1
SPECIFICATION Spec
INVARIANTS TypeOK ServesWholeRequests OnePlace MemorySafe FailureHasCause ServedAsWritten
CHECK_DEADLOCK FALSE
