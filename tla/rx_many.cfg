CONSTANTS
  BufferSize = 18
  HeaderLength = 4
  ByteRange = 8
  Size32 = 2
  Size64 = 4
  MaxRequestSize = 40
  SeqRange = 8
  long = long
  short = short
  again = again
  Threads = {t1, t2}
  Messages = {long, short, again}
  Rid <- OwnRid
  Seq0 <- MCSeq0
  Asked <- LargeAsked
  Reorder = TRUE
  Lossy = FALSE
  MaxCopies = 0
SPECIFICATION FairSpec
INVARIANTS ServedAsWritten OnePlace MemorySafe FailureHasCause
PROPERTIES ServedExactlyOnce
CHECK_DEADLOCK FALSE
