SPECIFICATION Spec
CONSTANTS
  Sizes = {0, 2, 4}
  Modes = {TRUE, FALSE}
  Senders <- OnlyClient
  Receivers <- OnlyServer
  Closers <- Both
  TimeoutCalls <- UploadTimeouts
  Window = 2
  MaxRW = 2
  IntMax = 2
  MaxStream = 4
INVARIANTS
  BufferInBounds
  SendReport
  ReportUnlessInterrupted
  LossAccounting
  ReceivedInOrder
  ShortMeansClosed
PROPERTY
  PipeKept
CHECK_DEADLOCK FALSE
