SPECIFICATION Spec
CONSTANTS
  Sizes = {2}
  Modes = {TRUE}
  Senders <- OnlyClient
  Receivers <- OnlyServer
  Closers <- Nobody
  TimeoutCalls <- UploadTimeouts
  Window = 2
  MaxRW = 2
  IntMax = 2
  MaxStream = 4
INVARIANT
  ReceiveReport
CHECK_DEADLOCK FALSE
