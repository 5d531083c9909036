SPECIFICATION FairSpec
CONSTANTS
  Sizes = {1, 2}
  Modes = {TRUE}
  Senders <- OnlyServer
  Receivers <- OnlyClient
  Closers <- Nobody
  TimeoutCalls <- ServerSendTimeouts
  Window = 1
  MaxRW = 1
  IntMax = 2
  MaxStream = 2
PROPERTY
  BoundedCallsReturn
CHECK_DEADLOCK FALSE
