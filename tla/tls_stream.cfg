SPECIFICATION TLSFairSpec
CONSTANTS
  Sizes = {1, 3, 9}
  Modes = {TRUE, FALSE}
  Senders = {"client"}
  Receivers = {"server"}
  Closers = {"client", "server"}
  TimeoutCalls <- UploadTimeouts
  Window = 2
  MaxRecord = 2
  IntMax = 3
  MaxStream = 4
INVARIANTS
  TLSTypeOK
  TLSReceiveReport
  QuietMeansCaughtUp
PROPERTIES
  TLSPipeKept
  TLSReceiveReturns
  TLSDisconnectReturns
CHECK_DEADLOCK FALSE
