SPECIFICATION ConvertSpec
CONSTANTS
  Sources <- ManySources
  Rooms = {0, 1, 2, 3, 4}
INVARIANT
  IllegalIsReported
CHECK_DEADLOCK FALSE
