CONSTANTS
  None = None
  Conn = {c1}
  MaxPending = 1
  MaxActive = 1
SPECIFICATION LiveSpec
PROPERTY GracefulShutdown
CHECK_DEADLOCK FALSE
