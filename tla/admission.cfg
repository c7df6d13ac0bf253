CONSTANTS
  None = None
  Conn = {c1, c2, c3}
  MaxPending = 2
  MaxActive = 1
SPECIFICATION LiveSpec
INVARIANTS TypeOK SlotsAccounted NothingLeaked
PROPERTY ShutdownCompletes
CHECK_DEADLOCK FALSE
