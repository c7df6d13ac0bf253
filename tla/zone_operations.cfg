CONSTANTS
  None = None
  a = a
  b = b
  o1 = o1
  o2 = o2
  Zone = {a, b}
  Collected = {a}
  Dir = {1, 2, 3}
  Home <- MCHome
  Op = {o1, o2}
  Jobs <- MCJobs
  MaxMoves = 2
SPECIFICATION LiveSpec
INVARIANTS TypeOK Exclusive StateKnown ClosedForGood
PROPERTIES OperationsEnd CloseEnds
CHECK_DEADLOCK FALSE
