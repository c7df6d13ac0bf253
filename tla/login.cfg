CONSTANTS
  None = None
  Attempt = {a1, a2, a3}
  Client = {k1, k2}
  MaxChecks = 2
  MaxTracked = 1
  Threshold = 1
  BaseDelay = 3
  MaxDelay = 4
  ForgetAfter = 1
  MaxSessions = 2
  Ttl = 2
  MaxTime = 4
  MaxVersion = 1
SYMMETRY Symmetry
SPECIFICATION Spec
INVARIANTS TypeOK ChecksAccounted
PROPERTIES LockoutHeld SessionsLast
CHECK_DEADLOCK FALSE
