CONSTANTS
  None = None
  a = a
  b = b
  r1 = r1
  r2 = r2
  x = x
  y = y
  Zone = {a, b}
  Name = {1, 2, 3}
  Data = {x, y}
  Device <- MCDevice
  Room <- MCRoom
  Retain <- MCRetain
  Request = {r1, r2}
  Orders <- MCOrders
  Stocks <- MCStocks
  MaxFaults = 2
SPECIFICATION LiveSpec
INVARIANTS TypeOK StageRetired
PROPERTIES SpaceKept   AllAnswered
CHECK_DEADLOCK FALSE
