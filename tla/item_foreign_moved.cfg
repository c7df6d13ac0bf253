CONSTANTS
  None = None
  ForeignFile = {f1}
  Trash <- Slots
  Kinds = {"fresh"}
  MaxFaults = 0
  MaxCrashes = 0
SPECIFICATION Spec
INVARIANT ForeignInPlace
CHECK_DEADLOCK FALSE
