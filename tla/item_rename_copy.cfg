CONSTANTS
  None = None
  ForeignFile = {f1}
  Trash <- Slots
  Kinds = {"rename"}
  MaxFaults = 0
  MaxCrashes = 0
SPECIFICATION Spec
PROPERTY CopyRetained
CHECK_DEADLOCK FALSE
