CONSTANTS
  None = None
  ForeignFile = {}
  Trash <- Slots
  Kinds = {"fresh", "replace", "rename", "delete"}
  MaxFaults = 2
  MaxCrashes = 2
SPECIFICATION LiveSpec
INVARIANT AllOrNothing
PROPERTIES Atomic JournalRetired
CHECK_DEADLOCK FALSE
