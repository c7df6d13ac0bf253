CONSTANTS
  None = None
  ForeignFile = {f1}
  Trash <- Slots
  Kinds = {"fresh", "replace", "rename", "delete"}
  MaxFaults = 1
  MaxCrashes = 1
SPECIFICATION Spec
INVARIANTS TypeOK OutcomeVisible
PROPERTIES LastCopyKept ForeignKept ReplyFinal
CHECK_DEADLOCK FALSE
