CONSTANTS
  None = None
  Poll = poll
  MaxTasks = 2
  MaxChanges = 2
SPECIFICATION LiveSpec
INVARIANT ReplaceAsked
PROPERTIES NewerKept Converges
