CONSTANTS
  None = None
  Forever = Forever
  a = a
  b = b
  g = g
  pa = pa
  pb = pb
  t = t
  Token = {t}
  Zone = {a, b}
  Group = {g}
  Path = {pa, pb}
  Duration = {1, Forever}
  Grants <- MCGrants
  Snapshots <- MCSnapshots
  MaxChanges = 1
  Ask <- MCAsk
  Timeout = 1
  ArchiveTime = 2
  MaxArchives = 1
  MaxChunks = 1
  MaxRequests = 2
SPECIFICATION LiveSpec
INVARIANTS TypeOK SlotsKept RightsCurrent
PROPERTIES CutJust RequestsEnd
CHECK_DEADLOCK FALSE
