SPECIFICATION Spec
CONSTANTS
  critical = critical
  minor = minor
  s1 = s1
  s2 = s2
  Site <- MCSite
  High <- MCHigh
  Ready <- MCHigh
  Audited = {}
  Slot = {s1, s2}
  NoSlot = NoSlot
  Orphan = Orphan
  MaxCommits = 1
  MaxJobs = 3
  MaxStalls = 0
CHECK_DEADLOCK FALSE
INVARIANTS
  IgnoredNotReported
