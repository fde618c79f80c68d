SPECIFICATION Spec
CONSTANTS
  critical = critical
  minor = minor
  s1 = s1
  s2 = s2
  Site <- MCSite
  High <- MCHigh
  Ready <- MCHigh
  Audited <- MCLow
  Slot = {s1, s2}
  NoSlot = NoSlot
  Orphan = Orphan
  MaxCommits = 3
  MaxJobs = 2
  MaxStalls = 1
SYMMETRY Symmetry
CHECK_DEADLOCK FALSE
INVARIANTS
  HighFixedOnEvidence
  CoveredUpTo
PROPERTIES
  OnlyFixesCommitted
  NoFlipFlop
  IgnoredKept
