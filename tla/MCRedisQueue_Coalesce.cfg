SPECIFICATION Spec
CONSTANTS
  Job <- PushJobs
  NoJob = NoJob
  MaxJobRetries = 0
  Slot = {s1, s2}
  Token = {k1, k2}
  NoToken = NoToken
  NoTenant = NoTenant
  TenantLimit = 0
  Window = 1
  BurstLimit = 1
  MaxResume = 0
  MaxArrivals = 3
  MaxCrashes = 0
  MaxStalls = 0
  MaxFaults = 0
SYMMETRY Symmetry
CHECK_DEADLOCK FALSE
INVARIANTS
  TypeOK
  PendingCountExact
  OnePendingReview
PROPERTY
  CommandsKept
