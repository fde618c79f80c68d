SPECIFICATION Spec
CONSTANTS
  Job <- PairJobs
  NoJob = NoJob
  MaxJobRetries = 0
  Slot = {s1, s2}
  Token = {k1, k2}
  NoToken = NoToken
  NoTenant = NoTenant
  TenantLimit = 2
  Window = 2
  BurstLimit = 2
  MaxResume = 0
  MaxArrivals = 2
  MaxCrashes = 0
  MaxStalls = 0
  MaxFaults = 0
CHECK_DEADLOCK FALSE
INVARIANT
  NeverDropped
