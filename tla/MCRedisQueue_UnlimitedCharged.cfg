SPECIFICATION Spec
CONSTANTS
  Job <- TenantJobs
  NoJob = NoJob
  MaxJobRetries = 0
  Slot = {s1}
  Token = {k1, k2}
  NoToken = NoToken
  NoTenant = NoTenant
  TenantLimit = 1
  Window = 2
  BurstLimit = 2
  MaxResume = 0
  MaxArrivals = 1
  MaxCrashes = 0
  MaxStalls = 0
  MaxFaults = 0
CHECK_DEADLOCK FALSE
INVARIANT
  UnlimitedNotCharged
