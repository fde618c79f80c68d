SPECIFICATION FairSpec
CONSTANTS
  Job <- PushJobs
  NoJob = NoJob
  MaxJobRetries = 1
  Slot = {s1}
  Token = {k1, k2}
  NoToken = NoToken
  NoTenant = NoTenant
  TenantLimit = 0
  Window = 2
  BurstLimit = 2
  MaxResume = 1
  MaxArrivals = 2
  MaxCrashes = 1
  MaxStalls = 0
  MaxFaults = 1
CHECK_DEADLOCK FALSE
PROPERTIES
  BackupsRecovered
  PendingServed
  RetryNotLost
