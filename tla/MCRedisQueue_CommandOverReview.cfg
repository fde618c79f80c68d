SPECIFICATION Spec
CONSTANTS
  Job <- PushJobs
  NoJob = NoJob
  MaxJobRetries = 0
  Slot = {s1}
  Token = {k1, k2}
  NoToken = NoToken
  NoTenant = NoTenant
  TenantLimit = 0
  Window = 2
  BurstLimit = 2
  MaxResume = 0
  MaxArrivals = 3
  MaxCrashes = 0
  MaxStalls = 0
  MaxFaults = 0
CHECK_DEADLOCK FALSE
PROPERTY
  ReviewKeptFromCommands
