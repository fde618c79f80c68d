SPECIFICATION Spec
CONSTANTS
  Job <- FleetJobs
  NoJob = NoJob
  MaxJobRetries = 0
  Slot = {s1, s2}
  Token = {k1, k2}
  NoToken = NoToken
  NoTenant = NoTenant
  TenantLimit = 1
  Window = 2
  BurstLimit = 2
  MaxResume = 1
  MaxArrivals = 2
  MaxCrashes = 1
  MaxStalls = 1
  MaxFaults = 1
SYMMETRY Symmetry
CHECK_DEADLOCK FALSE
INVARIANTS
  PrExclusion
  TenantAccounting
  TenantCeiling
PROPERTIES
  LeaseFencing
  DroppedOnlyUnbacked
  PrLockImplemented
