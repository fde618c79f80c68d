SPECIFICATION FairSpec
CONSTANTS
  c1 = c1
  c2 = c2
  c3 = c3
  pA = pA
  pB = pB
  Nobody = Nobody
  Caller = {c1, c2, c3}
  ProcessOf <- TwoAndOne
  Limit = 2
  LocalLimit = 1
  MaxStarts = 5
  MaxCooldowns = 1
  MaxFaults = 2
CHECK_DEADLOCK FALSE
INVARIANTS
  FleetCeiling
  GateExact
  ParkedWithoutLease
PROPERTIES
  CallsSettle
