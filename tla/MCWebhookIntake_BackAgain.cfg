SPECIFICATION Spec
CONSTANTS
  Job <- IntakeJobs
  NoJob = NoJob
  MaxJobRetries = 1
  Worker = {w1}
  MaxDedupEntries = 20
  InspectionWindow = 2
  MaxDeferrals = 1
  Handler = {h1}
  Delivery = {"d1", "d2", "d3", "d4"}
  Body = {"b1", "b2", "b3", "b4"}
  Event <- AllEvents
  Script <- BackAgain
  AutoEnable = TRUE
  MaxClaims = 4
  MaxFaults = 1
CHECK_DEADLOCK FALSE
INVARIANT EnqueueIsLegal
