SPECIFICATION Spec
CONSTANTS
  Job <- IntakeJobs
  NoJob = NoJob
  MaxJobRetries = 1
  Worker = {w1}
  MaxDedupEntries = 20
  InspectionWindow = 2
  MaxDeferrals = 1
  Handler = {h1, h2}
  Delivery = {"d1", "d2", "d3"}
  Body = {"b1", "b2", "b3"}
  Event <- AllEvents
  Script <- Scripts
  AutoEnable = TRUE
  MaxClaims = 3
  MaxFaults = 1
SYMMETRY Symmetry
CHECK_DEADLOCK FALSE
INVARIANTS
  OwnsUnlessLate
  ProcessedWasHandled
  JobsAccounted
PROPERTY
  CommandsKeptBehind
