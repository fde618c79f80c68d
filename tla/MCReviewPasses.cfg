SPECIFICATION FairSpec
CONSTANTS
  Plans <- MCPlans
  Buckets = {"luna", "deepseek"}
  ApiConcurrency = 2
  Loads <- MCLoads
  NoLoad = NoLoad
  MinRuns = 2
  MaxJobRetries = 1
  RequeueCap = 8
  MaxStarts = 2
CHECK_DEADLOCK FALSE
INVARIANT PublishedCovered
PROPERTIES RetryBuysMissing AttemptEnds
