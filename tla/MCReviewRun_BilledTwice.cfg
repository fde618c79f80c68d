SPECIFICATION Spec
CONSTANTS
  s1 = s1
  s2 = s2
  s3 = s3
  wA = wA
  wB = wB
  NoSlot = NoSlot
  NoWorker = NoWorker
  NoRun = NoRun
  Slot = {s1, s3}
  WorkerOf <- OneAndOne
  Run = {r1, r2}
  Units = 2
  MaxConcurrent = 2
  MaxResume = 0
  MaxReturns = 0
  MaxReplays = 1
  Slow = {}
  MaxResolutions = 0
  MaxLostReplies = 0
SYMMETRY RunSymmetry
CHECK_DEADLOCK FALSE
PROPERTIES
  OneBilledRun
