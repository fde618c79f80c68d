SPECIFICATION Spec
CONSTANTS
  s1 = s1
  s2 = s2
  s3 = s3
  wA = wA
  wB = wB
  NoSlot = NoSlot
  NoWorker = NoWorker
  NoRun = NoRun
  Slot = {s1, s2, s3}
  WorkerOf <- TwoAndOne
  Run = {r1, r2}
  Units = 2
  MaxConcurrent = 2
  MaxResume = 0
  MaxReturns = 1
  MaxReplays = 1
  Slow = {s1}
  MaxResolutions = 1
  MaxLostReplies = 1
SYMMETRY RunSymmetry
CHECK_DEADLOCK FALSE
INVARIANT
  TypeOK
  OneWritePerRun
  CompletedWasPublished
  PaidUnlessDisowned
PROPERTIES
  EndedByOwner
  EndedStays
  ClaimFenced
