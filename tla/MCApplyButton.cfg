SPECIFICATION Spec
CONSTANTS
  Hook = {h1, h2}
  MaxResume = 1
  MaxHeads = 2
  MaxTicks = 2
  MaxFaults = 0
CHECK_DEADLOCK FALSE
INVARIANTS
  ButtonNotStuck
