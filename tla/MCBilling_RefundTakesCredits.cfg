SPECIFICATION Spec
CONSTANTS
  oldSub = oldSub
  newSub = newSub
  topUp1 = topUp1
  NoSub = NoSub
  Sub = {oldSub, newSub}
  PlanOf <- Plans
  Session = {topUp1}
  Price <- Prices
  Run = {r1}
  Story <- AllStories
  MaxEvents = 8
  MaxFaults = 2
CHECK_DEADLOCK FALSE
INVARIANT
  ClawsOnlyTopUps
