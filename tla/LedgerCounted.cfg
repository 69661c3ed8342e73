SPECIFICATION PartSpec
CONSTANTS
  ann = ann
  bob = bob
  w1 = w1
  w2 = w2
  c1 = c1
  x1 = x1
  Free = Free
  Users = {ann, bob}
  Founders = {ann, bob}
  Workers = {w1}
  Clients = {c1}
  Contributions <- OneRound
  Payouts <- PaidRound
  RecordInputs <- OneRound
  PayoutInputs <- None
  Editors = {}
  EventTotals = {2}
  MaxFaults = 0
INVARIANT HandledIsCounted
CHECK_DEADLOCK FALSE
