SPECIFICATION PartSpec
CONSTANTS
  ann = ann
  bob = bob
  w1 = w1
  w2 = w2
  c1 = c1
  x1 = x1
  Free = Free
  Users = {ann, bob}
  Founders = {ann}
  Workers = {w1, w2}
  Clients = {c1}
  Contributions <- TwoRounds
  Payouts <- PaidRound
  RecordInputs <- ClientRound
  PayoutInputs <- PaidRound
  Editors = {x1}
  EventTotals = {2}
  MaxFaults = 1
INVARIANTS NoneCountedTwice
PROPERTIES RefinesCounters EventsSettled
CHECK_DEADLOCK FALSE
