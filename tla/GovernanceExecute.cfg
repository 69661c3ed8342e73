SPECIFICATION Spec
CONSTANTS
  Voters = {ann}
  Requests = {r1, r2}
  Weights = {1}
  Delay = 1
  Pct = 33
  MaxTime = 2
  MaxActions = 2
INVARIANTS ExecutedOnce
CHECK_DEADLOCK FALSE
