SPECIFICATION Spec
CONSTANTS
  Voters = {ann, bob}
  Requests = {r1, r2}
  Weights = {1, 3}
  Delay = 1
  Pct = 51
  MaxTime = 1
  MaxActions = 1
INVARIANTS TypeOK TallyMatchesBallots CancelBacked
PROPERTIES TimelockHolds
SYMMETRY Symmetric
CHECK_DEADLOCK FALSE
