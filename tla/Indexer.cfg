SPECIFICATION PartSpec
CONSTANTS
  t1 = t1
  t2 = t2
  Txns = {t1, t2}
  NoTxn = NoTxn
  BatchSize = 2
  Window = 2
  Batch = 1
  MaxPerCycle = 2
  MaxLedgers = 3
  MaxReorgs = 1
  MaxFaults = 1
  MaxSkips = 1
  MaxCrashes = 1
INVARIANTS TypeOK NothingLost
PROPERTIES RewindOnlyAtFork
SYMMETRY Symmetric
CHECK_DEADLOCK FALSE
