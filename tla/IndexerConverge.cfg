SPECIFICATION EngineOnly
CONSTANTS
  Txns = {t1}
  NoTxn = NoTxn
  BatchSize = 2
  Window = 3
  Batch = 1
  MaxPerCycle = 2
  MaxLedgers = 3
  MaxReorgs = 1
  MaxFaults = 0
  MaxSkips = 0
  MaxCrashes = 0
INVARIANTS ReorgConverges
CHECK_DEADLOCK FALSE
