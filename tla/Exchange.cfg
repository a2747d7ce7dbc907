SPECIFICATION FairSpec
CHECK_DEADLOCK FALSE
CONSTANTS
  None = None
  Failed = Failed
  t0 = t0
  t1 = t1
  Tables <- TwoTables
  Calls <- OneOfEach
  Attempts = 2
  MaxExchanges = 2
  MaxPresses = 1
  Buffer = 1
INVARIANTS
  TypeOK
  StaleOnlyIfLate
PROPERTIES
  KeepsPromise
  CallReturns
