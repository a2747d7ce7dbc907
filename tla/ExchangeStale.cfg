SPECIFICATION Spec
CONSTANTS
  None = None
  Failed = Failed
  t0 = t0
  t1 = t1
  Tables <- TwoTables
  Calls <- OneOfEach
  Attempts = 2
  MaxExchanges = 2
  MaxPresses = 0
  Buffer = 2
INVARIANTS
  NoStaleAnswer
