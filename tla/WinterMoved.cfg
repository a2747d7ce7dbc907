SPECIFICATION SerialSpec
CONSTANTS
  None = None
  Torn = Torn
  w1 = w1
  w2 = w2
  w3 = w3
  Windows <- AllWindows
  Configs <- OneConfig
  Slots = 2
  Requests <- TwoStarts
  Endpoints <- WinterEndpoints
  MaxDay = 2
  MaxCalls = 3
  MaxFails = 0
  MaxRestarts = 0
INVARIANTS
  NothingToRestoreByHand
