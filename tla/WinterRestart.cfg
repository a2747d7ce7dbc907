SPECIFICATION SerialSpec
CONSTANTS
  None = None
  Torn = Torn
  w1 = w1
  w2 = w2
  w3 = w3
  Windows <- AllWindows
  Configs <- OneConfig
  Slots = 2
  Requests <- OneSeason
  Endpoints <- WinterEndpoints
  MaxDay = 1
  MaxCalls = 1
  MaxFails = 0
  MaxRestarts = 1
INVARIANTS
  NothingToRestoreByHand
