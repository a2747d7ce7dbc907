SPECIFICATION SerialSpec
CONSTANTS
  None = None
  Torn = Torn
  w1 = w1
  w2 = w2
  w3 = w3
  Windows <- AllWindows
  Configs <- OneConfig
  Slots = 2
  Requests <- OneSeason
  Endpoints <- WinterEndpoints
  MaxDay = 1
  MaxCalls = 3
  MaxFails = 1
  MaxRestarts = 0
INVARIANTS
  WinterTimersStayCleared
