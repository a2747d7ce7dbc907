SPECIFICATION FairSpec
CONSTANTS
  None = None
  Torn = Torn
  w1 = w1
  w2 = w2
  w3 = w3
  Windows <- AllWindows
  Configs <- FittingConfig
  Slots = 2
  Requests <- TwoStarts
  Endpoints <- WinterEndpoints
  MaxDay = 2
  MaxCalls = 2
  MaxFails = 2
  MaxRestarts = 0
PROPERTIES
  RestoreCompletes
  ClearCompletes
  OverSeasonEnds
